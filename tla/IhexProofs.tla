----------------------------- MODULE IhexProofs -----------------------------
(***************************************************************************)
(* What is proved about sparse_buffer and parse_ihex: for files of any length,*)
(* bytes and addresses of any width, and any order of the records.  It is what*)
(* Programming needs of the file.                                            *)
(*                                                                           *)
(* The invariant, HexInv, has the types of the map in HexOK, with addresses in *)
(* the half that is not negative or in the one that a base with its sign      *)
(* extended has.  Fits says that regions do not overlap, since the two that   *)
(* intersects looks at are next to the new bytes, for a file in which no sum  *)
(* of an address and a size wraps.  HexRead is about what the lines say, and so*)
(* only for a file that has no base of the second kind.                       *)
(***************************************************************************)
EXTENDS IhexFile, WellFoundedInduction, TLAPS

(* Induction over data is out of the provers' reach, but not a least element.  *)
Less == {p \in Nat \X Nat : p[1] < p[2]}

(* The order of the numbers is well founded.                                 *)
LEMMA LessIsWellFounded == IsWellFoundedOn(Less, Nat)
<1>1. OpToRel(<,Nat) = Less
  BY DEF OpToRel, Less
<1> QED
  BY <1>1, NatLessThanWellFounded

(* A set of numbers has a least one.                                         *)
LEMMA MinIsLeast ==
    ASSUME NEW S \in SUBSET Nat, S # {}
    PROVE  Min(S) \in S /\ \A y \in S : Min(S) <= y
<1>1. PICK x \in S : \A y \in S : ~(<<y, x>> \in Less)
  BY LessIsWellFounded, WFMin
<1>2. \A y \in S : x <= y
  <2>1. ASSUME NEW y \in S PROVE x <= y
    <3>1. x \in Nat /\ y \in Nat
      OBVIOUS
    <3>2. y < x => <<y, x>> \in Less
      BY <3>1 DEF Less
    <3> QED
      BY <1>1, <3>1, <3>2
  <2> QED
    BY <2>1
<1> QED
  BY <1>2 DEF Min

(* A set of numbers with a bound has a greatest one.                         *)
LEMMA MaxIsGreatest ==
    ASSUME NEW S \in SUBSET Nat, S # {}, NEW b \in Nat, \A x \in S : x <= b
    PROVE  Max(S) \in S /\ \A y \in S : Max(S) >= y
<1> DEFINE T == {b - x : x \in S}
<1>1. T \in SUBSET Nat /\ T # {}
  <2>1. ASSUME NEW x \in S PROVE b - x \in Nat
    <3>1. x \in Nat /\ x <= b
      OBVIOUS
    <3> QED
      BY <3>1
  <2>2. PICK x \in S : TRUE
    OBVIOUS
  <2>3. b - x \in T
    OBVIOUS
  <2> QED
    BY <2>1, <2>3
<1> HIDE DEF T
<1>2. Min(T) \in T /\ \A y \in T : Min(T) <= y
  BY <1>1, MinIsLeast
<1>3. PICK m \in S : Min(T) = b - m
  BY <1>2 DEF T
<1>4. ASSUME NEW y \in S PROVE m >= y
  <2>1. b - m <= b - y
    BY <1>2, <1>3 DEF T
  <2> QED
    BY <2>1
<1> QED
  BY <1>4 DEF Max
-----------------------------------------------------------------------------
Half == U32 \div 2

(* A product of numbers is one.                                              *)
LEMMA ProductIsNat == ASSUME NEW a \in Nat, NEW b \in Nat PROVE a * b \in Nat
OBVIOUS

(* The half of a product.                                                    *)
LEMMA Doubled == ASSUME NEW h \in Nat, NEW m \in Nat PROVE (2 * h) * m = 2 * (h * m)
OBVIOUS

(* The widths, as numbers and multiples of each other.                       *)
LEMMA Widths ==
    /\ Nibble \in Nat /\ Byte \in Nat /\ U16 \in Nat /\ U32 \in Nat /\ U64 \in Nat
    /\ Nibble >= 2 /\ Byte >= 2 * Nibble /\ U16 >= 2 * Byte /\ U32 >= 2 * U16
    /\ Half \in Nat /\ U32 = 2 * Half /\ Half >= U16 /\ U64 >= 2 * U32
<1>1. PICK n \in Nat : n = Nibble /\ n >= 2 /\ n % 2 = 0
  BY NibbleAssumption
<1>2. ASSUME NEW a \in Nat, NEW b \in Nat, a >= 2, b >= 2
      PROVE  a * b \in Nat /\ a * b >= 2 * a /\ a * b >= 2 * b
  BY <1>2
<1>3. Byte \in Nat /\ Byte >= 2 * Nibble
  BY <1>1, <1>2 DEF Byte
<1>4. U16 \in Nat /\ U16 >= 2 * Byte
  BY <1>1, <1>2, <1>3 DEF U16
<1>5. U32 \in Nat /\ U32 >= 2 * U16
  BY <1>1, <1>2, <1>3, <1>4 DEF U32
<1>6. U64 \in Nat /\ U64 >= 2 * U32
  BY <1>1, <1>2, <1>3, <1>4, <1>5 DEF U64
<1>7. PICK h \in Nat : n = 2 * h
  <2>1. n \div 2 \in Nat /\ n = 2 * (n \div 2)
    BY <1>1
  <2> QED
    BY <2>1
<1>8. U32 = 2 * Half /\ Half \in Nat
  <2>1. PICK k \in Nat : U32 = 2 * k
    <3>1. PICK k1 \in Nat : k1 = h * Nibble
      BY <1>1, <1>7
    <3>2. Byte = 2 * k1
      <4>1. Nibble \in Nat /\ Nibble = 2 * h
        BY <1>1, <1>7
      <4>2. (2 * h) * Nibble = 2 * (h * Nibble)
        BY <4>1, Doubled
      <4>3. Byte = (2 * h) * Nibble
        BY <4>1 DEF Byte
      <4> QED
        BY <3>1, <4>2, <4>3
    <3>3. PICK k2 \in Nat : k2 = k1 * Byte
      BY <1>3, <3>1
    <3>4. U16 = 2 * k2
      BY <1>3, <3>1, <3>2, <3>3, Doubled DEF U16
    <3>5. k2 * U16 \in Nat
      BY <1>4, <3>3
    <3>6. U32 = 2 * (k2 * U16)
      BY <1>4, <3>3, <3>4, <3>5, Doubled DEF U32
    <3> QED
      BY <3>5, <3>6
  <2> QED
    BY <2>1 DEF Half
<1> QED
  BY <1>1, <1>3, <1>4, <1>5, <1>6, <1>8
-----------------------------------------------------------------------------
(* Regions with numbers for bytes, that begin in the address space; a map of   *)
(* those that end before it does; none over another.                         *)
Regions(r) == /\ r = [x \in DOMAIN r |-> r[x]]
              /\ DOMAIN r \in SUBSET (0..U64 - 1)
              /\ \A x \in DOMAIN r : r[x] \in Seq(Nat)

Map(r) == Regions(r) /\ \A x \in DOMAIN r : x + Len(r[x]) < U64

Apart(r) == \A x, y \in DOMAIN r : x < y => End(r, x) <= y

(* A sum that is an address does not wrap.                                   *)
LEMMA PlusIsSum ==
    ASSUME NEW a \in Nat, NEW n \in Nat, a + n < U64
    PROVE  Plus(a, n) = a + n
<1>1. PICK s \in Nat : s = a + n
  OBVIOUS
<1>2. PICK u \in Nat : u = U64
  BY Widths
<1>3. s < u => s % u = s
  BY <1>1, <1>2
<1> QED
  BY <1>1, <1>2, <1>3 DEF Plus

(* The address behind a region is a number, not below the region's.          *)
LEMMA EndIsNat ==
    ASSUME NEW r, Map(r), NEW x \in DOMAIN r
    PROVE  /\ x \in Nat /\ Len(r[x]) \in Nat /\ DOMAIN r[x] = 1..Len(r[x])
           /\ End(r, x) \in Nat /\ End(r, x) = x + Len(r[x]) /\ End(r, x) < U64
<1>1. x \in Nat /\ r[x] \in Seq(Nat) /\ x + Len(r[x]) < U64
  BY DEF Map, Regions
<1>2. Len(r[x]) \in Nat /\ DOMAIN r[x] = 1..Len(r[x])
  BY <1>1
<1>3. End(r, x) = x + Len(r[x])
  BY <1>1, <1>2, PlusIsSum DEF End
<1> QED
  BY <1>1, <1>2, <1>3

(* The region at or before an address, and the one behind it.                *)
LEMMA LastUpTo ==
    ASSUME NEW r, Regions(r), NEW a \in Nat, UpTo(r, a) # {}
    PROVE  /\ Max(UpTo(r, a)) \in DOMAIN r /\ Max(UpTo(r, a)) <= a
           /\ \A x \in DOMAIN r : x <= a => x <= Max(UpTo(r, a))
<1> DEFINE S == UpTo(r, a)
<1>1. S \in SUBSET Nat /\ \A x \in S : x <= a
  BY DEF UpTo, Regions
<1>2. S # {}
  OBVIOUS
<1> HIDE DEF S
<1>3. Max(S) \in S /\ \A y \in S : Max(S) >= y
  BY <1>1, <1>2, MaxIsGreatest
<1>4. Max(S) \in Nat
  BY <1>1, <1>3
<1>5. ASSUME NEW x \in DOMAIN r, x <= a PROVE x <= Max(S)
  <2>1. x \in S /\ x \in Nat
    BY <1>5 DEF S, UpTo, Regions
  <2> QED
    BY <1>3, <1>4, <2>1
<1> QED
  BY <1>3, <1>5 DEF S, UpTo

(* The region after an address is the nearest of those behind it.            *)
LEMMA FirstBeyond ==
    ASSUME NEW r, Regions(r), NEW a \in Nat, Beyond(r, a) # {}
    PROVE  /\ Min(Beyond(r, a)) \in DOMAIN r /\ Min(Beyond(r, a)) > a
           /\ \A x \in DOMAIN r : x > a => Min(Beyond(r, a)) <= x
<1> DEFINE S == Beyond(r, a)
<1>1. S \in SUBSET Nat /\ S # {}
  BY DEF Beyond, Regions
<1> HIDE DEF S
<1>2. Min(S) \in S /\ \A y \in S : Min(S) <= y
  BY <1>1, MinIsLeast
<1> QED
  BY <1>2 DEF S, Beyond

(* intersects is asked of the two regions next to the address, and tells of    *)
(* them all.                                                                 *)
LEMMA ClearOfAll ==
    ASSUME NEW r, Map(r), Apart(r), NEW a \in Nat, NEW n \in Nat, a + n < U64,
           ~Intersects(r, a, n), NEW x \in DOMAIN r
    PROVE  IF x <= a THEN End(r, x) <= a ELSE a + n <= x
<1>1. x \in Nat /\ End(r, x) \in Nat
  BY EndIsNat
<1>2. CASE x <= a
  <2> DEFINE p == Max(UpTo(r, a))
  <2>1. UpTo(r, a) # {}
    BY <1>2 DEF UpTo
  <2>2. p \in DOMAIN r /\ p <= a /\ x <= p
    BY <1>2, <2>1, LastUpTo DEF Map
  <2>3. ~(End(r, p) > a)
    BY <2>1 DEF Intersects
  <2> HIDE DEF p
  <2>4. p \in Nat /\ End(r, p) \in Nat
    BY <2>2, EndIsNat
  <2>5. x = p \/ End(r, x) <= p
    BY <1>1, <2>2, <2>4 DEF Apart
  <2> QED
    BY <1>1, <1>2, <2>2, <2>3, <2>4, <2>5
<1>3. CASE x > a
  <2> DEFINE m == Min(Beyond(r, a))
  <2>1. Beyond(r, a) # {}
    BY <1>3 DEF Beyond
  <2>2. m \in DOMAIN r /\ m > a /\ m <= x
    BY <1>3, <2>1, FirstBeyond DEF Map
  <2>3. ~(m < a + n)
    BY <2>1, PlusIsSum DEF Intersects
  <2> HIDE DEF m
  <2>4. m \in Nat
    BY <2>2, EndIsNat
  <2> QED
    BY <1>1, <1>3, <2>2, <2>3, <2>4
<1> QED
  BY <1>1, <1>2, <1>3

(* What intersects has found.                                                *)
LEMMA OneIsMet ==
    ASSUME NEW r, Map(r), NEW a \in Nat, NEW n \in Nat, a + n < U64, Intersects(r, a, n)
    PROVE  \E x \in DOMAIN r : (x <= a /\ a < End(r, x)) \/ (a < x /\ x < a + n)
<1>1. CASE UpTo(r, a) # {} /\ End(r, Max(UpTo(r, a))) > a
  <2> DEFINE p == Max(UpTo(r, a))
  <2>1. p \in DOMAIN r /\ p <= a /\ End(r, p) > a
    BY <1>1, LastUpTo DEF Map
  <2> HIDE DEF p
  <2>2. End(r, p) \in Nat
    BY <2>1, EndIsNat
  <2> QED
    BY <2>1, <2>2
<1>2. CASE Beyond(r, a) # {} /\ Min(Beyond(r, a)) < a + n
  <2> DEFINE m == Min(Beyond(r, a))
  <2>1. m \in DOMAIN r /\ m > a /\ m < a + n
    BY <1>2, FirstBeyond DEF Map
  <2> HIDE DEF m
  <2>2. m \in Nat
    BY <2>1, EndIsNat
  <2> QED
    BY <2>1, <2>2
<1> QED
  BY <1>1, <1>2, PlusIsSum DEF Intersects
-----------------------------------------------------------------------------
(* w is r with bytes at a, in a region of their own or behind those of the     *)
(* region at p.                                                              *)
Extends(r, a, bytes, w, p, old) ==
    /\ p \in 0..U64 - 1 /\ old \in Seq(Nat) /\ p + Len(old) = a
    /\ \A x \in DOMAIN r : x <= a => x <= p
    /\ old = IF p \in DOMAIN r THEN r[p] ELSE <<>>
    /\ w = [x \in DOMAIN r \cup {p} |-> IF x = p THEN old \o bytes ELSE r[x]]

(* A sequence behind another.                                                *)
LEMMA Joined ==
    ASSUME NEW s \in Seq(Nat), NEW t \in Seq(Nat)
    PROVE  /\ s \o t \in Seq(Nat) /\ Len(s \o t) = Len(s) + Len(t)
           /\ \A i \in 1..Len(s) : (s \o t)[i] = s[i]
           /\ \A i \in 1..Len(t) : (s \o t)[Len(s) + i] = t[i]
OBVIOUS

(* What is left of write_region when nothing is in its way.                  *)
LEMMA WriteExtends ==
    ASSUME NEW r, Map(r), Apart(r), NEW a \in 0..U64 - 1, NEW bytes \in Seq(Nat),
           a + Len(bytes) < U64, ~Intersects(r, a, Len(bytes))
    PROVE  \E p, old : Extends(r, a, bytes, WriteRegion(r, a, bytes), p, old)
<1> DEFINE p    == Max(UpTo(r, a))
           over == {x \in Beyond(r, a) : x < Plus(a, Len(bytes))}
<1>1. U64 \in Nat /\ a \in Nat /\ Len(bytes) \in Nat
  BY Widths
<1>2. over = {}
  <2>1. ASSUME NEW x \in DOMAIN r, x > a, x < a + Len(bytes) PROVE FALSE
    BY <1>1, <2>1, ClearOfAll, EndIsNat
  <2>2. Plus(a, Len(bytes)) = a + Len(bytes)
    BY <1>1, PlusIsSum
  <2> QED
    BY <2>1, <2>2 DEF Beyond
<1>3. CASE UpTo(r, a) = {} \/ End(r, p) < a
  <2>1. WriteRegion(r, a, bytes) = Swallow(r, a, bytes, over)
    BY <1>3 DEF WriteRegion
  <2>2. a \notin DOMAIN r
    <3>1. SUFFICES ASSUME a \in DOMAIN r PROVE FALSE
      OBVIOUS
    <3>2. UpTo(r, a) # {}
      BY <1>1, <3>1 DEF UpTo
    <3>3. p \in DOMAIN r /\ p <= a /\ a <= p
      BY <1>1, <3>1, <3>2, LastUpTo DEF Map
    <3>4. End(r, p) < a
      BY <1>3, <3>2
    <3> HIDE DEF p
    <3>5. p \in Nat /\ End(r, p) = p + Len(r[p]) /\ Len(r[p]) \in Nat
      BY <3>3, EndIsNat
    <3> QED
      BY <1>1, <3>3, <3>4, <3>5
  <2> DEFINE w == [x \in DOMAIN r \cup {a} |-> IF x = a THEN <<>> \o bytes ELSE r[x]]
  <2>3. bytes \o <<>> = bytes /\ <<>> \o bytes = bytes
    OBVIOUS
  <2>4. Swallow(r, a, bytes, over) = w
    <3>1. Swallow(r, a, bytes, over)
          = [y \in (DOMAIN r \cup {a}) \ over |-> IF y = a THEN bytes \o <<>> ELSE r[y]]
      BY <1>2 DEF Swallow
    <3> HIDE DEF over
    <3>2. (DOMAIN r \cup {a}) \ over = DOMAIN r \cup {a}
      BY <1>2
    <3> QED
      BY <3>1, <3>2, <2>3
  <2>5. <<>> \in Seq(Nat) /\ a + Len(<<>>) = a
    BY <1>1
  <2>6. Extends(r, a, bytes, w, a, <<>>)
    BY <1>1, <2>2, <2>5 DEF Extends
  <2> QED
    BY <2>1, <2>4, <2>6
<1>4. CASE UpTo(r, a) # {} /\ ~(End(r, p) < a)
  <2>1. p \in DOMAIN r /\ p <= a
    BY <1>1, <1>4, LastUpTo DEF Map
  <2>2. WriteRegion(r, a, bytes) = [r EXCEPT ![p] = SubSeq(@, 1, a - p) \o bytes]
    BY <1>4 DEF WriteRegion
  <2>3. ~(End(r, p) < a)
    BY <1>4
  <2> HIDE DEF p
  <2>4. End(r, p) <= a
    BY <1>1, <2>1, ClearOfAll
  <2>5. /\ p \in Nat /\ End(r, p) = p + Len(r[p]) /\ Len(r[p]) \in Nat
        /\ r[p] \in Seq(Nat) /\ p \in 0..U64 - 1
    BY <2>1, EndIsNat DEF Map, Regions
  <2>6. a - p = Len(r[p]) /\ p + Len(r[p]) = a
    <3>1. PICK n \in Nat : n = Len(r[p]) /\ End(r, p) = p + n
      BY <2>5
    <3>2. PICK e \in Nat : e = End(r, p)
      BY <2>5
    <3>3. p + n = a
      BY <1>1, <2>3, <2>4, <2>5, <3>1, <3>2
    <3> QED
      BY <1>1, <2>5, <3>1, <3>3
  <2>7. SubSeq(r[p], 1, a - p) = r[p]
    BY <2>5, <2>6
  <2>8. WriteRegion(r, a, bytes) = [x \in DOMAIN r |-> IF x = p THEN r[p] \o bytes ELSE r[x]]
    BY <2>1, <2>2, <2>7 DEF Map, Regions
  <2>9. DOMAIN r \cup {p} = DOMAIN r
    BY <2>1
  <2>10. \A x \in DOMAIN r : x <= a => x <= p
    BY <1>1, <1>4, LastUpTo DEF p, Map
  <2>11. Extends(r, a, bytes, WriteRegion(r, a, bytes), p, r[p])
    BY <2>1, <2>5, <2>6, <2>8, <2>9, <2>10 DEF Extends
  <2> QED
    BY <2>11
<1> QED
  BY <1>3, <1>4

(* It is a map of the same kind.                                             *)
LEMMA ExtendedIsMap ==
    ASSUME NEW r, Map(r), Apart(r), NEW a \in 0..U64 - 1, NEW bytes \in Seq(Nat),
           a + Len(bytes) < U64, ~Intersects(r, a, Len(bytes)), NEW w, NEW p, NEW old, Extends(r, a, bytes, w, p, old)
    PROVE  Map(w) /\ Apart(w) /\ DOMAIN w = DOMAIN r \cup {p} /\ (p \notin DOMAIN r => p = a)
<1>1. /\ DOMAIN w = DOMAIN r \cup {p} /\ w[p] = old \o bytes
      /\ \A x \in DOMAIN r \ {p} : w[x] = r[x]
  BY DEF Extends
<1>2. /\ p \in Nat /\ p <= a /\ a \in Nat /\ old \in Seq(Nat) /\ Len(old) \in Nat
      /\ p + Len(old) = a /\ Len(bytes) \in Nat
  BY Widths DEF Extends
<1>3. /\ w[p] \in Seq(Nat) /\ Len(w[p]) = Len(old) + Len(bytes)
      /\ End(w, p) = a + Len(bytes) /\ p + Len(w[p]) < U64
  <2>0. old \in Seq(Nat) /\ bytes \in Seq(Nat)
    BY <1>2
  <2>1. w[p] \in Seq(Nat) /\ Len(w[p]) = Len(old) + Len(bytes)
    BY <1>1, <2>0, Joined
  <2>2. PICK n \in Nat : n = Len(old)
    BY <1>2
  <2>3. PICK k \in Nat : k = Len(bytes)
    BY <1>2
  <2>4. p + (n + k) = a + k /\ a + k < U64 /\ Len(w[p]) = n + k
    <3>1. p \in Nat /\ a \in Nat /\ p + n = a
      BY <1>2, <2>2
    <3>2. p + (n + k) = a + k
      BY <3>1
    <3>3. a + k < U64
      BY <2>3
    <3> QED
      BY <2>1, <2>2, <2>3, <3>2, <3>3
  <2>5. End(w, p) = a + k
    <3>1. PICK m \in Nat : m = n + k
      BY <2>2
    <3>2. p + m = a + k /\ p + m < U64 /\ Len(w[p]) = m
      BY <2>4, <3>1
    <3>3. Plus(p, m) = p + m
      BY <1>2, <3>1, <3>2, PlusIsSum
    <3> QED
      BY <3>2, <3>3 DEF End
  <2> QED
    BY <2>1, <2>3, <2>4, <2>5
<1>4. Map(w)
  <2>1. w = [x \in DOMAIN w |-> w[x]]
    BY <1>1 DEF Extends
  <2>2. DOMAIN w \in SUBSET (0..U64 - 1)
    BY <1>1 DEF Extends, Map, Regions
  <2>3. \A x \in DOMAIN w : w[x] \in Seq(Nat) /\ x + Len(w[x]) < U64
    BY <1>1, <1>3 DEF Map, Regions
  <2> QED
    BY <2>1, <2>2, <2>3 DEF Map, Regions
<1>5. ASSUME NEW x \in DOMAIN w, NEW y \in DOMAIN w, x < y PROVE End(w, x) <= y
  <2>1. x \in Nat /\ y \in Nat
    BY <1>4, EndIsNat
  <2>2. \A z \in DOMAIN r \ {p} : End(w, z) = End(r, z) /\ End(r, z) \in Nat
    BY <1>1, EndIsNat DEF End
  <2>3. CASE x # p /\ y # p
    <3>1. x \in DOMAIN r /\ y \in DOMAIN r
      BY <1>1, <2>3
    <3> QED
      BY <1>5, <2>2, <2>3, <3>1 DEF Apart
  <2>4. CASE x # p /\ y = p
    <3>1. x \in DOMAIN r /\ End(r, x) \in Nat
      BY <1>1, <2>2, <2>4
    <3>2. CASE p \in DOMAIN r
      BY <1>5, <2>2, <2>4, <3>1, <3>2 DEF Apart
    <3>3. CASE p \notin DOMAIN r
      <4>1. p = a
        BY <1>2, <3>3 DEF Extends
      <4>2. x <= a
        BY <1>2, <1>5, <2>1, <2>4, <4>1
      <4>3. End(r, x) <= a
        BY <1>2, <3>1, <4>2, ClearOfAll
      <4> QED
        BY <2>2, <2>4, <3>1, <4>1, <4>3
    <3> QED
      BY <3>2, <3>3
  <2>5. CASE x = p /\ y # p
    <3>1. y \in DOMAIN r
      BY <1>1, <2>5
    <3>2. ~(y <= a)
      BY <1>2, <1>5, <2>1, <2>5, <3>1 DEF Extends
    <3>3. a + Len(bytes) <= y
      BY <1>2, <3>1, <3>2, ClearOfAll
    <3> QED
      BY <1>3, <2>5, <3>3
  <2> QED
    BY <1>5, <2>1, <2>3, <2>4, <2>5
<1>6. p \notin DOMAIN r => p = a
  BY <1>2 DEF Extends
<1> QED
  BY <1>1, <1>4, <1>5, <1>6 DEF Apart
-----------------------------------------------------------------------------
(* A cell of a region.                                                       *)
LEMMA InImage ==
    ASSUME NEW r, NEW c
    PROVE  c \in Image(r) <=> \E x \in DOMAIN r : \E i \in DOMAIN r[x] : c = <<x + i - 1, r[x][i]>>
BY DEF Image

(* Bytes as cells, and their addresses.                                      *)
CellsAt(a, bytes)  == {<<a + i - 1, bytes[i]>> : i \in DOMAIN bytes}
PlacesAt(a, bytes) == {a + i - 1 : i \in DOMAIN bytes}

(* A place, counted from the region and from the bytes.                       *)
LEMMA Shifted ==
    ASSUME NEW p \in Nat, NEW n \in Nat, NEW j \in Nat
    PROVE  p + (n + j) - 1 = (p + n) + j - 1
OBVIOUS

(* The cells are those that were there and those that were written.          *)
LEMMA ImageExtended ==
    ASSUME NEW r, Map(r), NEW a \in Nat, NEW bytes \in Seq(Nat), NEW w, NEW p, NEW old,
           Extends(r, a, bytes, w, p, old)
    PROVE  Image(w) = Image(r) \cup CellsAt(a, bytes)
<1> DEFINE new == {<<a + i - 1, bytes[i]>> : i \in DOMAIN bytes}
<1>1. /\ DOMAIN w = DOMAIN r \cup {p} /\ w[p] = old \o bytes
      /\ \A x \in DOMAIN r \ {p} : w[x] = r[x]
      /\ p \in Nat /\ old \in Seq(Nat) /\ p + Len(old) = a
      /\ p \in DOMAIN r => old = r[p]
      /\ p \notin DOMAIN r => old = <<>>
  BY Widths DEF Extends
<1>2. PICK n \in Nat : n = Len(old)
  BY <1>1
<1>3. PICK k \in Nat : k = Len(bytes)
  OBVIOUS
<1>4. /\ DOMAIN w[p] = 1..n + k /\ DOMAIN old = 1..n /\ DOMAIN bytes = 1..k
      /\ \A i \in 1..n : w[p][i] = old[i]
      /\ \A i \in 1..k : w[p][n + i] = bytes[i]
  <2>1. w[p] \in Seq(Nat) /\ Len(w[p]) = Len(old) + Len(bytes)
    BY <1>1, Joined
  <2>2. \A i \in 1..Len(old) : w[p][i] = old[i]
    BY <1>1, Joined
  <2>3. \A i \in 1..Len(bytes) : (old \o bytes)[Len(old) + i] = bytes[i]
    <3>1. old \in Seq(Nat)
      BY <1>1
    <3> QED
      BY <3>1, Joined
  <2>4. \A i \in 1..k : w[p][n + i] = bytes[i]
    BY <1>1, <1>2, <1>3, <2>3
  <2> QED
    BY <1>1, <1>2, <1>3, <2>1, <2>2, <2>4
<1>5. ASSUME NEW x \in DOMAIN w, NEW i \in DOMAIN w[x]
      PROVE  <<x + i - 1, w[x][i]>> \in Image(r) \cup new
  <2>1. CASE x # p
    BY <1>1, <2>1, InImage
  <2>2. CASE x = p /\ i \in 1..n
    <3>1. p \in DOMAIN r
      BY <1>1, <1>2, <2>2
    <3>2. w[x][i] = r[x][i] /\ i \in DOMAIN r[x]
      BY <1>1, <1>4, <2>2, <3>1
    <3> QED
      BY <2>2, <3>1, <3>2, InImage
  <2>3. CASE x = p /\ i \notin 1..n
    <3>1. i - n \in 1..k /\ x + i - 1 = a + (i - n) - 1 /\ n + (i - n) = i
      <4>1. i \in 1..n + k /\ i \notin 1..n /\ x \in Nat /\ x + n = a
        BY <1>1, <1>2, <1>4, <2>3
      <4> QED
        BY <4>1
    <3>2. w[x][i] = bytes[i - n]
      BY <1>4, <2>3, <3>1
    <3> QED
      BY <1>4, <3>1, <3>2
  <2> QED
    BY <2>1, <2>2, <2>3
<1>6. ASSUME NEW x \in DOMAIN r, NEW i \in DOMAIN r[x]
      PROVE  <<x + i - 1, r[x][i]>> \in Image(w)
  <2>1. CASE x # p
    BY <1>1, <2>1, InImage
  <2>2. CASE x = p
    <3>1. i \in DOMAIN w[x] /\ w[x][i] = r[x][i] /\ x \in DOMAIN w
      BY <1>1, <1>2, <1>4, <2>2
    <3> QED
      BY <3>1, InImage
  <2> QED
    BY <2>1, <2>2
<1>7. ASSUME NEW j \in DOMAIN bytes PROVE <<a + j - 1, bytes[j]>> \in Image(w)
  <2>1. /\ n + j \in DOMAIN w[p] /\ w[p][n + j] = bytes[j] /\ p + (n + j) - 1 = a + j - 1
    <3>1. j \in 1..k /\ p \in Nat /\ p + n = a
      BY <1>1, <1>2, <1>4
    <3>2. n + j \in 1..n + k
      BY <3>1
    <3>3. p + (n + j) - 1 = a + j - 1
      <4>1. j \in Nat
        BY <3>1
      <4>2. p + (n + j) - 1 = (p + n) + j - 1
        BY <3>1, <4>1, Shifted
      <4> QED
        BY <3>1, <4>2
    <3> QED
      BY <1>4, <3>1, <3>2, <3>3
  <2> QED
    BY <1>1, <2>1, InImage
<1>8. Image(w) \subseteq Image(r) \cup new
  <2>1. ASSUME NEW c \in Image(w) PROVE c \in Image(r) \cup new
    <3>1. PICK x \in DOMAIN w : \E i \in DOMAIN w[x] : c = <<x + i - 1, w[x][i]>>
      BY InImage
    <3> HIDE DEF new
    <3> QED
      BY <1>5, <3>1
  <2> QED
    BY <2>1
<1>9. Image(r) \subseteq Image(w)
  <2>1. ASSUME NEW c \in Image(r) PROVE c \in Image(w)
    <3>1. PICK x \in DOMAIN r : \E i \in DOMAIN r[x] : c = <<x + i - 1, r[x][i]>>
      BY InImage
    <3> QED
      BY <1>6, <3>1
  <2> QED
    BY <2>1
<1>10. new \subseteq Image(w)
  BY <1>7
<1>11. Image(w) = Image(r) \cup new
  BY <1>8, <1>9, <1>10
<1> QED
  BY <1>11 DEF CellsAt

(* write_region when nothing is in its way.                                  *)
LEMMA Written ==
    ASSUME NEW r, Map(r), Apart(r), NEW a \in 0..U64 - 1, NEW bytes \in Seq(Nat),
           a + Len(bytes) < U64, ~Intersects(r, a, Len(bytes)), NEW w, w = WriteRegion(r, a, bytes)
    PROVE  /\ Map(w) /\ Apart(w) /\ DOMAIN w \subseteq DOMAIN r \cup {a}
           /\ Image(w) = Image(r) \cup CellsAt(a, bytes)
<1>1. PICK p, old : Extends(r, a, bytes, w, p, old)
  BY WriteExtends
<1>2. Map(w) /\ Apart(w) /\ DOMAIN w = DOMAIN r \cup {p} /\ (p \notin DOMAIN r => p = a)
  <2>1. Map(w)
    BY <1>1, ExtendedIsMap
  <2>2. Apart(w)
    BY <1>1, ExtendedIsMap
  <2>3. DOMAIN w = DOMAIN r \cup {p}
    BY <1>1 DEF Extends
  <2>4. p \notin DOMAIN r => p = a
    BY <1>1, ExtendedIsMap
  <2> QED
    BY <2>1, <2>2, <2>3, <2>4
<1>3. Image(w) = Image(r) \cup CellsAt(a, bytes)
  <2>1. a \in Nat
    BY Widths
  <2> QED
    BY <1>1, <2>1, ImageExtended
<1>4. DOMAIN w \subseteq DOMAIN r \cup {a}
  BY <1>2
<1> QED
  BY <1>2, <1>3, <1>4

(* A remainder is not above what it is left of.                              *)
LEMMA RemainderIsLess ==
    ASSUME NEW x \in Nat, NEW m \in Nat, m > 0
    PROVE  x % m \in Nat /\ x % m <= x
<1>1. CASE x < m
  <2>1. x % m = x
    BY <1>1
  <2> QED
    BY <2>1
<1>2. CASE ~(x < m)
  <2>1. x % m \in Nat /\ x % m < m
    OBVIOUS
  <2> QED
    BY <1>2, <2>1
<1> QED
  BY <1>1, <1>2

(* What write_region leaves are regions, even where an address wraps.          *)
LEMMA WrittenAreRegions ==
    ASSUME NEW r, Regions(r), NEW a \in 0..U64 - 1, NEW bytes \in Seq(Nat),
           NEW w, w = WriteRegion(r, a, bytes)
    PROVE  Regions(w) /\ DOMAIN w \subseteq DOMAIN r \cup {a}
<1> DEFINE to   == Plus(a, Len(bytes))
           over == {x \in Beyond(r, a) : x < to}
           p    == Max(UpTo(r, a))
<1>1. U64 \in Nat /\ U64 > 0 /\ a \in Nat /\ Len(bytes) \in Nat
  BY Widths
<1>2. to \in Nat
  <2>1. a + Len(bytes) \in Nat
    BY <1>1
  <2> QED
    BY <1>1, <2>1, RemainderIsLess DEF Plus
<1>3. \A x \in DOMAIN r : x \in Nat /\ r[x] \in Seq(Nat) /\ End(r, x) \in Nat /\ End(r, x) <= x + Len(r[x])
  <2>1. ASSUME NEW x \in DOMAIN r
        PROVE  x \in Nat /\ r[x] \in Seq(Nat) /\ End(r, x) \in Nat /\ End(r, x) <= x + Len(r[x])
    <3>1. x \in Nat /\ r[x] \in Seq(Nat)
      BY DEF Regions
    <3>2. PICK s \in Nat : s = x + Len(r[x])
      BY <3>1
    <3> QED
      BY <1>1, <3>1, <3>2, RemainderIsLess DEF End, Plus
  <2> QED
    BY <2>1
<1> HIDE DEF to
<1>4. CASE UpTo(r, a) = {} \/ End(r, p) < a
  <2> DEFINE x    == Max(over)
             tail == IF over # {} /\ End(r, x) > to
                     THEN SubSeq(r[x], to - x + 1, Len(r[x])) ELSE <<>>
  <2>1. w = [y \in (DOMAIN r \cup {a}) \ over |-> IF y = a THEN bytes \o tail ELSE r[y]]
    BY <1>4 DEF WriteRegion, Swallow, to
  <2>2. over # {} => x \in DOMAIN r /\ x < to
    <3>1. over \in SUBSET Nat /\ over \subseteq DOMAIN r /\ \A y \in over : y <= to /\ y < to
      BY <1>2, <1>3 DEF Beyond
    <3> HIDE DEF over
    <3> QED
      BY <1>2, <3>1, MaxIsGreatest
  <2>3. tail \in Seq(Nat)
    <3>1. CASE over # {} /\ End(r, x) > to
      <4>1. PICK m \in DOMAIN r : m = x /\ m < to /\ m \in Nat /\ to < m + Len(r[m]) /\ r[m] \in Seq(Nat)
        <5>1. x \in DOMAIN r /\ x < to
          BY <2>2, <3>1
        <5>2. PICK m \in DOMAIN r : m = x
          BY <5>1
        <5>3. m < to /\ m \in Nat /\ r[m] \in Seq(Nat) /\ End(r, m) <= m + Len(r[m]) /\ End(r, m) > to
          BY <1>3, <3>1, <5>1, <5>2
        <5>4. End(r, m) \in Nat /\ Len(r[m]) \in Nat
          BY <1>3, <5>3
        <5>5. to < m + Len(r[m])
          BY <1>2, <5>3, <5>4
        <5> QED
          BY <5>2, <5>3, <5>5
      <4>2. SubSeq(r[m], to - m + 1, Len(r[m])) \in Seq(Nat)
        <5>1. PICK d \in Nat : d = to - m + 1 /\ 1 <= d
          <6>1. to \in Nat /\ m \in Nat /\ m < to
            BY <1>2, <4>1
          <6>2. to - m + 1 \in Nat /\ 1 <= to - m + 1
            BY <6>1
          <6> QED
            BY <6>2
        <5>2. PICK s \in Seq(Nat) : s = r[m]
          BY <4>1
        <5>3. SubSeq(s, d, Len(s)) \in Seq(Nat)
          BY <5>1, <5>2
        <5> QED
          BY <5>1, <5>2, <5>3
      <4>3. tail = SubSeq(r[m], to - m + 1, Len(r[m]))
        BY <3>1, <4>1
      <4> QED
        BY <4>2, <4>3
    <3>2. CASE ~(over # {} /\ End(r, x) > to)
      <4>1. tail = <<>>
        BY <3>2
      <4> HIDE DEF tail
      <4> QED
        BY <4>1
    <3> QED
      BY <3>1, <3>2
  <2> HIDE DEF tail, over
  <2>4. bytes \o tail \in Seq(Nat)
    BY <2>3, Joined
  <2>5. DOMAIN w = (DOMAIN r \cup {a}) \ over /\ w = [y \in DOMAIN w |-> w[y]]
    BY <2>1
  <2>6. \A y \in DOMAIN w : w[y] \in Seq(Nat)
    BY <1>3, <2>1, <2>4
  <2>7. DOMAIN r \in SUBSET (0..U64 - 1)
    BY DEF Regions
  <2> QED
    BY <2>5, <2>6, <2>7 DEF Regions
<1>5. CASE UpTo(r, a) # {} /\ ~(End(r, p) < a)
  <2>1. p \in DOMAIN r /\ p <= a
    BY <1>1, <1>5, LastUpTo
  <2>2. w = [r EXCEPT ![p] = SubSeq(@, 1, a - p) \o bytes]
    BY <1>5 DEF WriteRegion
  <2>3. ~(End(r, p) < a)
    BY <1>5
  <2> HIDE DEF p
  <2>4. PICK s \in Seq(Nat) : s = r[p]
    BY <1>3, <2>1
  <2>5. PICK d \in Nat : d = a - p /\ d <= Len(s)
    <3>1. p \in Nat /\ End(r, p) \in Nat /\ End(r, p) <= p + Len(s) /\ Len(s) \in Nat
      BY <1>3, <2>1, <2>4
    <3> QED
      BY <1>1, <2>1, <2>3, <3>1
  <2>6. SubSeq(s, 1, d) \in Seq(Nat)
    BY <2>5
  <2>7. SubSeq(s, 1, d) \o bytes \in Seq(Nat)
    BY <2>6, Joined
  <2>8. w = [y \in DOMAIN r |-> IF y = p THEN SubSeq(s, 1, d) \o bytes ELSE r[y]]
    BY <2>1, <2>2, <2>4, <2>5 DEF Regions
  <2>9. DOMAIN w = DOMAIN r /\ w = [y \in DOMAIN w |-> w[y]]
    BY <2>8
  <2>10. \A y \in DOMAIN w : w[y] \in Seq(Nat)
    BY <1>3, <2>7, <2>8
  <2> QED
    BY <2>9, <2>10 DEF Regions
<1> QED
  BY <1>4, <1>5

(* The greatest region ends last.                                            *)
LEMMA TopIsLast ==
    ASSUME NEW r, Map(r), Apart(r)
    PROVE  /\ TopAddress(r) \in Nat /\ TopAddress(r) < U64
           /\ \A x \in DOMAIN r : End(r, x) <= TopAddress(r)
<1>1. CASE DOMAIN r = {}
  BY <1>1, Widths DEF TopAddress
<1>2. CASE DOMAIN r # {}
  <2> DEFINE m == Max(DOMAIN r)
  <2>1. m \in DOMAIN r /\ \A x \in DOMAIN r : m >= x
    <3>1. DOMAIN r \in SUBSET Nat /\ U64 \in Nat /\ \A x \in DOMAIN r : x <= U64
      BY Widths DEF Map, Regions
    <3>2. PICK D \in SUBSET Nat, u \in Nat : D = DOMAIN r /\ D # {} /\ \A x \in D : x <= u
      BY <1>2, <3>1
    <3> QED
      BY <3>2, MaxIsGreatest
  <2>2. TopAddress(r) = End(r, m)
    BY <1>2 DEF TopAddress
  <2> HIDE DEF m
  <2>3. m \in Nat /\ End(r, m) \in Nat /\ m <= End(r, m) /\ End(r, m) < U64
    BY <2>1, EndIsNat
  <2>4. ASSUME NEW x \in DOMAIN r PROVE End(r, x) <= End(r, m)
    <3>1. x \in Nat /\ End(r, x) \in Nat
      BY EndIsNat
    <3>2. x = m \/ End(r, x) <= m
      BY <2>1, <2>3, <3>1 DEF Apart
    <3> QED
      BY <2>3, <3>1, <3>2
  <2> QED
    BY <2>2, <2>3, <2>4
<1> QED
  BY <1>1, <1>2

(* read_region finds the region of a byte.                                   *)
LEMMA ReadsBack ==
    ASSUME NEW r, Map(r), Apart(r)
    PROVE  LET all == ReadRegion(r, 0, TopAddress(r), -1)
           IN  Image(r) = {<<i - 1, all[i]>> : i \in {k \in DOMAIN all : all[k] # -1}}
<1> DEFINE top   == TopAddress(r)
           first == IF UpTo(r, 0) = {} THEN {} ELSE {Max(UpTo(r, 0))}
           from  == {x \in first \cup Beyond(r, 0) : x < Plus(0, top)}
           at(i) == {x \in from : x < 0 + i /\ 0 + i <= Plus(0, top) /\ 0 + i <= End(r, x)}
           all   == ReadRegion(r, 0, top, -1)
           back  == {<<i - 1, all[i]>> : i \in {k \in DOMAIN all : all[k] # -1}}
<1>1. top \in Nat /\ Plus(0, top) = top /\ \A x \in DOMAIN r : End(r, x) <= top
  BY TopIsLast, PlusIsSum
<1>2. all = [i \in 1..top |-> IF at(i) = {} THEN -1 ELSE r[Max(at(i))][0 + i - Max(at(i))]]
  BY DEF ReadRegion
<1>3. from \subseteq DOMAIN r
  <2>1. UpTo(r, 0) # {} => Max(UpTo(r, 0)) \in DOMAIN r
    BY LastUpTo DEF Map
  <2> QED
    BY <2>1 DEF Beyond
<1>4. ASSUME NEW x \in DOMAIN r, x < top PROVE x \in from
  <2>1. x \in Nat
    BY EndIsNat
  <2>2. CASE x = 0
    <3>1. UpTo(r, 0) # {}
      BY <2>2 DEF UpTo
    <3>2. Max(UpTo(r, 0)) <= 0 /\ Max(UpTo(r, 0)) \in DOMAIN r
      BY <3>1, LastUpTo DEF Map
    <3>3. Max(UpTo(r, 0)) \in Nat
      BY <3>2, EndIsNat
    <3>4. Max(UpTo(r, 0)) = x
      BY <2>2, <3>2, <3>3
    <3>5. x \in first /\ x < Plus(0, top)
      BY <1>1, <1>4, <3>1, <3>4
    <3> QED
      BY <3>5
  <2>3. CASE x # 0
    <3>1. x \in Beyond(r, 0)
      BY <2>1, <2>3 DEF Beyond
    <3>2. x < Plus(0, top)
      BY <1>1, <1>4
    <3> QED
      BY <3>1, <3>2
  <2> QED
    BY <2>2, <2>3
<1> HIDE DEF from, top, all
<1>5. ASSUME NEW i \in 1..top, NEW x \in at(i)
      PROVE  Max(at(i)) = x /\ i - x \in DOMAIN r[x]
  <2>1. x \in DOMAIN r /\ x < i /\ i <= End(r, x)
    BY <1>1, <1>3
  <2>2. x \in Nat /\ End(r, x) = x + Len(r[x]) /\ Len(r[x]) \in Nat /\ DOMAIN r[x] = 1..Len(r[x])
    BY <2>1, EndIsNat
  <2>3. PICK n \in Nat : n = Len(r[x]) /\ End(r, x) = x + n
    BY <2>2
  <2>4. i - x \in DOMAIN r[x]
    BY <1>1, <2>1, <2>2, <2>3
  <2>5. ASSUME NEW y \in at(i) PROVE y = x
    <3>1. y \in DOMAIN r /\ y < i /\ i <= End(r, y)
      BY <1>1, <1>3
    <3>2. y \in Nat /\ End(r, y) \in Nat
      BY <3>1, EndIsNat
    <3>3. ~(y < x)
      BY <1>1, <2>1, <2>2, <3>1, <3>2 DEF Apart
    <3>4. ~(x < y)
      BY <1>1, <2>1, <2>2, <2>3, <3>1, <3>2 DEF Apart
    <3> QED
      BY <2>2, <3>2, <3>3, <3>4
  <2>6. at(i) = {x}
    BY <2>5
  <2>7. Max({x}) = x
    BY <2>2 DEF Max
  <2> QED
    BY <2>4, <2>6, <2>7
<1>6. Image(r) \subseteq back
  <2>1. ASSUME NEW x \in DOMAIN r, NEW i \in DOMAIN r[x] PROVE <<x + i - 1, r[x][i]>> \in back
    <3>1. x \in Nat /\ i \in Nat /\ i >= 1 /\ r[x][i] \in Nat /\ x + i <= End(r, x) /\ End(r, x) <= top
      <4>1. PICK n \in Nat : n = Len(r[x]) /\ End(r, x) = x + n /\ DOMAIN r[x] = 1..n /\ x \in Nat
        BY EndIsNat
      <4>2. r[x] \in Seq(Nat)
        BY DEF Map, Regions
      <4>3. r[x][i] \in Nat
        BY <4>2
      <4> QED
        BY <1>1, <4>1, <4>3
    <3>2. x + i \in 1..top /\ x < top
      <4>1. End(r, x) \in Nat
        BY EndIsNat
      <4> QED
        BY <1>1, <3>1, <4>1
    <3>3. x \in at(x + i)
      <4>1. x \in from
        BY <1>4, <3>2
      <4>2. 0 + (x + i) = x + i /\ x < 0 + (x + i) /\ x + i <= top
        BY <3>1, <3>2
      <4>3. 0 + (x + i) <= Plus(0, top)
        BY <1>1, <4>2
      <4> QED
        BY <3>1, <4>1, <4>2, <4>3
    <3>4. Max(at(x + i)) = x
      BY <1>5, <3>2, <3>3
    <3>5. all[x + i] = r[x][i]
      <4>1. at(x + i) # {} /\ 0 + (x + i) - x = i
        BY <3>1, <3>3
      <4> HIDE DEF at
      <4>2. all[x + i] = r[Max(at(x + i))][0 + (x + i) - Max(at(x + i))]
        BY <1>2, <3>2, <4>1
      <4> QED
        BY <3>4, <4>1, <4>2
    <3>6. x + i \in DOMAIN all /\ all[x + i] # -1
      <4>1. DOMAIN all = 1..top
        BY <1>2
      <4>2. r[x][i] # -1
        BY <3>1
      <4> QED
        BY <3>2, <3>5, <4>1, <4>2
    <3>7. <<(x + i) - 1, all[x + i]>> \in back
      BY <3>6
    <3>8. (x + i) - 1 = x + i - 1
      BY <3>1
    <3> QED
      BY <3>5, <3>7, <3>8
  <2> HIDE DEF back
  <2>2. ASSUME NEW c \in Image(r) PROVE c \in back
    BY <2>1, InImage
  <2> QED
    BY <2>2
<1>7. back \subseteq Image(r)
  <2>1. ASSUME NEW i \in DOMAIN all, all[i] # -1 PROVE <<i - 1, all[i]>> \in Image(r)
    <3>1. i \in 1..top
      BY <1>2
    <3>2. at(i) # {}
      BY <1>2, <2>1, <3>1
    <3>3. PICK x \in at(i) : TRUE
      BY <3>2
    <3>4. Max(at(i)) = x /\ i - x \in DOMAIN r[x] /\ x \in DOMAIN r
      BY <1>3, <1>5, <3>1, <3>3
    <3>5. x \in Nat
      BY <3>4, EndIsNat
    <3>6. all[i] = r[x][i - x]
      <4>1. 0 + i - x = i - x
        BY <3>1, <3>5
      <4> HIDE DEF at
      <4>2. all[i] = r[Max(at(i))][0 + i - Max(at(i))]
        BY <1>2, <3>1, <3>2
      <4> QED
        BY <3>4, <4>1, <4>2
    <3>7. x + (i - x) - 1 = i - 1
      BY <3>1, <3>5
    <3> QED
      BY <3>4, <3>6, <3>7, InImage
  <2> QED
    BY <2>1
<1> QED
  BY <1>6, <1>7 DEF all, top
-----------------------------------------------------------------------------
(* Numbers that are n apart from the middle of the address space, where an     *)
(* int changes its sign.                                                     *)
Reaches(b, n) == b \in Nat /\ (b + n <= Half \/ (U64 - Half <= b /\ b + n <= U64))

(* The buffer and what has been read.                                        *)
HexOK ==
    /\ hex = [base |-> hex.base, regions |-> hex.regions, status |-> hex.status]
    /\ lines \in Seq(Lines)
    /\ Regions(hex.regions)
    /\ \A x \in DOMAIN hex.regions : Reaches(x, 1)
    /\ Reaches(hex.base, U16)
    /\ hex.status = "reading" => /\ Base(Len(lines)) \in Nat
                                 /\ hex.base = Extend(Base(Len(lines)))

Fits == Map(hex.regions) /\ Apart(hex.regions)

(* The buffer is the bytes of the records, and each region begins with one.    *)
Stored ==
    /\ \A i \in Taken : Base(i) \in Nat
    /\ Image(hex.regions) = UNION {Cells(i) : i \in Taken}
    /\ \A x \in DOMAIN hex.regions : \E i \in Taken : x \in Place(i)
    /\ \A i, j \in Taken : i # j => At(Cells(i)) \cap At(Cells(j)) = {}

Refusal ==
    hex.status = "overlapping_regions" =>
        \E i \in Taken : Place(i) \cap Place(Len(lines)) # {}

HexRead ==
    /\ hex.status = "reading" => hex.base = Base(Len(lines)) /\ hex.base + U16 <= Half
    /\ Stored
    /\ Refusal

HexInv ==
    /\ HexOK
    /\ ~Wraps \/ ~Signed => Fits
    /\ ~Signed => HexRead
-----------------------------------------------------------------------------
(* One more of a factor.                                                     *)
LEMMA OneMore ==
    ASSUME NEW a \in Nat, NEW b \in Nat, NEW c \in Nat, a < b
    PROVE  a * c + c <= b * c
<1>1. PICK d \in Nat : b = a + 1 + d
  <2>1. b - a - 1 \in Nat /\ b = a + 1 + (b - a - 1)
    OBVIOUS
  <2> QED
    BY <2>1
<1>2. (a + 1 + d) * c = a * c + c + d * c
  OBVIOUS
<1>3. a * c \in Nat /\ d * c \in Nat
  OBVIOUS
<1> QED
  BY <1>1, <1>2, <1>3

(* And one less.                                                             *)
LEMMA OneLess ==
    ASSUME NEW a \in Nat, NEW b \in Nat, NEW c \in Nat, a * c < b * c
    PROVE  a < b
<1>1. SUFFICES ASSUME ~(a < b) PROVE FALSE
  OBVIOUS
<1>2. PICK d \in Nat : a = b + d
  <2>1. a - b \in Nat /\ a = b + (a - b)
    BY <1>1
  <2> QED
    BY <2>1
<1>3. (b + d) * c = b * c + d * c
  OBVIOUS
<1>4. b * c \in Nat /\ d * c \in Nat
  OBVIOUS
<1> QED
  BY <1>2, <1>3, <1>4

(* The middle of the 32-bit addresses is between two pages.                    *)
LEMMA MiddleIsPage ==
    \E h \in Nat : U16 = 2 * h /\ h >= Byte /\ Half = h * U16
<1>1. /\ Nibble \in Nat /\ Byte \in Nat /\ U16 \in Nat /\ U32 \in Nat /\ Half \in Nat
      /\ U32 = 2 * Half /\ U16 >= 2 * Byte
  BY Widths
<1>2. PICK n \in Nat : Nibble = 2 * n
  <2>1. Nibble \div 2 \in Nat /\ Nibble = 2 * (Nibble \div 2)
    BY NibbleAssumption
  <2> QED
    BY <2>1
<1>3. PICK k \in Nat : k = n * Nibble
  BY <1>1
<1>4. Byte = 2 * k
  <2>1. (2 * n) * Nibble = 2 * (n * Nibble)
    BY <1>1, Doubled
  <2>2. Byte = (2 * n) * Nibble
    BY <1>2 DEF Byte
  <2> QED
    BY <1>3, <2>1, <2>2
<1>5. PICK h \in Nat : h = k * Byte
  BY <1>1
<1>6. U16 = 2 * h
  <2>1. (2 * k) * Byte = 2 * (k * Byte)
    BY <1>1, Doubled
  <2>2. U16 = (2 * k) * Byte
    BY <1>4 DEF U16
  <2> QED
    BY <1>5, <2>1, <2>2
<1>7. U32 = 2 * (h * U16) /\ h * U16 \in Nat
  <2>1. (2 * h) * U16 = 2 * (h * U16) /\ h * U16 \in Nat
    BY <1>1, Doubled
  <2>2. U32 = (2 * h) * U16
    BY <1>6 DEF U32
  <2> QED
    BY <2>1, <2>2
<1>8. Half = h * U16
  <2>1. PICK m \in Nat : m = h * U16
    BY <1>7
  <2> QED
    BY <1>1, <1>7, <2>1
<1> QED
  BY <1>1, <1>6, <1>8

(* The upper bytes are less than a page has bytes.                            *)
LEMMA UpperIsNat ==
    ASSUME NEW l \in Lines, l.form = "record", l.type \in {2, 4}, Len(l.data) = 2
    PROVE  Upper(l) \in Nat /\ Upper(l) < U16
<1>1. l.data \in Seq(Nat) /\ l.data[1] < Byte /\ l.data[2] < Byte
  BY LinesAssumption
<1>2. PICK x \in Nat : x = l.data[1]
  BY <1>1
<1>3. PICK y \in Nat : y = l.data[2]
  BY <1>1
<1>4. PICK b \in Nat : b = Byte
  BY Widths
<1>5. x < b /\ y < b
  BY <1>1, <1>2, <1>3, <1>4
<1>6. x * b + b <= b * b /\ x * b \in Nat
  BY <1>5, OneMore, ProductIsNat
<1>7. x * b + y \in Nat /\ x * b + y < b * b
  <2>1. PICK p \in Nat : p = x * b
    BY <1>6
  <2>2. PICK q \in Nat : q = b * b
    OBVIOUS
  <2> QED
    BY <1>5, <1>6, <2>1, <2>2
<1>8. Upper(l) = x * b + y /\ U16 = b * b
  BY <1>2, <1>3, <1>4 DEF Upper, U16
<1> QED
  BY <1>7, <1>8

(* A base, as an int, is well below the middle or in the last part.           *)
LEMMA BaseReaches ==
    ASSUME NEW u \in Nat, u < U16
    PROVE  /\ u * Nibble \in Nat /\ u * U16 \in Nat
           /\ Reaches(u * Nibble, U16) /\ Reaches(Extend(u * U16), U16)
           /\ Extend(u * Nibble) = u * Nibble /\ u * Nibble + U16 <= Half
           /\ u * U16 < Half => Extend(u * U16) = u * U16 /\ u * U16 + U16 <= Half
<1>1. /\ Nibble \in Nat /\ Byte \in Nat /\ U16 \in Nat /\ U32 \in Nat /\ U64 \in Nat
      /\ Byte >= 2 * Nibble /\ Half \in Nat /\ U32 = 2 * Half /\ U64 >= 2 * U32 /\ Nibble >= 2
      /\ U32 \div 2 = Half
  BY Widths DEF Half
<1>2. PICK h \in Nat : U16 = 2 * h /\ h >= Byte /\ Half = h * U16
  BY MiddleIsPage
<1>3. u * Nibble \in Nat /\ u * U16 \in Nat
  BY <1>1
<1>4. u * Nibble + U16 <= Half
  <2>1. u * Nibble + Nibble <= U16 * Nibble /\ U16 * Nibble \in Nat
    BY <1>1, OneMore
  <2>2. Nibble * U16 + U16 <= h * U16
    BY <1>1, <1>2, OneMore
  <2>3. Nibble * U16 = U16 * Nibble
    BY <1>1
  <2>4. PICK p \in Nat : p = U16 * Nibble
    BY <2>1
  <2> QED
    BY <1>1, <1>2, <1>3, <2>1, <2>2, <2>3, <2>4
<1>a. Extend(u * Nibble) = u * Nibble
  <2>1. PICK p \in Nat : p = u * Nibble
    BY <1>3
  <2> QED
    BY <1>1, <1>2, <1>4, <2>1 DEF Extend
<1>5. CASE u * U16 < Half
  <2>1. Extend(u * U16) = u * U16
    BY <1>1, <1>5 DEF Extend
  <2>2. u < h
    BY <1>1, <1>2, <1>5, OneLess
  <2>3. u * U16 + U16 <= h * U16
    BY <1>1, <1>2, <2>2, OneMore
  <2> QED
    BY <1>1, <1>2, <1>3, <1>4, <1>a, <2>1, <2>3 DEF Reaches
<1>6. CASE ~(u * U16 < Half)
  <2>1. Extend(u * U16) = u * U16 + U64 - U32
    BY <1>1, <1>6 DEF Extend
  <2>2. u * U16 + U16 <= U32
    BY <1>1, OneMore DEF U32
  <2>3. PICK p \in Nat : p = u * U16
    BY <1>3
  <2>4. Reaches(p + U64 - U32, U16)
    <3>1. p + U16 <= U32 /\ ~(p < Half)
      BY <1>6, <2>2, <2>3
    <3>2. p + U64 - U32 \in Nat /\ U64 - Half <= p + U64 - U32 /\ p + U64 - U32 + U16 <= U64
      BY <1>1, <3>1
    <3> QED
      BY <3>2 DEF Reaches
  <2> QED
    BY <1>3, <1>4, <1>6, <1>a, <2>1, <2>3, <2>4 DEF Reaches
<1> QED
  BY <1>5, <1>6

(* A line is read.                                                           *)
LEMMA LineRead ==
    ASSUME lines \in Seq(Lines), NEW l \in Lines, lines' = Append(lines, l)
    PROVE  /\ lines' \in Seq(Lines) /\ Len(lines) \in Nat /\ Len(lines') = Len(lines) + 1
           /\ DOMAIN lines = 1..Len(lines) /\ DOMAIN lines' = 1..Len(lines) + 1
           /\ lines'[Len(lines) + 1] = l
           /\ \A i \in 1..Len(lines) : lines'[i] = lines[i]
OBVIOUS

(* It changes nothing of the records before it.                              *)
LEMMA RecordsKept ==
    ASSUME lines \in Seq(Lines), NEW l \in Lines, lines' = Append(lines, l)
    PROVE  /\ Len(lines) \in Nat
           /\ \A i \in 1..Len(lines) :
                  Base(i)' = Base(i) /\ Cells(i)' = Cells(i) /\ Place(i)' = Place(i)
<1>1. /\ Len(lines) \in Nat /\ Len(lines') = Len(lines) + 1
      /\ \A i \in 1..Len(lines) : lines'[i] = lines[i]
  BY LineRead
<1>2. ASSUME NEW i \in 1..Len(lines) PROVE Base(i)' = Base(i)
  <2> DEFINE bases == {j \in 1..i : Record(j, {2, 4})}
  <2>1. (bases)' = bases
    <3>1. ASSUME NEW j \in 1..i PROVE Record(j, {2, 4})' <=> Record(j, {2, 4})
      <4>1. j \in 1..Len(lines)
        BY <1>1
      <4> QED
        BY <1>1, <4>1 DEF Record
    <3> QED
      BY <3>1
  <2>2. CASE bases = {}
    BY <2>1, <2>2 DEF Base
  <2>3. CASE bases # {}
    <3>1. Max(bases) \in bases
      <4>1. bases \in SUBSET Nat /\ i \in Nat /\ \A j \in bases : j <= i
        BY <1>1
      <4> HIDE DEF bases
      <4> QED
        BY <2>3, <4>1, MaxIsGreatest
    <3>2. Max(bases) \in 1..Len(lines)
      BY <1>1, <3>1
    <3>3. (lines[Max(bases)])' = lines[Max(bases)]
      BY <1>1, <2>1, <3>2
    <3> QED
      BY <2>1, <3>3 DEF Base, Upper
  <2> QED
    BY <2>2, <2>3
<1>3. ASSUME NEW i \in 1..Len(lines) PROVE Cells(i)' = Cells(i)
  BY <1>1, <1>2 DEF Cells
<1>4. ASSUME NEW i \in 1..Len(lines) PROVE Place(i)' = Place(i)
  BY <1>1, <1>2, <1>3 DEF Place, At
<1> QED
  BY <1>1, <1>2, <1>3, <1>4

(* The base that follows from a line.                                        *)
IsBase(l) == l.form = "record" /\ l.type \in {2, 4} /\ l.length = Len(l.data)

(* A line's base is the one before it, or the one that it sets.              *)
LEMMA BaseNext ==
    ASSUME lines \in Seq(Lines), NEW l \in Lines, lines' = Append(lines, l),
           NEW n \in Nat, n = Len(lines)
    PROVE  /\ ~IsBase(l) => Base(n + 1)' = Base(n)
           /\ IsBase(l) => Base(n + 1)' = Upper(l) * (IF l.type = 4 THEN U16 ELSE Nibble)
<1> DEFINE before == {j \in 1..n : Record(j, {2, 4})}
<1>1. /\ n \in Nat /\ Len(lines') = n + 1 /\ lines'[n + 1] = l
      /\ \A i \in 1..n : lines'[i] = lines[i]
  BY LineRead
<1>2. ASSUME NEW j \in 1..n PROVE Record(j, {2, 4})' <=> Record(j, {2, 4})
  BY <1>1 DEF Record
<1>3. Record(n + 1, {2, 4})' <=> IsBase(l)
  BY <1>1 DEF Record, IsBase
<1> DEFINE after == {j \in 1..n + 1 : Record(j, {2, 4})'}
<1>4. Base(n + 1)' = IF after = {} THEN 0
                           ELSE Upper(lines'[Max(after)])
                                * (IF lines'[Max(after)].type = 4 THEN U16 ELSE Nibble)
  BY DEF Base, Upper
<1>5. Base(n) = IF before = {} THEN 0
                         ELSE Upper(lines[Max(before)])
                              * (IF lines[Max(before)].type = 4 THEN U16 ELSE Nibble)
  BY DEF Base
<1>6. CASE ~IsBase(l)
  <2>1. after = before
    <3>1. ASSUME NEW j \in 1..n + 1 PROVE j \in after <=> j \in before
      <4>1. CASE j \in 1..n
        BY <1>2, <4>1
      <4>2. CASE j = n + 1
        BY <1>1, <1>3, <1>6, <4>2
      <4> QED
        BY <1>1, <4>1, <4>2
    <3>2. after \subseteq 1..n + 1 /\ before \subseteq 1..n + 1
      BY <1>1
    <3> HIDE DEF after, before
    <3> QED
      BY <3>1, <3>2
  <2>2. before # {} => Max(before) \in 1..n
    <3>1. before \in SUBSET Nat /\ before \in SUBSET (1..n) /\ \A j \in before : j <= n
      BY <1>1
    <3> HIDE DEF before
    <3>2. before # {} => Max(before) \in before
      BY <1>1, <3>1, MaxIsGreatest
    <3> QED
      BY <3>1, <3>2
  <2> HIDE DEF before, after
  <2> QED
    BY <1>1, <1>4, <1>5, <1>6, <2>1, <2>2
<1>7. CASE IsBase(l)
  <2>1. n + 1 \in after /\ after \in SUBSET Nat /\ \A j \in after : j <= n + 1
    BY <1>1, <1>3, <1>7
  <2> HIDE DEF after
  <2>2. Max(after) = n + 1
    <3>1. Max(after) \in after /\ Max(after) >= n + 1
      BY <1>1, <2>1, MaxIsGreatest
    <3>2. PICK m \in Nat : m = Max(after)
      BY <2>1, <3>1
    <3> QED
      BY <1>1, <2>1, <3>1, <3>2
  <2>3. Base(n + 1)' = Upper(l) * (IF l.type = 4 THEN U16 ELSE Nibble)
    BY <1>1, <1>4, <2>1, <2>2
  <2> QED
    BY <1>7, <2>3
<1> QED
  BY <1>6, <1>7

(* The records with data, and what of them is in the buffer.                  *)
IsData(l) == l.form = "record" /\ l.type \in {0} /\ l.length = Len(l.data)

(* A line is one more record with data, or none.                             *)
LEMMA DataNext ==
    ASSUME lines \in Seq(Lines), NEW l \in Lines, lines' = Append(lines, l)
    PROVE  /\ Data \in SUBSET (1..Len(lines))
           /\ Data' = Data \cup (IF IsData(l) THEN {Len(lines) + 1} ELSE {})
           /\ Len(lines') = Len(lines) + 1
<1>1. /\ Len(lines) \in Nat /\ Len(lines') = Len(lines) + 1 /\ lines'[Len(lines) + 1] = l
      /\ DOMAIN lines = 1..Len(lines) /\ DOMAIN lines' = 1..Len(lines) + 1
      /\ \A i \in 1..Len(lines) : lines'[i] = lines[i]
  BY LineRead
<1>2. \A i \in 1..Len(lines) : i \in Data' <=> i \in Data
  BY <1>1 DEF Data, Record
<1>3. Len(lines) + 1 \in Data' <=> IsData(l)
  BY <1>1 DEF Data, Record, IsData
<1>4. Data \in SUBSET (1..Len(lines)) /\ Data' \in SUBSET (1..Len(lines) + 1)
  BY <1>1 DEF Data
<1>5. \A i \in Data' : i \in 1..Len(lines) \/ i = Len(lines) + 1
  BY <1>1, <1>4
<1>6. Data \subseteq Data'
  BY <1>2, <1>4
<1> QED
  BY <1>1, <1>2, <1>3, <1>4, <1>5, <1>6

(* What is signed stays so.                                                  *)
LEMMA SignedKept ==
    ASSUME lines \in Seq(Lines), NEW l \in Lines, lines' = Append(lines, l)
    PROVE  Signed => Signed'
<1>1. /\ Len(lines) \in Nat /\ DOMAIN lines = 1..Len(lines) /\ DOMAIN lines' = 1..Len(lines) + 1
      /\ \A i \in 1..Len(lines) : lines'[i] = lines[i]
  BY LineRead
<1>2. ASSUME NEW i \in DOMAIN lines PROVE i \in DOMAIN lines' /\ lines'[i] = lines[i]
  BY <1>1
<1> QED
  BY <1>2 DEF Signed, Record, Upper

(* What reaches the end of the addresses stays there.                        *)
LEMMA WrapsKept ==
    ASSUME lines \in Seq(Lines), NEW l \in Lines, lines' = Append(lines, l)
    PROVE  Wraps => Wraps'
<1>1. /\ Len(lines) \in Nat /\ DOMAIN lines = 1..Len(lines) /\ DOMAIN lines' = 1..Len(lines) + 1
      /\ \A i \in 1..Len(lines) : lines'[i] = lines[i]
  BY LineRead
<1>2. ASSUME NEW i \in DOMAIN lines
      PROVE  i \in DOMAIN lines' /\ lines'[i] = lines[i] /\ Base(i)' = Base(i)
  BY <1>1, RecordsKept
<1> QED
  BY <1>2 DEF Wraps, Record

(* A line that leaves the buffer and what is taken of the records.            *)
LEMMA StoredKept ==
    ASSUME lines \in Seq(Lines), NEW l \in Lines, lines' = Append(lines, l),
           Taken \in SUBSET (1..Len(lines)), Taken' = Taken, hex'.regions = hex.regions, Stored
    PROVE  Stored'
<1>1. \A i \in Taken : Base(i)' = Base(i) /\ Cells(i)' = Cells(i) /\ Place(i)' = Place(i)
  BY RecordsKept
<1>2. (\A i \in Taken : Base(i) \in Nat)'
  BY <1>1 DEF Stored
<1>3. (Image(hex.regions) = UNION {Cells(i) : i \in Taken})'
  BY <1>1 DEF Stored
<1>4. (\A x \in DOMAIN hex.regions : \E i \in Taken : x \in Place(i))'
  BY <1>1 DEF Stored
<1>5. (\A i, j \in Taken : i # j => At(Cells(i)) \cap At(Cells(j)) = {})'
  BY <1>1 DEF Stored
<1> QED
  BY <1>2, <1>3, <1>4, <1>5 DEF Stored

(* The sum of a base and an address does not overflow.                        *)
LEMMA AddressFits ==
    ASSUME NEW b, Reaches(b, U16), NEW d \in 0..U16 - 1
    PROVE  /\ (b + d) % U64 = b + d /\ b + d \in Nat /\ b + d \in 0..U64 - 1
           /\ Reaches(b + d, 1)
<1>1. U16 \in Nat /\ U64 \in Nat /\ Half \in Nat /\ U64 >= 4 * Half /\ Half >= U16 /\ U16 > 0
  BY Widths
<1>2. b \in Nat /\ d \in Nat /\ d < U16
      /\ (b + U16 <= Half \/ (U64 - Half <= b /\ b + U16 <= U64))
  BY <1>1 DEF Reaches
<1>3. b + d \in Nat /\ b + d < U64
  BY <1>1, <1>2
<1>4. (b + d) + 1 <= Half \/ (U64 - Half <= b + d /\ (b + d) + 1 <= U64)
  BY <1>1, <1>2
<1>5. (b + d) % U64 = b + d
  BY <1>1, <1>3
<1> QED
  BY <1>1, <1>3, <1>4, <1>5 DEF Reaches

(* The addresses of bytes.                                                   *)
LEMMA AtOf ==
    ASSUME NEW a, NEW bytes
    PROVE  At(CellsAt(a, bytes)) = PlacesAt(a, bytes)
<1>1. ASSUME NEW cell \in CellsAt(a, bytes) PROVE cell[1] \in PlacesAt(a, bytes)
  BY DEF CellsAt, PlacesAt
<1>2. ASSUME NEW y \in PlacesAt(a, bytes) PROVE \E cell \in CellsAt(a, bytes) : y = cell[1]
  <2>1. PICK k \in DOMAIN bytes : y = a + k - 1
    BY DEF PlacesAt
  <2>2. <<a + k - 1, bytes[k]>> \in CellsAt(a, bytes) /\ <<a + k - 1, bytes[k]>>[1] = y
    BY <2>1 DEF CellsAt
  <2> QED
    BY <2>2
<1> QED
  BY <1>1, <1>2 DEF At

(* The cells of the line that is read.                                       *)
LEMMA CellsNext ==
    ASSUME lines \in Seq(Lines), NEW l \in Lines, lines' = Append(lines, l), IsData(l),
           NEW n \in Nat, n = Len(lines), NEW a, a = Base(n) + l.address
    PROVE  /\ Base(n + 1)' = Base(n)
           /\ Cells(n + 1)' = CellsAt(a, l.data)
           /\ At(Cells(n + 1)') = PlacesAt(a, l.data)
           /\ Place(n + 1)' = PlacesAt(a, l.data) \cup {a}
<1>1. lines'[n + 1] = l
  BY LineRead
<1>2. Base(n + 1)' = Base(n)
  BY BaseNext DEF IsData, IsBase
<1>3. Cells(n + 1)' = CellsAt(a, l.data)
  BY <1>1, <1>2 DEF Cells, CellsAt
<1>4. At(Cells(n + 1)') = PlacesAt(a, l.data)
  BY <1>3, AtOf
<1>5. Place(n + 1)' = At(Cells(n + 1)') \cup {a}
  BY <1>1, <1>2 DEF Place, At
<1> QED
  BY <1>2, <1>3, <1>4, <1>5

(* An address in a region is one in the buffer.                               *)
LEMMA InRegion ==
    ASSUME NEW r, Map(r), NEW y \in Nat
    PROVE  y \in At(Image(r)) <=> \E x \in DOMAIN r : x <= y /\ y < End(r, x)
<1>1. ASSUME NEW x \in DOMAIN r, x <= y, y < End(r, x) PROVE y \in At(Image(r))
  <2>1. PICK m \in Nat : m = Len(r[x]) /\ DOMAIN r[x] = 1..m /\ End(r, x) = x + m /\ x \in Nat
    BY EndIsNat
  <2>2. y - x + 1 \in 1..m /\ x + (y - x + 1) - 1 = y
    BY <1>1, <2>1
  <2>3. <<x + (y - x + 1) - 1, r[x][y - x + 1]>> \in Image(r)
    BY <2>1, <2>2, InImage
  <2>4. <<y, r[x][y - x + 1]>> \in Image(r)
    BY <2>2, <2>3
  <2> QED
    BY <2>4 DEF At
<1>2. ASSUME y \in At(Image(r)) PROVE \E x \in DOMAIN r : x <= y /\ y < End(r, x)
  <2>1. PICK c \in Image(r) : c[1] = y
    BY <1>2 DEF At
  <2>2. PICK x \in DOMAIN r : \E i \in DOMAIN r[x] : c = <<x + i - 1, r[x][i]>>
    BY InImage
  <2>3. PICK i \in DOMAIN r[x] : c = <<x + i - 1, r[x][i]>>
    BY <2>2
  <2>4. PICK m \in Nat : m = Len(r[x]) /\ DOMAIN r[x] = 1..m /\ End(r, x) = x + m /\ x \in Nat
    BY EndIsNat
  <2>5. y = x + i - 1
    BY <2>1, <2>3
  <2>6. x <= y /\ y < End(r, x)
    BY <2>4, <2>5
  <2> QED
    BY <2>6
<1> QED
  BY <1>1, <1>2

(* Cells of the records that were taken are in the buffer, and the other way.  *)
LEMMA TakenIsStored ==
    ASSUME Stored, NEW y
    PROVE  y \in At(Image(hex.regions)) <=> \E i \in Taken : y \in At(Cells(i))
BY DEF Stored, At

(* Data is put into the buffer.                                              *)
LEMMA DataStored ==
    ASSUME HexOK, Fits, Stored, NEW l \in Lines, lines' = Append(lines, l), IsData(l),
           NEW n \in Nat, n = Len(lines), hex.base = Base(n),
           NEW a, a = hex.base + l.address, a + Len(l.data) < U64,
           ~Intersects(hex.regions, a, Len(l.data)),
           hex'.regions = WriteRegion(hex.regions, a, l.data),
           Taken \in SUBSET (1..n), Taken' = Taken \cup {n + 1}
    PROVE  Stored'
<1> DEFINE r   == hex.regions
           new == CellsAt(a, l.data)
<1>1. lines \in Seq(Lines) /\ Map(r) /\ Apart(r) /\ Reaches(hex.base, U16)
  BY DEF HexOK, Fits
<1>2. l.data \in Seq(Nat) /\ l.address \in 0..U16 - 1
  BY LinesAssumption DEF IsData
<1>3. a \in Nat /\ a \in 0..U64 - 1
  BY <1>1, <1>2, AddressFits
<1>4. /\ \A i \in Taken : Base(i)' = Base(i) /\ Cells(i)' = Cells(i) /\ Place(i)' = Place(i)
      /\ n + 1 \notin Taken
  BY <1>1, RecordsKept
<1>5. /\ Base(n + 1)' = hex.base /\ Cells(n + 1)' = new
      /\ At(Cells(n + 1)') = PlacesAt(a, l.data)
      /\ Place(n + 1)' = PlacesAt(a, l.data) \cup {a}
  <2>1. a = Base(n) + l.address
    OBVIOUS
  <2> QED
    BY <1>1, <2>1, CellsNext
<1>6. Len(l.data) \in Nat
  BY <1>2
<1>7. /\ DOMAIN hex'.regions \subseteq DOMAIN r \cup {a}
      /\ Image(hex'.regions) = Image(r) \cup new
  BY <1>1, <1>2, <1>3, Written
<1>8. DOMAIN l.data = 1..Len(l.data)
  BY <1>2
<1> HIDE DEF new
<1>9. (\A i \in Taken : Base(i) \in Nat)'
  BY <1>1, <1>4, <1>5 DEF Stored, Reaches
<1>10. (Image(hex.regions) = UNION {Cells(i) : i \in Taken})'
  <2> DEFINE old2 == UNION {Cells(i) : i \in Taken}
             all  == UNION {Cells(i)' : i \in Taken'}
  <2>1. ASSUME NEW c \in all PROVE c \in old2 \cup new
    <3>1. PICK i \in Taken' : c \in Cells(i)'
      BY <2>1
    <3>2. CASE i \in Taken
      BY <1>4, <3>1, <3>2
    <3>3. CASE i = n + 1
      BY <1>5, <3>1, <3>3
    <3> QED
      BY <3>2, <3>3
  <2>2. ASSUME NEW c \in old2 PROVE c \in all
    BY <1>4
  <2>3. new \subseteq all
    BY <1>5
  <2>4. all = old2 \cup new
    <3> HIDE DEF all, old2
    <3> QED
      BY <2>1, <2>2, <2>3
  <2>5. Image(hex'.regions) = all
    <3> HIDE DEF all
    <3> QED
      BY <1>7, <2>4 DEF Stored
  <2> QED
    BY <2>5
<1>11. (\A x \in DOMAIN hex.regions : \E i \in Taken : x \in Place(i))'
  <2>1. ASSUME NEW x \in DOMAIN r PROVE \E i \in Taken' : x \in Place(i)'
    BY <1>4 DEF Stored
  <2>2. a \in Place(n + 1)'
    BY <1>5
  <2> QED
    BY <1>7, <2>1, <2>2
<1>12. ASSUME NEW i \in Taken PROVE At(Cells(i)) \cap At(Cells(n + 1)') = {}
  <2>1. SUFFICES ASSUME NEW k \in DOMAIN l.data, a + k - 1 \in At(Cells(i)) PROVE FALSE
    BY <1>5 DEF PlacesAt
  <2>2. k \in Nat /\ k >= 1 /\ k <= Len(l.data) /\ Len(l.data) \in Nat
    BY <1>6, <1>8
  <2>3. PICK y \in Nat : y = a + k - 1 /\ a <= y /\ y < a + Len(l.data)
    <3>1. a + k - 1 \in Nat /\ a <= a + k - 1 /\ a + k - 1 < a + Len(l.data)
      BY <1>3, <2>2, SMTT(20)
    <3> QED
      BY <3>1
  <2>4. y \in At(Image(r))
    BY <2>1, <2>3, TakenIsStored
  <2>5. PICK x \in DOMAIN r : x <= y /\ y < End(r, x)
    BY <1>1, <2>4, InRegion
  <2>6. x \in Nat /\ End(r, x) \in Nat
    BY <1>1, EndIsNat
  <2>7. IF x <= a THEN End(r, x) <= a ELSE a + Len(l.data) <= x
    BY <1>1, <1>3, <2>2, ClearOfAll
  <2>8. PICK e \in Nat, q \in Nat : e = End(r, x) /\ q = a + Len(l.data)
    BY <1>3, <2>2, <2>6
  <2>9. /\ x <= y /\ y < e /\ a <= y /\ y < q
        /\ IF x <= a THEN e <= a ELSE q <= x
    BY <2>3, <2>5, <2>7, <2>8
  <2>10. x \in Nat /\ a \in Nat
    BY <1>3, <2>6
  <2> QED
    BY <2>9, <2>10
<1>13. (\A i, j \in Taken : i # j => At(Cells(i)) \cap At(Cells(j)) = {})'
  <2>1. ASSUME NEW i \in Taken', NEW j \in Taken', i # j
        PROVE  At(Cells(i)') \cap At(Cells(j)') = {}
    <3>1. CASE i \in Taken /\ j \in Taken
      BY <1>4, <2>1, <3>1 DEF Stored
    <3>2. CASE i \in Taken /\ j = n + 1
      BY <1>4, <1>12, <3>2
    <3>3. CASE i = n + 1 /\ j \in Taken
      BY <1>4, <1>12, <3>3
    <3> QED
      BY <2>1, <3>1, <3>2, <3>3
  <2> QED
    BY <2>1
<1> QED
  BY <1>9, <1>10, <1>11, <1>13 DEF Stored

(* A record is refused for one that was taken.                               *)
LEMMA DataMeets ==
    ASSUME HexOK, Fits, Stored, NEW l \in Lines, lines' = Append(lines, l), IsData(l),
           NEW n \in Nat, n = Len(lines), hex.base = Base(n),
           NEW a, a = hex.base + l.address, a + Len(l.data) < U64,
           Intersects(hex.regions, a, Len(l.data)),
           Taken \in SUBSET (1..n)
    PROVE  \E i \in Taken : Place(i)' \cap Place(n + 1)' # {}
<1> DEFINE r == hex.regions
<1>1. lines \in Seq(Lines) /\ Map(r) /\ Apart(r) /\ Reaches(hex.base, U16)
  BY DEF HexOK, Fits
<1>2. l.data \in Seq(Nat) /\ l.address \in 0..U16 - 1 /\ Len(l.data) \in Nat
  BY LinesAssumption DEF IsData
<1>3. a \in Nat
  BY <1>1, <1>2, AddressFits
<1>4. \A i \in Taken : Place(i)' = Place(i)
  BY <1>1, RecordsKept
<1>5. Place(n + 1)' = PlacesAt(a, l.data) \cup {a}
  BY <1>1, CellsNext
<1>6. PICK x \in DOMAIN r : (x <= a /\ a < End(r, x)) \/ (a < x /\ x < a + Len(l.data))
  BY <1>1, <1>2, <1>3, OneIsMet
<1>7. CASE x <= a /\ a < End(r, x)
  <2>1. a \in At(Image(r))
    BY <1>1, <1>3, <1>7, InRegion
  <2>2. PICK i \in Taken : a \in At(Cells(i))
    BY <2>1, TakenIsStored
  <2>3. a \in Place(i)'
    BY <1>4, <2>2 DEF Place
  <2> QED
    BY <1>5, <2>3
<1>8. CASE a < x /\ x < a + Len(l.data)
  <2>1. PICK i \in Taken : x \in Place(i)
    BY DEF Stored
  <2>2. x \in Nat
    BY <1>1, EndIsNat
  <2>3. x - a + 1 \in DOMAIN l.data /\ a + (x - a + 1) - 1 = x
    <3>1. PICK m \in Nat : m = Len(l.data) /\ DOMAIN l.data = 1..m
      BY <1>2
    <3>2. x - a + 1 \in 1..m /\ a + (x - a + 1) - 1 = x
      BY <1>3, <1>8, <2>2, <3>1
    <3> QED
      BY <3>1, <3>2
  <2>4. x \in Place(n + 1)'
    BY <1>5, <2>3 DEF PlacesAt
  <2> QED
    BY <1>4, <2>1, <2>4
<1> QED
  BY <1>6, <1>7, <1>8
-----------------------------------------------------------------------------
(* What is taken while the file is read.                                     *)
LEMMA TakenNext ==
    ASSUME HexOK, hex.status = "reading", NEW l \in Lines, lines' = Append(lines, l),
           NEW n \in Nat, n = Len(lines)
    PROVE  /\ Taken = Data /\ Taken \in SUBSET (1..n) /\ Len(lines') = n + 1
           /\ (hex'.status \in {"reading", "done"} /\ IsData(l)) => Taken' = Taken \cup {n + 1}
           /\ (hex'.status \in {"reading", "done"} => ~IsData(l)) => Taken' = Taken
<1>1. /\ Data \in SUBSET (1..n) /\ Len(lines') = n + 1
      /\ Data' = Data \cup (IF IsData(l) THEN {n + 1} ELSE {})
  BY DataNext DEF HexOK
<1>2. Taken = Data /\ n + 1 \notin Data
  BY <1>1 DEF Taken
<1>3. Taken' = IF hex'.status \in {"reading", "done"} THEN Data' ELSE Data' \ {n + 1}
  BY <1>1 DEF Taken
<1> QED
  BY <1>1, <1>2, <1>3

(* Whatever was there before holds of a file that is not signed.              *)
LEMMA WasRead ==
    ASSUME HexInv, hex.status = "reading", NEW l \in Lines, lines' = Append(lines, l), ~Signed'
    PROVE  Fits /\ Stored /\ hex.base = Base(Len(lines)) /\ hex.base + U16 <= Half
BY SignedKept DEF HexInv, HexOK, HexRead

(* Its data do not reach the end of a size_t, nor do those of a file that does *)
(* not wrap.                                                                 *)
LEMMA DataFits ==
    ASSUME HexInv, hex.status = "reading", NEW l \in Lines, lines' = Append(lines, l), IsData(l),
           ~Wraps' \/ ~Signed'
    PROVE  Fits /\ (hex.base + l.address) + Len(l.data) < U64
<1>1. lines \in Seq(Lines)
  BY DEF HexInv, HexOK
<1>2. PICK n \in Nat : n = Len(lines)
  BY <1>1
<1>3. Fits
  BY <1>1, WrapsKept, SignedKept DEF HexInv
<1>4. /\ U16 \in Nat /\ U32 \in Nat /\ U64 \in Nat /\ Half \in Nat /\ Byte \in Nat
      /\ U32 = 2 * Half /\ U64 >= 2 * U32 /\ Half >= U16 /\ U16 >= 2 * Byte /\ U32 \div 2 = Half
  BY Widths DEF Half
<1>5. PICK d \in Nat : d = l.address /\ d < U16
  BY <1>4, LinesAssumption DEF IsData
<1>6. PICK k \in Nat : k = Len(l.data) /\ k < Byte
  BY <1>4, LinesAssumption DEF IsData
<1>7. PICK b \in Nat : b = hex.base
  BY DEF HexInv, HexOK, Reaches
<1>8. CASE ~Wraps'
  <2>1. PICK c \in Nat : c = Base(n) /\ b = Extend(c)
    BY <1>2, <1>7 DEF HexInv, HexOK
  <2>2. n + 1 \in DOMAIN lines' /\ lines'[n + 1] = l /\ Base(n + 1)' = c
    BY <1>1, <1>2, <2>1, LineRead, BaseNext DEF IsData, IsBase
  <2>3. ~(c + d + k >= U32)
    BY <1>5, <1>6, <1>8, <2>2 DEF Wraps, Record, IsData
  <2>4. b <= c + (U64 - U32)
    BY <1>4, <2>1 DEF Extend
  <2>5. b + d + k < U64
    <3>1. PICK u \in Nat, v \in Nat : u = U32 /\ v = U64 /\ b <= c + (v - u) /\ ~(c + d + k >= u)
      BY <1>4, <2>3, <2>4
    <3>2. b + d + k < v
      BY <3>1
    <3> QED
      BY <3>1, <3>2
  <2> QED
    BY <1>3, <1>5, <1>6, <1>7, <2>5
<1>9. CASE ~Signed'
  <2>1. b + U16 <= Half
    BY <1>7, <1>9, WasRead
  <2>2. b + d + k < U64
    BY <1>4, <1>5, <1>6, <2>1, SMTT(20)
  <2> QED
    BY <1>3, <1>5, <1>6, <1>7, <2>2
<1> QED
  BY <1>8, <1>9

(* A line that changes at most the status.                                   *)
LEMMA StatusKeeps ==
    ASSUME HexInv, hex.status = "reading", NEW l \in Lines, lines' = Append(lines, l),
           NEW n \in Nat, n = Len(lines), NEW k, hex' = [hex EXCEPT !.status = k],
           k \in {"reading", "done"} => ~IsData(l), k = "reading" => ~IsBase(l),
           k = "overlapping_regions" /\ ~Signed' =>
               \E i \in Taken : Place(i)' \cap Place(n + 1)' # {}
    PROVE  HexInv'
<1>1. HexOK /\ lines \in Seq(Lines) /\ lines' \in Seq(Lines)
  BY LineRead DEF HexInv, HexOK
<1>2. hex'.regions = hex.regions /\ hex'.base = hex.base /\ hex'.status = k
  BY <1>1 DEF HexOK
<1>4. Taken \in SUBSET (1..n) /\ Taken' = Taken /\ Len(lines') = n + 1
  BY <1>1, <1>2, TakenNext
<1>a. k = "reading" => Base(n + 1)' = Base(n)
  BY <1>1, BaseNext
<1>3. HexOK'
  BY <1>1, <1>2, <1>4, <1>a DEF HexOK
<1>b. ~Wraps' \/ ~Signed' => Fits'
  BY <1>1, <1>2, WrapsKept, SignedKept DEF HexInv, Fits
<1>5. ASSUME ~Signed' PROVE HexRead'
  <2>1. Stored /\ hex.base = Base(n) /\ hex.base + U16 <= Half
    BY <1>5, WasRead
  <2>2. Stored'
    BY <1>1, <1>2, <1>4, <2>1, StoredKept
  <2>3. (hex.status = "reading" => hex.base = Base(Len(lines)) /\ hex.base + U16 <= Half)'
    BY <1>2, <1>4, <1>a, <2>1
  <2>4. Refusal'
    BY <1>2, <1>4, <1>5 DEF Refusal
  <2> QED
    BY <2>2, <2>3, <2>4 DEF HexRead
<1> QED
  BY <1>3, <1>5, <1>b DEF HexInv

(* A line with a base.                                                       *)
LEMMA BaseKeeps ==
    ASSUME HexInv, hex.status = "reading", NEW l \in Lines, lines' = Append(lines, l),
           NEW n \in Nat, n = Len(lines), IsBase(l), Len(l.data) = 2,
           hex' = [hex EXCEPT !.base = IF l.type = 4 THEN Extend(Upper(l) * U16)
                                                     ELSE Upper(l) * Nibble]
    PROVE  HexInv'
<1> DEFINE b == IF l.type = 4 THEN Extend(Upper(l) * U16) ELSE Upper(l) * Nibble
<1>1. HexOK /\ lines \in Seq(Lines) /\ lines' \in Seq(Lines)
  BY LineRead DEF HexInv, HexOK
<1>2. hex'.regions = hex.regions /\ hex'.base = b /\ hex'.status = "reading"
      /\ hex' = [base |-> b, regions |-> hex.regions, status |-> "reading"]
  BY <1>1 DEF HexOK
<1>3. Upper(l) \in Nat /\ Upper(l) < U16
  BY UpperIsNat DEF IsBase
<1>4. /\ Upper(l) * Nibble \in Nat /\ Upper(l) * U16 \in Nat
      /\ Reaches(Upper(l) * Nibble, U16) /\ Reaches(Extend(Upper(l) * U16), U16)
      /\ Extend(Upper(l) * Nibble) = Upper(l) * Nibble /\ Upper(l) * Nibble + U16 <= Half
      /\ Upper(l) * U16 < Half =>
            Extend(Upper(l) * U16) = Upper(l) * U16 /\ Upper(l) * U16 + U16 <= Half
  BY <1>3, BaseReaches
<1>5. Reaches(b, U16)
  BY <1>4
<1>7. ~IsData(l)
  BY DEF IsData, IsBase
<1>8. Taken \in SUBSET (1..n) /\ Taken' = Taken /\ Len(lines') = n + 1
  BY <1>1, <1>2, <1>7, TakenNext
<1>a. Base(n + 1)' = Upper(l) * (IF l.type = 4 THEN U16 ELSE Nibble)
  BY <1>1, BaseNext
<1>b. Base(n + 1)' \in Nat /\ b = Extend(Base(n + 1)')
  BY <1>4, <1>a
<1> HIDE DEF b
<1>6. HexOK'
  <2>1. (/\ hex = [base |-> hex.base, regions |-> hex.regions, status |-> hex.status]
         /\ Regions(hex.regions) /\ \A x \in DOMAIN hex.regions : Reaches(x, 1)
         /\ Reaches(hex.base, U16))'
    BY <1>1, <1>2, <1>5 DEF HexOK
  <2>2. Base(Len(lines))' \in Nat /\ hex'.base = Extend(Base(Len(lines))')
    BY <1>2, <1>8, <1>b
  <2>3. (Extend(Base(Len(lines))))' = Extend(Base(Len(lines))')
    BY DEF Extend
  <2> QED
    BY <1>1, <2>1, <2>2, <2>3 DEF HexOK
<1>c. ~Wraps' \/ ~Signed' => Fits'
  BY <1>1, <1>2, WrapsKept, SignedKept DEF HexInv, Fits
<1>9. ASSUME ~Signed' PROVE HexRead'
  <2>1. Stored /\ hex.base = Base(n)
    BY <1>9, WasRead
  <2>2. Stored'
    BY <1>1, <1>2, <1>8, <2>1, StoredKept
  <2>4. l.type = 4 => Upper(l) * U16 < Half
    <3>1. SUFFICES ASSUME l.type = 4, ~(Upper(l) * U16 < Half) PROVE FALSE
      OBVIOUS
    <3>2. lines'[n + 1] = l /\ n + 1 \in DOMAIN lines'
      BY <1>1, LineRead
    <3>3. Upper(l) * U16 >= U32 \div 2
      <4>1. PICK m \in Nat : m = Upper(l) * U16
        BY <1>3, Widths, SMTT(20)
      <4>2. Half \in Nat
        BY Widths
      <4>3. m >= Half
        <5>1. PICK h \in Nat : h = Half /\ ~(m < h)
          BY <3>1, <4>1, <4>2
        <5> QED
          BY <5>1
      <4> QED
        BY <4>1, <4>3 DEF Half
    <3>4. Record(n + 1, {4})'
      BY <3>1, <3>2 DEF Record, IsBase
    <3>5. Signed'
      BY <3>2, <3>3, <3>4 DEF Signed, Upper
    <3> QED
      BY <1>9, <3>5
  <2>5. b = Base(n + 1)' /\ b + U16 <= Half
    BY <1>4, <1>a, <2>4 DEF b
  <2>6. (hex.status = "reading" => hex.base = Base(Len(lines)) /\ hex.base + U16 <= Half)'
    BY <1>2, <1>8, <2>5
  <2>7. Refusal'
    BY <1>2 DEF Refusal
  <2> QED
    BY <2>2, <2>6, <2>7 DEF HexRead
<1> QED
  BY <1>6, <1>9, <1>c DEF HexInv

(* A line with data.                                                         *)
LEMMA DataKeeps ==
    ASSUME HexInv, hex.status = "reading", NEW l \in Lines, lines' = Append(lines, l),
           NEW n \in Nat, n = Len(lines), IsData(l), DataRecord(l)
    PROVE  HexInv'
<1> DEFINE a == hex.base + l.address
<1>1. HexOK /\ lines \in Seq(Lines) /\ lines' \in Seq(Lines)
  BY LineRead DEF HexInv, HexOK
<1>2. l.data \in Seq(Nat) /\ l.address \in 0..U16 - 1
  BY LinesAssumption DEF IsData
<1>3. /\ (hex.base + l.address) % U64 = a /\ a \in 0..U64 - 1 /\ Reaches(a, 1)
  BY <1>1, <1>2, AddressFits DEF HexOK
<1>6. ~Wraps' \/ ~Signed' => Fits /\ a + Len(l.data) < U64
  BY DataFits
<1> HIDE DEF a
<1>4. CASE Intersects(hex.regions, a, Len(l.data))
  <2>1. hex' = [hex EXCEPT !.status = "overlapping_regions"]
    BY <1>3, <1>4 DEF DataRecord, ParseError
  <2>2. Taken \in SUBSET (1..n)
    BY <1>1, TakenNext
  <2>3. ~Signed' => \E i \in Taken : Place(i)' \cap Place(n + 1)' # {}
    <3>1. SUFFICES ASSUME ~Signed' PROVE \E i \in Taken : Place(i)' \cap Place(n + 1)' # {}
      OBVIOUS
    <3>2. Stored /\ hex.base = Base(n)
      BY <3>1, WasRead
    <3>3. Fits /\ a + Len(l.data) < U64
      BY <1>6, <3>1
    <3> QED
      BY <1>1, <1>4, <2>2, <3>2, <3>3, DataMeets DEF a
  <2> QED
    BY <2>1, <2>3, StatusKeeps
<1>5. CASE ~Intersects(hex.regions, a, Len(l.data))
  <2> DEFINE w == WriteRegion(hex.regions, a, l.data)
  <2>1. hex' = [hex EXCEPT !.regions = w]
    BY <1>3, <1>5 DEF DataRecord
  <2>2. hex' = [base |-> hex.base, regions |-> w, status |-> "reading"]
        /\ hex'.regions = w /\ hex'.base = hex.base /\ hex'.status = "reading"
    BY <1>1, <2>1 DEF HexOK
  <2>3. Regions(w) /\ DOMAIN w \subseteq DOMAIN hex.regions \cup {a}
    BY <1>1, <1>2, <1>3, WrittenAreRegions DEF HexOK
  <2>4. \A x \in DOMAIN w : Reaches(x, 1)
    BY <1>1, <1>3, <2>3 DEF HexOK
  <2>8. ~Wraps' \/ ~Signed' => Map(w) /\ Apart(w)
    BY <1>1, <1>2, <1>3, <1>5, <1>6, Written DEF Fits
  <2> HIDE DEF w
  <2>9. Base(n + 1)' = Base(n) /\ Len(lines') = n + 1
    BY <1>1, BaseNext, LineRead DEF IsData, IsBase
  <2>5. HexOK'
    BY <1>1, <2>2, <2>3, <2>4, <2>9 DEF HexOK
  <2>6. Taken \in SUBSET (1..n) /\ Taken' = Taken \cup {n + 1} /\ Len(lines') = n + 1
    BY <1>1, <2>2, TakenNext
  <2>7. ASSUME ~Signed' PROVE HexRead'
    <3>1. Stored /\ hex.base = Base(n) /\ hex.base + U16 <= Half
      BY <2>7, WasRead
    <3>2. Fits /\ a + Len(l.data) < U64
      BY <1>6, <2>7
    <3>3. Stored'
      BY <1>1, <1>5, <2>2, <2>6, <3>1, <3>2, DataStored DEF a, w
    <3>4. (hex.status = "reading" => hex.base = Base(Len(lines)) /\ hex.base + U16 <= Half)'
      BY <2>2, <2>9, <3>1
    <3>5. Refusal'
      BY <2>2 DEF Refusal
    <3> QED
      BY <3>3, <3>4, <3>5 DEF HexRead
  <2> QED
    BY <2>2, <2>5, <2>7, <2>8 DEF HexInv, Fits
<1> QED
  BY <1>4, <1>5

(* Every line keeps the invariant.                                           *)
LEMMA LineKeeps ==
    ASSUME HexInv, NEW l \in Lines, ReadLine(l)
    PROVE  HexInv'
<1>1. hex.status = "reading" /\ lines' = Append(lines, l) /\ lines \in Seq(Lines)
  BY DEF ReadLine, HexInv, HexOK
<1>2. PICK n \in Nat : n = Len(lines)
  BY <1>1
<1>3. ASSUME NEW k, hex' = [hex EXCEPT !.status = k],
             k \in {"reading", "done"} => ~IsData(l), k = "reading" => ~IsBase(l),
             k # "overlapping_regions"
      PROVE  HexInv'
  BY <1>1, <1>2, <1>3, StatusKeeps
<1>4. UNCHANGED hex => hex' = [hex EXCEPT !.status = "reading"]
  BY <1>1 DEF HexInv, HexOK
<1>5. CASE l.form # "record"
  <2>1. ~IsData(l) /\ ~IsBase(l)
    BY <1>5 DEF IsData, IsBase
  <2>2. CASE UNCHANGED hex
    BY <1>3, <1>4, <2>1, <2>2
  <2>3. CASE \E k \in {"missing_leading_colon", "unexpected_character",
                       "mismatched_record_length", "crash"} : ParseError(k)
    BY <1>3, <2>1, <2>3 DEF ParseError
  <2> QED
    BY <1>5, <2>2, <2>3 DEF ReadLine
<1>6. CASE l.form = "record" /\ l.length # Len(l.data)
  <2>1. ~IsData(l) /\ ~IsBase(l)
    BY <1>6 DEF IsData, IsBase
  <2>2. ParseError("mismatched_record_length")
    BY <1>6 DEF ReadLine, ReadRecord
  <2> QED
    BY <1>3, <2>1, <2>2 DEF ParseError
<1>7. CASE l.form = "record" /\ l.length = Len(l.data)
  <2>1. \/ l.type \in {2, 4} /\ BaseRecord(l)
        \/ l.type = 3 /\ UNCHANGED hex
        \/ l.type = 1 /\ hex' = [hex EXCEPT !.status = "done"]
        \/ l.type = 0 /\ DataRecord(l)
        \/ l.type \notin 0..4 /\ ParseError("unknown_record_type")
    BY <1>7 DEF ReadLine, ReadRecord
  <2>2. CASE l.type \in {2, 4} /\ BaseRecord(l)
    <3>1. IsBase(l) /\ ~IsData(l)
      BY <1>7, <2>2 DEF IsData, IsBase
    <3>2. CASE Len(l.data) # 2
      BY <1>3, <2>2, <3>1, <3>2 DEF BaseRecord, ParseError
    <3>3. CASE Len(l.data) = 2
      BY <1>1, <1>2, <2>2, <3>1, <3>3, BaseKeeps DEF BaseRecord
    <3> QED
      BY <3>2, <3>3
  <2>3. CASE l.type = 3 /\ UNCHANGED hex
    <3>1. ~IsBase(l) /\ ~IsData(l)
      BY <2>3 DEF IsData, IsBase
    <3> QED
      BY <1>3, <1>4, <2>3, <3>1
  <2>4. CASE l.type = 1 /\ hex' = [hex EXCEPT !.status = "done"]
    <3>1. ~IsData(l)
      BY <2>4 DEF IsData
    <3> QED
      BY <1>3, <2>4, <3>1
  <2>5. CASE l.type = 0 /\ DataRecord(l)
    <3>1. IsData(l)
      BY <1>7, <2>5 DEF IsData
    <3> QED
      BY <1>1, <1>2, <2>5, <3>1, DataKeeps
  <2>6. CASE l.type \notin 0..4 /\ ParseError("unknown_record_type")
    BY <1>3, <2>6 DEF ParseError
  <2> QED
    BY <2>1, <2>2, <2>3, <2>4, <2>5, <2>6
<1> QED
  BY <1>5, <1>6, <1>7

(* So does the end of the file, and what leaves the reader alone.             *)
LEMMA EndKeeps ==
    ASSUME HexInv, EndOfFile \/ UNCHANGED ihex_vars
    PROVE  HexInv'
<1>1. /\ lines' = lines /\ hex'.regions = hex.regions /\ hex'.base = hex.base
      /\ hex' = [base |-> hex.base, regions |-> hex.regions, status |-> hex'.status]
      /\ hex'.status = hex.status \/ (hex.status = "reading" /\ hex'.status = "done")
  BY DEF HexInv, HexOK, EndOfFile, ihex_vars
<1>3. \A i : Base(i)' = Base(i) /\ Cells(i)' = Cells(i) /\ Place(i)' = Place(i)
  BY <1>1 DEF Base, Cells, Place, Record
<1>2. HexOK'
  BY <1>1, <1>3 DEF HexInv, HexOK
<1>a. (Wraps' <=> Wraps) /\ (Fits' <=> Fits)
  BY <1>1, <1>3 DEF Wraps, Fits, Record
<1>4. Taken' = Taken
  <2>1. Data' = Data
    BY <1>1 DEF Data, Record
  <2> QED
    BY <1>1, <2>1 DEF Taken
<1>5. Signed' <=> Signed
  BY <1>1 DEF Signed, Record
<1>6. HexRead => HexRead'
  <2>1. SUFFICES ASSUME HexRead PROVE HexRead'
    OBVIOUS
  <2>2. Stored'
    BY <1>1, <1>3, <1>4, <2>1 DEF HexRead, Stored
  <2>3. Refusal'
    BY <1>1, <1>3, <1>4, <2>1 DEF HexRead, Refusal
  <2>4. (hex.status = "reading" => hex.base = Base(Len(lines)) /\ hex.base + U16 <= Half)'
    BY <1>1, <1>3, <2>1 DEF HexRead
  <2> QED
    BY <2>2, <2>3, <2>4 DEF HexRead
<1> QED
  BY <1>2, <1>5, <1>6, <1>a DEF HexInv

(* An empty buffer is what no lines give.                                    *)
LEMMA HexInitInv ==
    ASSUME IhexInit
    PROVE  HexInv
<1>1. /\ hex = [base |-> 0, regions |-> <<>>, status |-> "reading"] /\ lines = <<>>
      /\ hex.base = 0 /\ hex.regions = <<>> /\ hex.status = "reading"
  BY DEF IhexInit, Empty
<1>2. DOMAIN <<>> = {} /\ Image(<<>>) = {} /\ Map(<<>>) /\ Regions(<<>>) /\ Apart(<<>>)
  BY DEF Image, Map, Regions, Apart
<1>3. Reaches(0, U16) /\ 0 + U16 <= Half /\ Extend(0) = 0
  BY Widths DEF Reaches, Extend, Half
<1>5. Data = {} /\ Taken = {}
  BY <1>1 DEF Data, Taken
<1>6. Base(Len(lines)) = 0
  <2>1. {j \in 1..Len(lines) : Record(j, {2, 4})} = {}
    BY <1>1
  <2> QED
    BY <2>1 DEF Base
<1>4. HexOK /\ Fits
  BY <1>1, <1>2, <1>3, <1>6 DEF HexOK, Fits
<1>7. Stored /\ Refusal
  BY <1>1, <1>2, <1>5 DEF Stored, Refusal
<1> QED
  BY <1>1, <1>3, <1>4, <1>6, <1>7 DEF HexInv, HexRead

(* The invariant is more than the property.                                  *)
LEMMA HexInvIsImage ==
    ASSUME HexInv
    PROVE  HexImage
BY ReadsBack DEF HexInv, Fits, HexRead, Stored, Refusal, HexImage
=============================================================================

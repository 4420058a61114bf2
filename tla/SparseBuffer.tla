---------------------------- MODULE SparseBuffer ----------------------------
(***************************************************************************)
(* sparse_buffer: bytes at scattered addresses, as a map from the address of  *)
(* a region to its bytes.  Regions do not overlap, but at the end of the      *)
(* address space, where the sum of an address and a size, a size_t, wraps;   *)
(* they may touch.                                                           *)
(***************************************************************************)
EXTENDS Integers, IntegerWidths, Sequences, FiniteSetsExt

Empty == <<>>

Plus(a, n) == (a + n) % U64
End(regions, a) == Plus(a, Len(regions[a]))

(* upper_bound, and the region before it.                                    *)
UpTo(regions, a)   == {x \in DOMAIN regions : x <= a}
Beyond(regions, a) == {x \in DOMAIN regions : x > a}

(* Mutant: a region that only touches counts.                                *)
IntersectsTouching(regions, a, length) ==
    \/ UpTo(regions, a) # {} /\ End(regions, Max(UpTo(regions, a))) >= a
    \/ Beyond(regions, a) # {} /\ Min(Beyond(regions, a)) < Plus(a, length)

Intersects(regions, a, length) ==
    \/ UpTo(regions, a) # {} /\ End(regions, Max(UpTo(regions, a))) > a
    \/ Beyond(regions, a) # {} /\ Min(Beyond(regions, a)) < Plus(a, length)

ReadRegion(regions, a, length, fill) ==
    LET first == IF UpTo(regions, a) = {} THEN {} ELSE {Max(UpTo(regions, a))}
        stop  == Plus(a, length)
        from  == {x \in first \cup Beyond(regions, a) : x < stop}
    IN  [i \in 1..length |->
            LET at == {x \in from : x < a + i /\ a + i <= stop /\ a + i <= End(regions, x)}
            IN  IF at = {} THEN fill ELSE regions[Max(at)][a + i - Max(at)]]

TopAddress(regions) ==
    IF DOMAIN regions = {} THEN 0 ELSE End(regions, Max(DOMAIN regions))

(* The regions the new bytes reach over are taken into the new region.  Of     *)
(* regions that do not overlap only the last can have bytes behind the new     *)
(* ones, and these are kept.                                                 *)
Swallow(regions, a, bytes, over) ==
    LET to   == Plus(a, Len(bytes))
        x    == Max(over)
        tail == IF over # {} /\ End(regions, x) > to
                THEN SubSeq(regions[x], to - x + 1, Len(regions[x])) ELSE <<>>
    IN  [y \in (DOMAIN regions \cup {a}) \ over |-> IF y = a THEN bytes \o tail ELSE regions[y]]

(* A region that is written into ends where the new bytes end.  It must not    *)
(* reach over another: reg is null then, and the program crashes.  parse_ihex  *)
(* never does either, since it asks Intersects before.                       *)
WriteRegion(regions, a, bytes) ==
    LET p    == Max(UpTo(regions, a))
        over == {x \in Beyond(regions, a) : x < Plus(a, Len(bytes))}
    IN  IF UpTo(regions, a) = {} \/ End(regions, p) < a
        THEN Swallow(regions, a, bytes, over)
        ELSE [regions EXCEPT ![p] = SubSeq(@, 1, a - p) \o bytes]

Image(regions) == UNION {{<<a + i - 1, regions[a][i]>> : i \in DOMAIN regions[a]} : a \in DOMAIN regions}
=============================================================================

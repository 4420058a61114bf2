------------------------------ MODULE SvfVector ------------------------------
(***************************************************************************)
(* The bit vectors of an SVF file.  A vector<uint8_t> is the sequence of its   *)
(* bits, lowest first, a multiple of Width of them (8 in the code); a digit    *)
(* of the file has DigitWidth bits (4).                                      *)
(***************************************************************************)
EXTENDS Integers, Sequences, SequencesExt

CONSTANTS Width, DigitWidth

ASSUME WidthAssumption == DigitWidth \in Nat \ {0} /\ Width = 2 * DigitWidth

RoundUp(n) == ((n + Width - 1) \div Width) * Width

Bit(v, i) == i \in DOMAIN v /\ v[i]
Fill(n, b) == [i \in 1..n |-> b]

(* The digits come with the highest first; more than the length needs are      *)
(* dropped, but not the bits of the last byte beyond the length.             *)
ParseVector(digits, length) ==
    LET digit(i) == digits[Len(digits) - (i - 1) \div DigitWidth]
    IN  [i \in 1..RoundUp(length) |->
            /\ i <= Len(digits) * DigitWidth
            /\ (digit(i) \div 2 ^ ((i - 1) % DigitWidth)) % 2 = 1]

NoXxr == [length |-> 0, tdi |-> <<>>, tdo |-> <<>>, mask |-> <<>>, smask |-> <<>>]

(* What a statement changes of the values that stay for the next one of its    *)
(* kind.  When the length changes all do, and TDI must be there.             *)
CanMerge(dest, source) ==
    dest.length = source.length \/ source.length = 0 \/ source.tdi # <<>>

Or(v, default) == IF v = <<>> THEN default ELSE v

MergeXxr(dest, source) ==
    LET zero == Fill(RoundUp(source.length), FALSE)
        one  == Fill(RoundUp(source.length), TRUE)
        cut(v) == [i \in DOMAIN v |-> v[i] /\ i <= source.length]
    IN  IF dest.length # source.length
        THEN [length |-> source.length, tdi |-> cut(source.tdi),
              tdo   |-> cut(Or(source.tdo, zero)),
              mask  |-> cut(Or(source.mask, IF source.tdo = <<>> THEN zero ELSE one)),
              smask |-> cut(Or(source.smask, one))]
        ELSE [length |-> dest.length, tdi |-> Or(source.tdi, dest.tdi),
              tdo   |-> Or(source.tdo, zero),
              mask  |-> Or(source.mask, dest.mask),
              smask |-> Or(source.smask, dest.smask)]

(* Mutant: the bytes are put one after the other.                            *)
JoinBytes(m, lhs, n, rhs) == SubSeq(lhs \o rhs, 1, RoundUp(m + n))

JoinBitset(m, lhs, n, rhs) ==
    IF m % Width = 0 THEN lhs \o rhs
    ELSE [i \in 1..RoundUp(m + n) |-> Bit(lhs, i) \/ Bit(rhs, i - m)]

JoinXxr(lhs, rhs) ==
    LET join(f) == JoinBitset(lhs.length, lhs[f], rhs.length, rhs[f])
    IN  [length |-> lhs.length + rhs.length, tdi |-> join("tdi"), tdo |-> join("tdo"),
         mask |-> join("mask"), smask |-> join("smask")]

(* With nothing to compare there is neither TDO nor mask.                    *)
PrepareShift(head, body, tail) ==
    LET res == JoinXxr(JoinXxr(head, body), tail)
    IN  IF TRUE \in ToSet(res.mask) THEN res ELSE [res EXCEPT !.tdo = <<>>, !.mask = <<>>]
=============================================================================

---------------------------- MODULE StreamParser ----------------------------
(***************************************************************************)
(* Packets and their frames: a start byte, a byte with the command in one    *)
(* nibble and the size in the other, and the rest of the packet.             *)
(* stream_parser takes a stream apart that comes in buffers of any size; it  *)
(* keeps its place, and the packet so far, from one buffer to the next.      *)
(*                                                                         *)
(* The nibble is MaxSize values wide (16 in the code).                       *)
(***************************************************************************)
EXTENDS Integers, Sequences, SequencesExt

CONSTANT MaxSize

ASSUME MaxSizeAssumption == MaxSize \in Nat \ {0}

StartByte == 128

(* A packet is its command and its data.                                     *)
Frame(p) == <<StartByte, Head(p) * MaxSize + Len(p) - 1>> \o Tail(p)

Parser == [pos |-> 0, partial |-> <<>>]

(* A byte before, of, and after the head of a packet.  The place in a packet  *)
(* is that of its next byte, with the command as the first.                  *)
FindStart(s, b) ==
    IF b = StartByte THEN [s EXCEPT !.pos = 1] ELSE s

(* Mutant: the size is taken for that of the data.                           *)
ParseHeadShort(s, b) ==
    LET size == IF b % MaxSize = 0 THEN 1 ELSE b % MaxSize
    IN  [s EXCEPT !.pos = 2, !.partial = <<b \div MaxSize>> \o [i \in 1..size - 1 |-> 0]]

ParseHead(s, b) ==
    LET size == (b % MaxSize) + 1
    IN  [s EXCEPT !.pos = 2, !.partial = <<b \div MaxSize>> \o [i \in 1..size - 1 |-> 0]]

ParseData(s, b) == [s EXCEPT !.pos = @ + 1, !.partial = [@ EXCEPT ![s.pos] = b]]

(* handle_packet is called as soon as the last byte is there.  Here packets    *)
(* is what it is called with, in order: no handler calls the parser.         *)
Emit(s) ==
    IF s.pos > 1 /\ s.pos > Len(s.partial)
    THEN [pos |-> 0, partial |-> <<>>, packets |-> Append(s.packets, s.partial)]
    ELSE s

Parse(s, buffer) ==
    LET place(acc, b) == CASE acc.pos = 0 -> FindStart(acc, b)
                           [] acc.pos = 1 -> ParseHead(acc, b)
                           [] OTHER -> ParseData(acc, b)
    IN  FoldLeft(LAMBDA acc, b : Emit(place(acc, b)),
                 [pos |-> s.pos, partial |-> s.partial, packets |-> <<>>], buffer)
=============================================================================

--------------------------- MODULE IntegerWidths ---------------------------
(***************************************************************************)
(* The widths of the integers that addresses and bytes are kept in.  A nibble *)
(* has Nibble values (16 in the code); the other widths follow.              *)
(***************************************************************************)
EXTENDS Integers

CONSTANT Nibble

ASSUME NibbleAssumption == Nibble \in Nat \ {0} /\ Nibble % 2 = 0

Byte == Nibble * Nibble \* 2^8
U16  == Byte * Byte     \* 2^16
U32  == U16 * U16       \* 2^32
U64  == U32 * U32       \* 2^64
=============================================================================

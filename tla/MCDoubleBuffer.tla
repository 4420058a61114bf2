--------------------------- MODULE MCDoubleBuffer ---------------------------
(* Small instances of DoubleBuffer for TLC.                                  *)
EXTENDS DoubleBuffer

CONSTANT MaxTransfers

MCTransfers == 1..MaxTransfers
=============================================================================

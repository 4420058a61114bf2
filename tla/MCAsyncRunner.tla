--------------------------- MODULE MCAsyncRunner ---------------------------
(* Small instances of AsyncRunner for TLC.                                   *)
EXTENDS AsyncRunnerInv, TLC

CONSTANTS p1, p2

MCPromises == {p1, p2}
MCSymmetry == Permutations(MCPromises)
=============================================================================

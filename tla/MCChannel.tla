----------------------------- MODULE MCChannel -----------------------------
(* Small instances of Channel, and through it of RingBuffer, for TLC.        *)
EXTENDS Channel, TLC

CONSTANTS v1, v2, v3, r1, r2

MCValue    == {v1, v2, v3}
MCReceives == {r1, r2}
=============================================================================

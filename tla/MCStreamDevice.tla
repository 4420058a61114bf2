--------------------------- MODULE MCStreamDevice ---------------------------
(* Small instances of StreamDevice for TLC.                                  *)
EXTENDS StreamDevice

CONSTANTS a, b, c

MCPackets == {a, b, c}
=============================================================================

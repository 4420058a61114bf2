---------------------------- MODULE MCUsbContext ----------------------------
(* A small instance of UsbContext for TLC.                                   *)
EXTENDS UsbContext
=============================================================================

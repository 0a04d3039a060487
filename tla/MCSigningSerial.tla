--------------------------- MODULE MCSigningSerial ---------------------------
(***************************************************************************)
(* Instances of Retention, and with it of SigningSerial, for TLC.          *)
(***************************************************************************)
EXTENDS Retention
=============================================================================

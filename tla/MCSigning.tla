------------------------------ MODULE MCSigning ------------------------------
(***************************************************************************)
(* Instances of SigningSession for TLC.                                    *)
(***************************************************************************)
EXTENDS SigningSession, TLC

Interchangeable == Permutations(Slots)
=============================================================================

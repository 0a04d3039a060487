------------------------------ MODULE MCWorker ------------------------------
(***************************************************************************)
(* Instances of WorkerTick for TLC.                                        *)
(***************************************************************************)
EXTENDS WorkerTick, TLC

Interchangeable == Permutations(Sweepers)
=============================================================================

------------------------------ MODULE MCPipeline ------------------------------
(***************************************************************************)
(* Instances of RequestPipeline for TLC.                                   *)
(***************************************************************************)
EXTENDS RequestPipeline, TLC

MCAsked == {[scopes |-> {"create"}, expiry |-> "ahead"]}

Interchangeable == Permutations(Slots) \cup Permutations(Keys)
                     \cup Permutations(Payloads)
=============================================================================

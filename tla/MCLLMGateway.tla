----------------------------- MODULE MCLLMGateway -----------------------------
(***************************************************************************)
(* Instance of LLMGateway for TLC.  Bounds: the calls, which are never     *)
(* deleted, and the invalidations (MaxEpoch).                              *)
(***************************************************************************)
EXTENDS LLMGateway, TLC

CONSTANTS task1, task2, key1, hash1

MCCallId == 1..2
=============================================================================

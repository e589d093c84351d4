---------------------------- MODULE MCSentencing ----------------------------
(* Instance of Sentencing for TLC.  With the default settings the times     *)
(* that matter are 40.5 > 40 >= 30.5 > 5 > 0.5 > 0 seconds, one class each. *)
EXTENDS Sentencing, TLC

CONSTANTS mild, hell

MCPosition == mild :> 0 @@ hell :> 1
=============================================================================

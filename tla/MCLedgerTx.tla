------------------------------ MODULE MCLedgerTx ------------------------------
(***************************************************************************)
(* Instances of LedgerTx for TLC: sessions of two images, the older one    *)
(* with the lower cap, and one sweeper.  Bounds: the calls, which are      *)
(* never deleted, and the amounts.                                         *)
(***************************************************************************)
EXTENDS LedgerTx, TLC

CONSTANTS worker1, worker2, sweep, slot1

MCCallId == 1..2
MCKey == {1}
MCEst == {1}
MCCharge == {2}
MCCapOf == (worker1 :> 1) @@ (worker2 :> 2) @@ (sweep :> 2)
=============================================================================

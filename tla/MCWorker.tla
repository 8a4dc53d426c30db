------------------------------- MODULE MCWorker -------------------------------
(***************************************************************************)
(* Three settlements, two of which fit one transaction.                    *)
(***************************************************************************)
EXTENDS SettlementWorker, TLC

CONSTANTS u1, u2, u3

SizeDef == (u1 :> 1) @@ (u2 :> 1) @@ (u3 :> 2)

=============================================================================

----------------------------- MODULE MCChargePull -----------------------------
(***************************************************************************)
(* Sponsored pull charges: one challenge, two different credentials for    *)
(* it, two handlers, and leases that run out while a handler is at work.   *)
(* The server co-signs as fee payer, so only the server can submit.        *)
(***************************************************************************)
EXTENDS ChargeRefinement, TLC

CONSTANTS c1, k1, k2, s1, s2, t1, t2

ChallengeOfDef == [k \in Credentials |-> c1]
SigOfDef == [k \in Credentials |-> IF k = k1 THEN s1 ELSE s2]
ExpiresAtDef == c1 :> 2

HandlerSymmetry == Permutations(Threads)

=============================================================================

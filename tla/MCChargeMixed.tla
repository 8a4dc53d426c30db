---------------------------- MODULE MCChargeMixed ----------------------------
(***************************************************************************)
(* Two challenges.  k1 and k2 present the same transaction, one for each   *)
(* challenge; k3 is a pull credential for the second challenge.  Which of  *)
(* the first two are push credentials is left to the configuration.        *)
(***************************************************************************)
EXTENDS ChargeRefinement, TLC

CONSTANTS c1, c2, k1, k2, k3, s1, s2, t1, t2

ChallengeOfDef == [k \in Credentials |-> IF k = k1 THEN c1 ELSE c2]
SigOfDef == [k \in Credentials |-> IF k = k3 THEN s2 ELSE s1]
ExpiresAtDef == [c \in {c1, c2} |-> 2]

HandlerSymmetry == Permutations(Threads)

=============================================================================

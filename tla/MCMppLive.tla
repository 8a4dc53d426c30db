------------------------------ MODULE MCMppLive ------------------------------
(***************************************************************************)
(* One pull charge with retries, and one activation of a subscription with *)
(* retries under two challenges, for the liveness properties.  A behaviour *)
(* is about one of them; the other stays as it starts.                     *)
(***************************************************************************)
EXTENDS ChargeRefinement, SubscriptionActivation, TLC

CONSTANTS c1, k1, s1, t1, t2, a1, p1, p2, q1, q2

VARIABLE intent

ChallengeOfDef == [k \in Credentials |-> c1]
SigOfDef == [k \in Credentials |-> s1]
ExpiresAtDef == [c \in Challenges |-> MaxTime]

Quiet ==
    /\ SubInit /\ binding = NoBinding /\ delegation = "absent"
    /\ landedAt = [a \in Activations |-> 0]

MCInit == intent \in {"charge", "subscription"} /\ Init /\ Quiet

MCNext ==
    /\ UNCHANGED intent
    /\ \/ intent = "charge" /\ Next /\ UNCHANGED subVars
       \/ intent = "subscription" /\ SubNext /\ UNCHANGED vars

MCSpec ==
    /\ MCInit /\ [][MCNext]_<<vars, subVars, intent>>
    /\ (intent = "charge" /\ Fairness) \/ (intent = "subscription" /\ SubFairness)

=============================================================================

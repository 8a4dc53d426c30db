------------------------------- MODULE MCClaims -------------------------------
(***************************************************************************)
(* The two places that claim a signature key by key: three calls for one   *)
(* signature of the ledger, beside replicas of the previous release, and   *)
(* two requests over an activation that landed and the one that follows it *)
(* when its delegation has lapsed.  They share no key, so a behaviour is   *)
(* about one of them; the other stays as it starts.                        *)
(***************************************************************************)
EXTENDS ConsumedSignatures, SubscriptionActivation, TLC

CONSTANTS c1, c2, c3, o1, o2, a1, a2, p1, p2, q1, q2

VARIABLE claims

Quiet ==
    /\ SubInit /\ binding = NoBinding /\ delegation = "absent"
    /\ landedAt = [a \in Activations |-> 0]

MCInit ==
    \/ claims = "ledger" /\ Init /\ Quiet
    \/ /\ claims = "subscription" /\ Init /\ faulty = FALSE
       /\ SubInit /\ landedAt[a1] = 1 /\ landedAt[a2] = 0 /\ delegation = "live"
       /\ binding = NoBinding \/ binding.slot = 0

MCNext ==
    /\ UNCHANGED claims
    /\ \/ claims = "ledger" /\ Next /\ UNCHANGED subVars
       \/ claims = "subscription" /\ SubNext /\ UNCHANGED vars

MCSpec == MCInit /\ [][MCNext]_<<vars, subVars, claims>>

Alike ==
    Permutations(Callers) \cup Permutations(OldReplicas)
      \cup Permutations(Presenters) \cup Permutations(SubChallenges)

=============================================================================

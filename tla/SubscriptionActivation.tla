------------------------ MODULE SubscriptionActivation ------------------------
(***************************************************************************)
(* Activations of one subscription (mpp/server/subscription.rs), one payer *)
(* and one plan.  The payer signs an activation transaction that creates   *)
(* the delegation account and pays the first period; a request presents it *)
(* under a challenge.  The server reserves the signature, broadcasts it,   *)
(* and binds the activation to the challenge that may use the subscription *)
(* from then on: a record per activation, written once, and the binding of *)
(* the subscription, moved by compare-and-set to the activation that       *)
(* landed last.  When a delegation has lapsed and was closed the payer     *)
(* activates anew, while retries of the old activation still arrive.       *)
(***************************************************************************)
EXTENDS Integers

CONSTANTS
    Presenters,        \* requests in flight, over all replicas of the server
    Activations,       \* activation transactions of the payer
    SubChallenges,     \* challenges the server issued
    NoChallenge,       \* an absent reservation
    NoBinding,         \* an absent binding or record
    FirstSlot,         \* the slot the cluster is in when the server starts
    PublishAttempts,   \* PUBLISH_ATTEMPTS
    MaxMishaps         \* bound on requests that stop, sends lost or refused
                       \* for no reason and reads from a node that lags

(***************************************************************************)
(* A binding names its activation, the challenge it belongs to and the     *)
(* slot the activation landed in, 0 in one a previous release wrote.       *)
(***************************************************************************)
Bindings == [act : Activations, ch : SubChallenges, slot : Nat]

ASSUME SubscriptionAssumption ==
    /\ NoChallenge \notin SubChallenges /\ NoBinding \notin Bindings
    /\ Activations # {}
    /\ {FirstSlot, PublishAttempts} \subseteq Nat \ {0} /\ MaxMishaps \in Nat

VARIABLES
    delegation,   \* the delegation account: "absent", "live" or "lapsed"
    slot,         \* the slot of the cluster
    status,       \* each activation: "unsent", "flying", "landed", or "gone" once it
                  \* failed or its blockhash expired
    landedAt,     \* the slot it landed in, 0 before
    reserved,     \* the challenge that reserved its signature
    record,       \* its activation-binding record
    binding,      \* the binding of the subscription
    work,         \* what each request does and has read
    proven,       \* history: the challenges given a receipt for an activation
    mishaps       \* mishaps left

cluster == <<delegation, slot, status, landedAt>>
store == <<reserved, record, binding>>
subVars == <<cluster, store, work, proven, mishaps>>

Steps == {"idle", "reserve", "reserved", "send", "poll", "release", "fetch",
          "current", "claim", "publish", "answer", "access"}

Works == [at : Steps, act : Activations, ch : SubChallenges \cup {NoChallenge}, exists : BOOLEAN,
          cur : Bindings \cup {NoBinding}, bound : Bindings \cup {NoBinding},
          tries : Nat]

SubTypeOK ==
    /\ delegation \in {"absent", "live", "lapsed"}
    /\ slot \in Nat \ {0}
    /\ status \in [Activations -> {"unsent", "flying", "landed", "gone"}]
    /\ landedAt \in [Activations -> Nat]
    /\ reserved \in [Activations -> SubChallenges \cup {NoChallenge}]
    /\ record \in [Activations -> Bindings \cup {NoBinding}]
    /\ binding \in Bindings \cup {NoBinding}
    /\ work \in [Presenters -> Works]
    /\ proven \in [Activations -> SUBSET SubChallenges]
    /\ mishaps \in 0..MaxMishaps

Idle ==
    [at |-> "idle", act |-> CHOOSE a \in Activations : TRUE, ch |-> NoChallenge,
     exists |-> FALSE, cur |-> NoBinding, bound |-> NoBinding, tries |-> 0]

(***************************************************************************)
(* What a server may find when it starts: nothing bound yet, the binding   *)
(* of the last activation with its record, or one of a previous release,   *)
(* which recorded no slot and kept no record per activation.  Receipts     *)
(* were given for activations bound by then.                               *)
(***************************************************************************)
SubInit ==
    /\ slot = FirstSlot
    /\ landedAt \in [Activations -> 0 .. FirstSlot - 1]
    /\ status = [a \in Activations |-> IF landedAt[a] > 0 THEN "landed" ELSE "unsent"]
    /\ delegation \in {"absent", "live", "lapsed"}
    /\ delegation # "absent" => \E a \in Activations : landedAt[a] > 0
    /\ proven \in [Activations -> SUBSET SubChallenges]
    /\ \A a \in Activations : \A c, d \in proven[a] : c = d /\ landedAt[a] > 0
    /\ \/ /\ binding = NoBinding /\ proven = [a \in Activations |-> {}]
          /\ record = [a \in Activations |-> NoBinding]
       \/ /\ binding \in [act : Activations, ch : SubChallenges, slot : 0 .. FirstSlot - 1]
          /\ landedAt[binding.act] > 0 /\ binding.slot \in {0, landedAt[binding.act]}
          /\ binding.ch \in proven[binding.act]
          /\ \A a \in Activations \ {binding.act} : landedAt[a] < landedAt[binding.act]
          /\ record = [a \in Activations |->
                         IF a = binding.act /\ binding.slot > 0 THEN binding ELSE NoBinding]
    /\ reserved = [a \in Activations |-> NoChallenge]
    /\ work = [r \in Presenters |-> Idle]
    /\ mishaps = MaxMishaps

-----------------------------------------------------------------------------
Does(r, w) == work' = [work EXCEPT ![r] = w]

Goes(r, step) == Does(r, [work[r] EXCEPT !.at = step])

Mishap == mishaps > 0 /\ mishaps' = mishaps - 1

(***************************************************************************)
(* verify_credential with an activation transaction: whether the           *)
(* delegation account exists is read first.                                *)
(***************************************************************************)
PresentActivation(r, a, c) ==
    /\ work[r].at = "idle"
    /\ \E exists \in BOOLEAN :
         /\ Does(r, [Idle EXCEPT !.at = "reserve", !.act = a, !.ch = c, !.exists = exists])
         /\ \/ exists = (delegation # "absent") /\ UNCHANGED mishaps
            \/ exists # (delegation # "absent") /\ Mishap
    /\ UNCHANGED <<cluster, store, proven>>

(***************************************************************************)
(* Where the delegation exists the activation has to have landed           *)
(* (ensure_activation_landed), and it does not matter who holds the        *)
(* reservation (try_reserve_activation_signature).                         *)
(***************************************************************************)
Landed(a) == status[a] = "landed"

Onward(r) == Goes(r, IF work[r].exists THEN "fetch" ELSE "send")

ReserveSignature(r) ==
    LET a == work[r].act IN
    /\ work[r].at = "reserve"
    /\ \/ /\ work[r].exists /\ ~Landed(a)
          /\ Does(r, Idle) /\ UNCHANGED reserved
       \/ /\ work[r].exists => Landed(a)
          /\ reserved[a] = NoChallenge
          /\ reserved' = [reserved EXCEPT ![a] = work[r].ch]
          /\ Onward(r)
       \/ /\ work[r].exists => Landed(a)
          /\ reserved[a] # NoChallenge
          /\ Goes(r, "reserved") /\ UNCHANGED reserved
    /\ UNCHANGED <<cluster, record, binding, proven, mishaps>>

ReservationRefuses(r) ==
    /\ work[r].at = "reserved"
    /\ IF reserved[work[r].act] = work[r].ch THEN Onward(r) ELSE Does(r, Idle)
    /\ UNCHANGED <<cluster, store, proven, mishaps>>

ReadReservation(r) ==
    /\ work[r].at = "reserved"
    /\ IF work[r].exists \/ reserved[work[r].act] = work[r].ch
       THEN Onward(r) ELSE Does(r, Idle)
    /\ UNCHANGED <<cluster, store, proven, mishaps>>

(***************************************************************************)
(* broadcast_and_confirm.  A node may refuse for reasons of its own while  *)
(* an earlier send of the same bytes is under way, and a blockhash may be  *)
(* seen to expire before the landing is seen.                              *)
(***************************************************************************)
Handed(a) ==
    status' = [status EXCEPT ![a] = IF status[a] = "unsent" THEN "flying" ELSE status[a]]

BroadcastAccepted(r) ==
    /\ work[r].at = "send" /\ status[work[r].act] \in {"unsent", "flying"}
    /\ Handed(work[r].act) /\ Goes(r, "poll")
    /\ UNCHANGED <<delegation, slot, landedAt, store, proven, mishaps>>

BroadcastRefused(r) ==
    /\ work[r].at = "send" /\ Goes(r, "release")
    /\ \/ status[work[r].act] \in {"landed", "gone"} /\ UNCHANGED mishaps
       \/ delegation # "absent" /\ UNCHANGED mishaps
       \/ Mishap
    /\ UNCHANGED <<cluster, store, proven>>

BroadcastLost(r) ==
    /\ work[r].at = "send" /\ Does(r, Idle) /\ Mishap
    /\ Handed(work[r].act)
    /\ UNCHANGED <<delegation, slot, landedAt, store, proven>>

PollActivation(r) ==
    /\ work[r].at = "poll"
    /\ \/ status[work[r].act] = "landed" /\ Goes(r, "fetch") /\ UNCHANGED mishaps
       \/ status[work[r].act] = "gone" /\ Goes(r, "release")
          /\ UNCHANGED mishaps
       \/ status[work[r].act] \in {"flying", "landed"} /\ Goes(r, "release") /\ Mishap
    /\ UNCHANGED <<cluster, store, proven>>

(***************************************************************************)
(* A transaction taken for one that cannot land gives its reservation up,  *)
(* whichever request made it.                                              *)
(***************************************************************************)
ReleaseReservation(r) ==
    /\ work[r].at = "release" /\ Does(r, Idle)
    /\ reserved' = [reserved EXCEPT ![work[r].act] = NoChallenge]
    /\ UNCHANGED <<cluster, record, binding, proven, mishaps>>

-----------------------------------------------------------------------------
(***************************************************************************)
(* bind_confirmed_activation: the delegation has to be live, paid for the  *)
(* current period and neither cancelled nor expired, then                  *)
(* publish_activation_binding reads the binding, ...                       *)
(***************************************************************************)
Live == delegation = "live"

FetchDelegation(r) ==
    /\ work[r].at = "fetch"
    /\ IF Live THEN Goes(r, "current") ELSE Does(r, Idle)
    /\ UNCHANGED <<cluster, store, proven, mishaps>>

ReadBinding(r) ==
    /\ work[r].at = "current"
    /\ Does(r, [work[r] EXCEPT !.at = "claim", !.cur = binding])
    /\ UNCHANGED <<cluster, store, proven, mishaps>>

(***************************************************************************)
(* ... claims the activation unless it is claimed, with the binding of a   *)
(* previous release if that is this activation's, ...  A record is written *)
(* once, so reading it and writing it if absent are one step.              *)
(***************************************************************************)
Candidate(w) ==
    IF w.cur # NoBinding /\ w.cur.act = w.act THEN w.cur
    ELSE [act |-> w.act, ch |-> w.ch, slot |-> landedAt[w.act]]

ClaimOverwrites(r) ==
    /\ work[r].at = "claim"
    /\ record' = [record EXCEPT ![work[r].act] = Candidate(work[r])]
    /\ Does(r, [work[r] EXCEPT !.at = "publish", !.bound = Candidate(work[r])])
    /\ UNCHANGED <<cluster, reserved, binding, proven, mishaps>>

ClaimActivation(r) ==
    LET a == work[r].act
        kept == IF record[a] = NoBinding THEN Candidate(work[r]) ELSE record[a]
    IN
    /\ work[r].at = "claim"
    /\ record' = [record EXCEPT ![a] = kept]
    /\ Does(r, [work[r] EXCEPT !.at = "publish", !.bound = kept])
    /\ UNCHANGED <<cluster, reserved, binding, proven, mishaps>>

(***************************************************************************)
(* ... and publishes the record by compare-and-set.  The slot of a binding *)
(* that records none is looked up; one that RPC history no longer reaches  *)
(* is older than the activation, which it does reach.  A lost race reads   *)
(* the binding again.                                                      *)
(***************************************************************************)
SlotOf(b) == IF b.slot > 0 THEN b.slot ELSE landedAt[b.act]

SupersedesAlways(bound, cur) == TRUE

Supersedes(bound, cur) ==
    cur # NoBinding /\ cur.act # bound.act => SlotOf(cur) < SlotOf(bound)

Contended(r) ==
    LET w == work[r] IN
    IF w.tries + 1 < PublishAttempts
    THEN Does(r, [w EXCEPT !.cur = binding, !.tries = w.tries + 1])
    ELSE Does(r, Idle)

Publish(r) ==
    LET w == work[r] IN
    /\ w.at = "publish"
    /\ \/ w.cur = w.bound /\ Goes(r, "answer") /\ UNCHANGED binding
       \/ /\ w.cur # w.bound /\ ~Supersedes(w.bound, w.cur)
          /\ Does(r, Idle) /\ UNCHANGED binding
       \/ /\ w.cur # w.bound /\ Supersedes(w.bound, w.cur)
          /\ \/ binding = w.cur /\ binding' = w.bound /\ Goes(r, "answer")
             \/ binding # w.cur /\ Contended(r) /\ UNCHANGED binding
    /\ UNCHANGED <<cluster, reserved, record, proven, mishaps>>

(***************************************************************************)
(* Only the challenge the activation is bound to gets the receipt.         *)
(***************************************************************************)
Proves(a, c) == proven' = [proven EXCEPT ![a] = @ \cup {c}]

Answer(r) ==
    LET w == work[r] IN
    /\ w.at = "answer" /\ Does(r, Idle)
    /\ IF w.bound.ch = w.ch THEN Proves(w.act, w.ch) ELSE UNCHANGED proven
    /\ UNCHANGED <<cluster, store, mishaps>>

(***************************************************************************)
(* verify_access_credential: the proof is compared with the binding, and   *)
(* the delegation read after that has to be live.                          *)
(***************************************************************************)
Access(r, c) ==
    /\ work[r].at = "idle" /\ binding # NoBinding /\ binding.ch = c
    /\ Does(r, [Idle EXCEPT !.at = "access", !.ch = c, !.cur = binding])
    /\ UNCHANGED <<cluster, store, proven, mishaps>>

GrantAccess(r) ==
    /\ work[r].at = "access" /\ Does(r, Idle)
    /\ IF Live THEN Proves(work[r].cur.act, work[r].ch)
       ELSE UNCHANGED proven
    /\ UNCHANGED <<cluster, store, mishaps>>

-----------------------------------------------------------------------------
(***************************************************************************)
(* A request stops at an await, or a store or RPC call returns an error,   *)
(* before or after it took effect.                                         *)
(***************************************************************************)
Stops(r) ==
    /\ work[r].at # "idle" /\ Does(r, Idle) /\ Mishap
    /\ UNCHANGED <<cluster, store, proven>>

(***************************************************************************)
(* The cluster: an activation succeeds only while there is no delegation.  *)
(* A delegation lapses when it is cancelled or a period goes unpaid, and   *)
(* may be closed once it has lapsed.                                       *)
(***************************************************************************)
ActivationLands(a) ==
    /\ status[a] = "flying"
    /\ \/ /\ delegation = "absent" /\ delegation' = "live"
          /\ status' = [status EXCEPT ![a] = "landed"]
          /\ landedAt' = [landedAt EXCEPT ![a] = slot]
       \/ /\ delegation # "absent" /\ UNCHANGED <<delegation, landedAt>>
          /\ status' = [status EXCEPT ![a] = "gone"]
    /\ UNCHANGED <<slot, store, work, proven, mishaps>>

ActivationExpires(a) ==
    /\ status[a] \in {"unsent", "flying"}
    /\ status' = [status EXCEPT ![a] = "gone"]
    /\ UNCHANGED <<delegation, slot, landedAt, store, work, proven, mishaps>>

DelegationChanges ==
    /\ \/ delegation = "live" /\ delegation' = "lapsed" /\ UNCHANGED slot
       \/ delegation = "lapsed" /\ delegation' = "absent" /\ slot' = slot + 1
    /\ UNCHANGED <<status, landedAt, store, work, proven, mishaps>>

Serves(r) ==
    \/ ReserveSignature(r) \/ ReadReservation(r)
    \/ BroadcastAccepted(r) \/ BroadcastRefused(r) \/ BroadcastLost(r)
    \/ PollActivation(r) \/ ReleaseReservation(r) \/ FetchDelegation(r)
    \/ ReadBinding(r) \/ ClaimActivation(r) \/ Publish(r)
    \/ Answer(r) \/ GrantAccess(r)

SubNext ==
    \/ \E r \in Presenters : Serves(r) \/ Stops(r)
    \/ \E r \in Presenters, c \in SubChallenges :
         Access(r, c) \/ \E a \in Activations : PresentActivation(r, a, c)
    \/ \E a \in Activations : ActivationLands(a) \/ ActivationExpires(a)
    \/ DelegationChanges

SubSpec == SubInit /\ [][SubNext]_subVars

(***************************************************************************)
(* Fairness.  Requests run on, the cluster executes a transaction or       *)
(* retires its blockhash, and the payer keeps presenting its activation,   *)
(* under whichever challenge it was last offered.                          *)
(***************************************************************************)
PresentsAgain(a) == \E r \in Presenters, c \in SubChallenges : PresentActivation(r, a, c)

SubFairness ==
    /\ \A r \in Presenters : WF_subVars(Serves(r))
    /\ \A a \in Activations :
         /\ WF_subVars(ActivationLands(a) \/ ActivationExpires(a))
         /\ SF_subVars(PresentsAgain(a))

-----------------------------------------------------------------------------
(***************************************************************************)
(* One activation, which paid once, is good for one challenge, whoever     *)
(* presents it, retries it or recovers it, and only if it landed.          *)
(***************************************************************************)
BoundOnce ==
    \A a \in Activations :
        \A c, d \in proven[a] : c = d /\ status[a] = "landed"

(***************************************************************************)
(* The binding of the subscription only moves to an activation that landed *)
(* in a later slot: a retry of a retired one never takes it back, however  *)
(* old the reads it works from.                                            *)
(***************************************************************************)
Advances ==
    binding' # binding =>
        /\ binding' # NoBinding
        /\ binding # NoBinding => landedAt[binding'.act] > landedAt[binding.act]

BindingAdvances == [][Advances]_subVars

(***************************************************************************)
(* An activation the payer paid for is bound in the end, or a later one    *)
(* is, unless the delegation it created lapses: a request that stopped at  *)
(* any point, and the challenge it carried, do not strand the payment.     *)
(***************************************************************************)
LandedIsBound ==
    \A a \in Activations :
        status[a] = "landed" ~>
            \/ delegation # "live"
            \/ binding # NoBinding /\ landedAt[binding.act] >= landedAt[a]

=============================================================================

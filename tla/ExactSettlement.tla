--------------------------- MODULE ExactSettlement ---------------------------
(***************************************************************************)
(* How an x402 server settles one `exact` payment (settle_exact of         *)
(* x402/server/exact.rs and send_and_confirm_settlement of core/rpc.rs):   *)
(* concurrent requests present the same signed transaction, or its         *)
(* signature, and share the consumed-signature ledger, whose claims are    *)
(* atomic here (ConsumedSignatures shows that they behave so).  The node   *)
(* may refuse a send, lose the answer, or lag behind the cluster.          *)
(***************************************************************************)
EXTENDS Integers, FiniteSets

CONSTANTS
    Requests,       \* handlers of requests that present this payment
    MaxActive,      \* bound on how many of them run at a time
    MaxCrashes,     \* bound on how often a handler stops half way
    NodeMayLag,     \* a status query may miss a transaction that landed
    StoreMayFail,   \* ledger calls may return an error
    Elsewhere       \* another server, with its own ledger, may send the bytes

ASSUME ExactAssumption ==
    /\ IsFiniteSet(Requests) /\ MaxActive \in Nat /\ MaxCrashes \in Nat
    /\ {NodeMayLag, StoreMayFail, Elsewhere} \subseteq BOOLEAN

VARIABLES
    entry,       \* the ledger's claim: "free", "pending" or "consumed"
    chain,       \* what the transaction did: "none", "ok" or "failed"
    inflight,    \* a node has the bytes and may land them
    fresh,       \* the transaction's blockhash is still valid
    pc,          \* where each request is in settle_exact
    prior,       \* PriorBroadcast: an earlier send may have reached a node
    neverSent,   \* never_sent of send_and_confirm_settlement
    crashes,     \* handlers stopped so far
    sentBy,      \* history: who handed the bytes to a node, "here" or "elsewhere"
    served,      \* history: how many requests were served
    calm         \* presentations do not overlap, the ledger does not fail and
                 \* nobody else sends the bytes, in this behaviour

outside == <<chain, inflight, fresh, sentBy>>
vars == <<entry, chain, inflight, fresh, pc, prior, neverSent, crashes,
          sentBy, served, calm>>

Phases == {"idle", "send", "status", "poll", "expired", "confirm",
           "unserved", "release"}

TypeOK ==
    /\ entry \in {"free", "pending", "consumed"}
    /\ chain \in {"none", "ok", "failed"}
    /\ inflight \in BOOLEAN /\ fresh \in BOOLEAN
    /\ pc \in [Requests -> Phases]
    /\ prior \in [Requests -> BOOLEAN] /\ neverSent \in [Requests -> BOOLEAN]
    /\ crashes \in 0..MaxCrashes
    /\ sentBy \subseteq {"here", "elsewhere"}
    /\ served \in Nat /\ calm \in BOOLEAN

Init ==
    /\ entry = "free" /\ chain = "none" /\ inflight = FALSE /\ fresh = TRUE
    /\ pc = [r \in Requests |-> "idle"]
    /\ prior = [r \in Requests |-> FALSE]
    /\ neverSent = [r \in Requests |-> FALSE]
    /\ crashes = 0 /\ sentBy = {} /\ served = 0
    /\ calm \in BOOLEAN

-----------------------------------------------------------------------------
To(r, p) == pc' = [pc EXCEPT ![r] = p]

(***************************************************************************)
(* What a status query may answer.                                         *)
(***************************************************************************)
Seen == {chain} \cup (IF NodeMayLag THEN {"none"} ELSE {})

LedgerFails == StoreMayFail /\ ~calm

Arrives(r) ==
    /\ pc[r] = "idle"
    /\ Cardinality({q \in Requests : pc[q] # "idle"}) <
         IF calm THEN 1 ELSE MaxActive

(***************************************************************************)
(* A signature proof: verified against the landed transaction, then        *)
(* consumed.                                                               *)
(***************************************************************************)
ConsumeSignature(r) ==
    /\ Arrives(r) /\ chain = "ok" /\ entry = "free"
    /\ entry' = "consumed"
    /\ \/ served' = served + 1
       \/ LedgerFails /\ UNCHANGED served
    /\ UNCHANGED <<outside, pc, prior, neverSent, crashes>>

(***************************************************************************)
(* A transaction proof claims its signature before it is sent.             *)
(***************************************************************************)
ClaimForgetsPrior(r) ==
    /\ Arrives(r) /\ entry \in {"free", "pending"} /\ entry' = "pending"
    /\ prior' = [prior EXCEPT ![r] = FALSE] /\ To(r, "send")
    /\ UNCHANGED <<outside, neverSent, crashes, served>>

ClaimPending(r) ==
    /\ Arrives(r)
    /\ entry \in {"free", "pending"} /\ entry' = "pending"
    /\ \/ prior' = [prior EXCEPT ![r] = (entry = "pending")] /\ To(r, "send")
       \/ LedgerFails /\ UNCHANGED <<pc, prior>>
    /\ UNCHANGED <<outside, neverSent, crashes, served>>

-----------------------------------------------------------------------------
(***************************************************************************)
(* send_and_confirm_settlement: send with preflight, then wait.            *)
(***************************************************************************)
Forwarded ==
    /\ fresh /\ inflight' = TRUE
    /\ sentBy' = sentBy \cup {"here"}
    /\ UNCHANGED <<chain, fresh>>

SendAccepted(r) ==
    /\ pc[r] = "send" /\ Forwarded /\ To(r, "poll")
    /\ UNCHANGED <<entry, prior, neverSent, crashes, served>>

(***************************************************************************)
(* The node answers with an error.  A preflight rejection does not forward *)
(* the bytes; any other refusal may have.                                  *)
(***************************************************************************)
SendRefused(r) ==
    /\ pc[r] = "send" /\ To(r, "status")
    /\ \E preflight \in BOOLEAN :
         /\ neverSent' = [neverSent EXCEPT ![r] = (preflight /\ ~prior[r])]
         /\ UNCHANGED outside \/ (~preflight /\ Forwarded)
    /\ UNCHANGED <<entry, prior, crashes, served>>

(***************************************************************************)
(* SettlementPending: the outcome is unknown and the claim is kept.        *)
(***************************************************************************)
Unknown(r) ==
    /\ To(r, "idle")
    /\ UNCHANGED <<entry, prior, neverSent, crashes, served>>

SendLost(r) ==
    /\ pc[r] = "send" /\ Unknown(r)
    /\ UNCHANGED outside \/ Forwarded

Branch(r, p) ==
    /\ To(r, p)
    /\ UNCHANGED <<entry, outside, prior, neverSent, crashes, served>>

StatusDisowns(r) ==
    /\ pc[r] = "status"
    /\ \/ "none" \in Seen
          /\ Branch(r, IF neverSent[r] THEN "release" ELSE "idle")
       \/ "failed" \in Seen /\ Branch(r, "release")
       \/ "ok" \in Seen /\ Branch(r, "unserved")

StatusAfterRefusal(r) ==
    /\ pc[r] = "status"
    /\ \/ "none" \in Seen
          /\ Branch(r, IF neverSent[r] THEN "release" ELSE "idle")
       \/ "failed" \in Seen /\ Branch(r, "release")
       \/ "ok" \in Seen /\ Branch(r, IF neverSent[r] THEN "unserved" ELSE "poll")
       \/ Branch(r, "idle")

Poll(r) ==
    /\ pc[r] = "poll"
    /\ \/ "ok" \in Seen /\ Branch(r, "confirm")
       \/ "failed" \in Seen /\ Branch(r, "release")
       \/ "none" \in Seen /\ ~fresh /\ Branch(r, "expired")
       \/ Branch(r, "idle")

PollExpired(r) ==
    /\ pc[r] = "expired"
    /\ \/ "none" \in Seen /\ Branch(r, "idle")
       \/ "failed" \in Seen /\ Branch(r, "release")
       \/ "ok" \in Seen /\ Branch(r, "poll")
       \/ Branch(r, "idle")

-----------------------------------------------------------------------------
(***************************************************************************)
(* settle_exact on the outcome.  confirm is a conditional swap: the caller *)
(* whose swap takes effect serves, everyone else reports the signature as  *)
(* consumed.  The release is conditional too, and its error is only logged.*)
(***************************************************************************)
ConfirmBlind(r) ==
    /\ pc[r] = "confirm" /\ To(r, "idle")
    /\ entry' = "consumed" /\ served' = served + 1
    /\ UNCHANGED <<outside, prior, neverSent, crashes>>

Swapped == IF entry = "pending" THEN "consumed" ELSE entry

Confirm(r) ==
    /\ pc[r] = "confirm" /\ To(r, "idle")
    /\ \/ /\ entry' = Swapped
          /\ served' = (IF entry = "pending" THEN served + 1 ELSE served)
       \/ LedgerFails /\ entry' \in {entry, Swapped} /\ UNCHANGED served
    /\ UNCHANGED <<outside, prior, neverSent, crashes>>

ConfirmUnserved(r) ==
    /\ pc[r] = "unserved" /\ To(r, "idle")
    /\ entry' = Swapped \/ (LedgerFails /\ UNCHANGED entry)
    /\ UNCHANGED <<outside, prior, neverSent, crashes, served>>

ReleasePending(r) ==
    /\ pc[r] = "release" /\ To(r, "idle")
    /\ \/ entry' = (IF entry = "pending" THEN "free" ELSE entry)
       \/ LedgerFails /\ UNCHANGED entry
    /\ UNCHANGED <<outside, prior, neverSent, crashes, served>>

Crash(r) ==
    /\ pc[r] # "idle" /\ crashes < MaxCrashes
    /\ crashes' = crashes + 1 /\ To(r, "idle")
    /\ UNCHANGED <<entry, outside, prior, neverSent, served>>

Request(r) ==
    \/ ConsumeSignature(r) \/ ClaimPending(r) \/ SendAccepted(r)
    \/ SendRefused(r) \/ SendLost(r) \/ StatusAfterRefusal(r)
    \/ Poll(r) \/ PollExpired(r) \/ Confirm(r) \/ ConfirmUnserved(r)
    \/ ReleasePending(r)

-----------------------------------------------------------------------------
(***************************************************************************)
(* The cluster, its clock and the other server.                            *)
(***************************************************************************)
locals == <<entry, pc, prior, neverSent, crashes, served>>

Land ==
    /\ inflight /\ fresh /\ chain = "none"
    /\ \E o \in {"ok", "failed"} : chain' = o
    /\ UNCHANGED <<locals, inflight, fresh, sentBy>>

BlockhashExpires ==
    /\ fresh /\ fresh' = FALSE
    /\ UNCHANGED <<locals, chain, inflight, sentBy>>

SentElsewhere ==
    /\ Elsewhere /\ ~calm /\ fresh /\ "elsewhere" \notin sentBy
    /\ inflight' = TRUE /\ sentBy' = sentBy \cup {"elsewhere"}
    /\ UNCHANGED <<locals, chain, fresh>>

Next ==
    /\ \/ \E r \in Requests : Request(r) \/ Crash(r)
       \/ Land \/ BlockhashExpires \/ SentElsewhere
    /\ UNCHANGED calm

Spec == Init /\ [][Next]_vars

-----------------------------------------------------------------------------
(***************************************************************************)
(* One payment serves one request, and only if the cluster executed it,    *)
(* whatever is presented concurrently, resumed, crashed or settled         *)
(* elsewhere.                                                              *)
(***************************************************************************)
OneServed == served <= 1

ServedIsPaid == served > 0 => chain = "ok"

ServedOnce == OneServed /\ ServedIsPaid

(***************************************************************************)
(* release_pending gives the claim back only when the payment moved        *)
(* nothing and never will: the bytes failed on chain, or no node has them. *)
(* A request that overlaps another's send, or another server's, can get a  *)
(* preflight rejection for bytes a node already holds.                     *)
(***************************************************************************)
ReleaseIsSafe ==
    [][calm /\ entry = "pending" /\ entry' = "free" => chain = "failed" \/ ~inflight]_vars

(***************************************************************************)
(* Fairness: handlers run on, the payer presents an unserved payment       *)
(* again, and the node neither loses every answer nor lags for ever.       *)
(* Landing is not assumed.                                                 *)
(***************************************************************************)
Fairness ==
    /\ WF_vars(UNCHANGED calm /\ \E r \in Requests : ClaimPending(r))
    /\ \A r \in Requests :
         /\ WF_vars(pc[r] # "idle" /\ Request(r) /\ UNCHANGED calm)
         /\ SF_vars((SendAccepted(r) \/ SendRefused(r)) /\ UNCHANGED calm)
         /\ SF_vars(StatusAfterRefusal(r) /\ pc'[r] # "idle" /\ UNCHANGED calm)
         /\ SF_vars(PollExpired(r) /\ pc'[r] = "poll" /\ UNCHANGED calm)
         /\ SF_vars(Poll(r) /\ pc'[r] = "confirm" /\ UNCHANGED calm)

FairSpec == Spec /\ Fairness

(***************************************************************************)
(* A payment this server sent and the cluster executed is served in the    *)
(* end to a payer who keeps presenting it, although sends, answers and     *)
(* handlers are lost on the way, if its presentations do not overlap.      *)
(***************************************************************************)
PaidIsServed == (calm /\ chain = "ok") ~> served > 0

=============================================================================

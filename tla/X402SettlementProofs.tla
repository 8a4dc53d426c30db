------------------------- MODULE X402SettlementProofs -------------------------
(***************************************************************************)
(* The two x402 schemes that settle one payment.  An `exact` payment       *)
(* serves one request, and only once it is paid, for any number of         *)
(* concurrent requests, crashes, store errors and node lags, and its claim *)
(* is given back only for bytes that failed or were never sent.  An `upto` *)
(* authorization charges only for a response that is not withheld, and one *)
(* server releases one response for it.                                    *)
(***************************************************************************)
EXTENDS ExactSettlement, UptoSettlement, FiniteSetTheorems, TLAPS

-----------------------------------------------------------------------------
(***************************************************************************)
(* A served payment keeps the ledger at "consumed", which no call leaves,  *)
(* and a request confirms only what it saw land.                           *)
(***************************************************************************)
ServedIsConsumed == served > 0 => entry = "consumed"

ConfirmedLanded == \A r \in Requests : pc[r] = "confirm" => chain = "ok"

ExactInv ==
    /\ TypeOK /\ OneServed /\ ServedIsPaid
    /\ ServedIsConsumed /\ ConfirmedLanded

(***************************************************************************)
(* The invariant holds when the server starts.                             *)
(***************************************************************************)
LEMMA ExactInit == Init => ExactInv
<1> SUFFICES ASSUME Init PROVE ExactInv
  OBVIOUS
<1>1. /\ pc \in [Requests -> Phases]
      /\ crashes \in 0..MaxCrashes /\ served \in Nat
  BY ExactAssumption DEF Init, Phases
<1>2. /\ inflight \in BOOLEAN /\ fresh \in BOOLEAN /\ calm \in BOOLEAN
      /\ prior \in [Requests -> BOOLEAN] /\ neverSent \in [Requests -> BOOLEAN]
      /\ sentBy \subseteq {"here", "elsewhere"}
  BY Zenon DEF Init
<1>3. /\ entry \in {"free", "pending", "consumed"}
      /\ chain \in {"none", "ok", "failed"}
  BY DEF Init
<1>4. OneServed /\ ServedIsPaid /\ ServedIsConsumed /\ ConfirmedLanded
  BY DEF Init, OneServed, ServedIsPaid, ServedIsConsumed, ConfirmedLanded
<1>5. QED
  BY <1>1, <1>2, <1>3, <1>4 DEF ExactInv, TypeOK

(***************************************************************************)
(* Every step of a request keeps the invariant.                            *)
(***************************************************************************)
LEMMA RequestStep ==
  ASSUME ExactInv, NEW r \in Requests, Request(r) \/ Crash(r),
         UNCHANGED calm
  PROVE  ExactInv'
<1> USE DEF ExactInv, TypeOK, OneServed, ServedIsPaid, ServedIsConsumed,
            ConfirmedLanded, Phases, To, outside
<1>1. CASE ConsumeSignature(r)
  BY <1>1 DEF ConsumeSignature
<1>2. CASE ClaimPending(r)
  BY <1>2 DEF ClaimPending
<1>3. CASE SendAccepted(r)
  BY <1>3 DEF SendAccepted, Forwarded
<1>4. CASE SendRefused(r)
  BY <1>4 DEF SendRefused, Forwarded
<1>5. CASE SendLost(r)
  BY <1>5 DEF SendLost, Unknown, Forwarded
<1>6. CASE StatusAfterRefusal(r)
  BY <1>6 DEF StatusAfterRefusal, Branch
<1>7. CASE Poll(r)
  BY <1>7 DEF Poll, Branch, Seen
<1>8. CASE PollExpired(r)
  BY <1>8 DEF PollExpired, Branch
<1>9. CASE Confirm(r)
  BY <1>9 DEF Confirm, Swapped
<1>10. CASE ConfirmUnserved(r)
  BY <1>10 DEF ConfirmUnserved, Swapped
<1>11. CASE ReleasePending(r)
  BY <1>11 DEF ReleasePending
<1>12. CASE Crash(r)
  BY <1>12, ExactAssumption DEF Crash
<1>13. QED
  BY <1>1, <1>2, <1>3, <1>4, <1>5, <1>6, <1>7, <1>8, <1>9, <1>10, <1>11,
     <1>12 DEF Request

(***************************************************************************)
(* So does every step of the cluster and of the other server.              *)
(***************************************************************************)
LEMMA OutsideStep ==
  ASSUME ExactInv, Land \/ BlockhashExpires \/ SentElsewhere,
         UNCHANGED calm
  PROVE  ExactInv'
  BY DEF ExactInv, TypeOK, OneServed, ServedIsPaid, ServedIsConsumed,
     ConfirmedLanded, Phases, Land, BlockhashExpires, SentElsewhere, locals

(***************************************************************************)
(* The invariant is inductive.                                             *)
(***************************************************************************)
THEOREM ExactInvariant == Spec => []ExactInv
<1>1. ExactInv /\ [Next]_vars => ExactInv'
  <2>1. ASSUME ExactInv, Next PROVE ExactInv'
    BY <2>1, RequestStep, OutsideStep DEF Next
  <2>2. ASSUME ExactInv, UNCHANGED vars PROVE ExactInv'
    BY <2>2 DEF vars, ExactInv, TypeOK, OneServed, ServedIsPaid,
       ServedIsConsumed, ConfirmedLanded
  <2>3. QED
    BY <2>1, <2>2
<1>2. QED
  BY ExactInit, <1>1, PTL DEF Spec

(***************************************************************************)
(* The state stays well typed: a claim is free, pending or consumed,       *)
(* whatever order the releases and confirmations arrive in.                *)
(***************************************************************************)
THEOREM ExactTyped == Spec => []TypeOK
<1>1. ExactInv => TypeOK
  BY DEF ExactInv
<1>2. QED
  BY ExactInvariant, <1>1, PTL

(***************************************************************************)
(* One payment serves at most one request, and only if the cluster         *)
(* executed it: settle_exact claims before it sends and confirms with a    *)
(* conditional swap, although the node's answers may be lost, late or      *)
(* wrong about the transaction's absence.                                  *)
(***************************************************************************)
THEOREM ExactServesOnce == Spec => []ServedOnce
<1>1. ExactInv => ServedOnce
  BY DEF ExactInv, ServedOnce
<1>2. QED
  BY ExactInvariant, <1>1, PTL

(***************************************************************************)
(* While presentations do not overlap: a claim that is free, or that its   *)
(* holder may still give back, is for bytes no node has or that failed.    *)
(***************************************************************************)
Clean == ~inflight \/ chain = "failed"

CleanAt(r) ==
    /\ pc[r] # "idle" => entry # "free"
    /\ pc[r] = "send" => prior[r] \/ Clean
    /\ pc[r] = "status" => ~neverSent[r] \/ Clean
    /\ pc[r] = "release" => Clean

CalmInv ==
    calm => /\ \A q, r \in Requests : pc[q] # "idle" /\ pc[r] # "idle" => q = r
            /\ entry = "free" => Clean
            /\ \A r \in Requests : CleanAt(r)

LEMMA ArrivesAlone ==
  ASSUME NEW r \in Requests, calm, Arrives(r)
  PROVE  \A q \in Requests : pc[q] = "idle"
<1> DEFINE S == {q \in Requests : pc[q] # "idle"}
<1>1. Cardinality(S) < 1
  BY DEF Arrives
<1>2. IsFiniteSet(S)
  BY ExactAssumption, FS_Subset
<1>3. Cardinality(S) = 0
  BY <1>1, <1>2, FS_CardinalityType
<1>4. S = {}
  BY <1>2, <1>3, FS_EmptySet
<1>5. QED
  BY <1>4

LEMMA CalmInit == Init => CalmInv
BY DEF Init, CalmInv, CleanAt, Clean

(***************************************************************************)
(* Every step keeps it: a claimer that did not find the claim free never   *)
(* takes a refusal for its own, and only its own send can follow a claim.  *)
(***************************************************************************)
LEMMA CalmStep == TypeOK /\ CalmInv /\ [Next]_vars => CalmInv'
<1> SUFFICES ASSUME TypeOK, CalmInv, [Next]_vars, calm' PROVE CalmInv'
  BY DEF CalmInv
<1>0. UNCHANGED calm
  BY DEF Next, vars
<1>1. /\ calm /\ \A q, r \in Requests : pc[q] # "idle" /\ pc[r] # "idle" => q = r
      /\ entry = "free" => Clean
      /\ \A r \in Requests : CleanAt(r)
  BY <1>0 DEF CalmInv
<1>2. ~LedgerFails
  BY <1>1 DEF LedgerFails
<1>3. ASSUME NEW r \in Requests, Request(r) \/ Crash(r) PROVE CalmInv'
  <2> USE DEF TypeOK, Phases, To, outside
  <2>1. ASSUME \A q \in Requests : q # r => pc'[q] = "idle", entry' = "free" => Clean',
               CleanAt(r)'
        PROVE  CalmInv'
    BY <2>1 DEF CalmInv, CleanAt
  <2>2. pc[r] # "idle" => \A q \in Requests : q # r => pc[q] = "idle"
    BY <1>1
  <2>3. CASE ConsumeSignature(r)
    BY <1>1, <2>1, <2>3, ArrivesAlone DEF ConsumeSignature, CleanAt
  <2>4. CASE ClaimPending(r)
    <3>1. \A q \in Requests : pc[q] = "idle"
      BY <1>1, <2>4, ArrivesAlone DEF ClaimPending
    <3>2. prior'[r] = (entry = "pending")
      BY <1>2, <2>4 DEF ClaimPending
    <3>3. pc' = [pc EXCEPT ![r] = "send"] /\ entry \in {"free", "pending"} /\ entry' = "pending"
          /\ UNCHANGED <<chain, inflight>>
      BY <1>2, <2>4 DEF ClaimPending
    <3>4. prior'[r] \/ Clean'
      BY <1>1, <3>2, <3>3 DEF Clean
    <3>5. CleanAt(r)'
      BY <3>3, <3>4 DEF CleanAt
    <3>6. QED
      BY <2>1, <3>1, <3>3, <3>5
  <2>5. CASE SendAccepted(r)
    BY <1>1, <2>1, <2>2, <2>5 DEF SendAccepted, Forwarded, CleanAt
  <2>6. CASE SendRefused(r)
    <3>1. pc[r] = "send" /\ pc' = [pc EXCEPT ![r] = "status"] /\ UNCHANGED <<entry, prior>>
      BY <2>6 DEF SendRefused
    <3>2. PICK preflight \in BOOLEAN :
            /\ neverSent' = [neverSent EXCEPT ![r] = (preflight /\ ~prior[r])]
            /\ UNCHANGED outside \/ (~preflight /\ Forwarded)
      BY <2>6 DEF SendRefused
    <3>3. neverSent'[r] = (preflight /\ ~prior[r])
      BY <3>2
    <3>4. ~neverSent'[r] \/ Clean'
      <4>1. CASE ~preflight \/ prior[r]
        BY <3>3, <4>1
      <4>2. CASE preflight /\ ~prior[r]
        <5>1. Clean /\ UNCHANGED <<inflight, chain>>
          BY <1>1, <3>1, <3>2, <4>2 DEF CleanAt
        <5>2. QED
          BY <5>1 DEF Clean
      <4>3. QED
        BY <4>1, <4>2
    <3>5. CleanAt(r)' /\ entry' # "free"
      BY <1>1, <3>1, <3>4 DEF CleanAt
    <3>6. QED
      BY <2>1, <2>2, <3>1, <3>5
  <2>7. CASE SendLost(r)
    BY <1>1, <2>1, <2>2, <2>7 DEF SendLost, Unknown, CleanAt
  <2>8. ASSUME NEW p, pc[r] # "idle", Branch(r, p), p \in {"idle", "poll", "expired", "confirm",
                 "unserved"} \/ (p = "release" /\ Clean)
        PROVE  CalmInv'
    BY <1>1, <2>1, <2>2, <2>8 DEF Branch, CleanAt, Clean
  <2>9. "failed" \in Seen => Clean
    BY DEF Seen, Clean
  <2>10. CASE StatusAfterRefusal(r) \/ Poll(r) \/ PollExpired(r)
    <3>1. pc[r] = "status" => ~neverSent[r] \/ Clean
      BY <1>1 DEF CleanAt
    <3>2. QED
      BY <2>8, <2>9, <2>10, <3>1 DEF StatusAfterRefusal, Poll, PollExpired
  <2>11. CASE Confirm(r) \/ ConfirmUnserved(r)
    BY <1>1, <1>2, <2>1, <2>2, <2>11 DEF Confirm, ConfirmUnserved, Swapped, CleanAt
  <2>12. CASE ReleasePending(r)
    BY <1>1, <1>2, <2>1, <2>2, <2>12 DEF ReleasePending, CleanAt, Clean
  <2>13. CASE Crash(r)
    BY <1>1, <2>1, <2>2, <2>13 DEF Crash, CleanAt
  <2>14. QED
    BY <1>3, <2>3, <2>4, <2>5, <2>6, <2>7, <2>10, <2>11, <2>12, <2>13 DEF Request
<1>4. ASSUME UNCHANGED locals, Clean => Clean' PROVE CalmInv'
  BY <1>1, <1>4 DEF CalmInv, CleanAt, locals
<1>5. CASE Land
  BY <1>4, <1>5 DEF Land, Clean
<1>6. CASE BlockhashExpires
  BY <1>4, <1>6 DEF BlockhashExpires, Clean
<1>7. CASE UNCHANGED vars
  BY <1>4, <1>7 DEF vars, locals, Clean
<1>8. QED
  BY <1>1, <1>3, <1>5, <1>6, <1>7 DEF Next, SentElsewhere

(***************************************************************************)
(* While presentations do not overlap, release_pending gives the claim     *)
(* back only for bytes that failed or that no node has (ReleaseIsSafe): a  *)
(* request that resumed a pending claim knows of the earlier send through  *)
(* PriorBroadcast and never takes a preflight rejection for "never sent".  *)
(***************************************************************************)
THEOREM ReleaseHolds == Spec => ReleaseIsSafe
<1>1. CalmInv /\ [Next]_vars
        => [calm /\ entry = "pending" /\ entry' = "free" => chain = "failed" \/ ~inflight]_vars
  <2>1. SUFFICES ASSUME CalmInv, Next, calm, entry = "pending", entry' = "free"
                 PROVE  chain = "failed" \/ ~inflight
    BY DEF vars
  <2>2. PICK r \in Requests : ReleasePending(r)
    BY <2>1
    DEF Next, Request, Crash, ConsumeSignature, ClaimPending, SendAccepted, SendRefused,
        SendLost, Unknown, StatusAfterRefusal, Poll, PollExpired, Branch, Confirm,
        ConfirmUnserved, Swapped, Land, BlockhashExpires, SentElsewhere, locals
  <2>3. QED
    BY <2>1, <2>2 DEF ReleasePending, CalmInv, CleanAt, Clean
<1>2. Spec => []CalmInv
  <2>1. ExactInv => TypeOK
    BY DEF ExactInv
  <2>2. QED
    BY <2>1, ExactInvariant, CalmInit, CalmStep, PTL DEF Spec
<1>3. QED
  BY <1>1, <1>2, PTL DEF Spec, ReleaseIsSafe

-----------------------------------------------------------------------------
(***************************************************************************)
(* An `upto` request.  Its attempts are made in order, and the decision    *)
(* falls with the last inline one.                                         *)
(***************************************************************************)
Last == InlineTries + LaterTries

InOrder(r) == Sent(r) \in 0..Last /\ \A i \in Tries : fate[r][i] # "unsent" <=> i <= Sent(r)

Before == {"idle", "open", "confirm", "handler"}

Active == {"open", "confirm", "handler", "settle", "poll", "resolve"}

OnTrack(r) ==
    /\ stage[r] \in Before => Sent(r) = 0 /\ verdict[r] = "none" /\ unknown[r] = {}
    /\ stage[r] = "settle" => Sent(r) < Last /\ (verdict[r] = "none" <=> Sent(r) < InlineTries)
    /\ stage[r] = "poll" => Sent(r) > 0 /\ (verdict[r] = "none" <=> Sent(r) <= InlineTries)
    /\ stage[r] = "resolve" =>
         /\ InlineTries <= Sent(r) /\ Sent(r) < Last /\ verdict[r] \in {"none", "pending"}
         /\ verdict[r] = "none" => Sent(r) = InlineTries
    /\ verdict[r] = "none" => Sent(r) <= InlineTries /\ round[r] < InlineTries
    /\ verdict[r] = "receipt" => stage[r] = "over"

(***************************************************************************)
(* An inline attempt that may have charged the payer is one the server has *)
(* not given up on, so a withheld response has none.                       *)
(***************************************************************************)
MayCharge == {"flying", "sealing", "ok", "gone"}

Followed(r) ==
    \A i \in Tries :
        i <= InlineTries /\ fate[r][i] \in MayCharge =>
            \/ i \in unknown[r] \/ (stage[r] = "poll" /\ i = Sent(r))
            \/ stage[r] = "over" \/ verdict[r] \in {"receipt", "pending"}

Harmless(r) ==
    verdict[r] = "withheld" =>
        \A i \in Tries : i <= InlineTries => fate[r][i] \notin MayCharge

(***************************************************************************)
(* The channel holds what the attempt that landed settled.                 *)
(***************************************************************************)
Closed == {"sealed", "distributed"}

ChannelKept ==
    /\ openTx = "landed" <=> channel.status # "absent"
    /\ channel.status \notin Closed => channel.settled = 0
    /\ channel.settled > 0 => \E r \in UptoRequests, i \in Tries : fate[r][i] = "ok"

LandedIs(r) ==
    \A i \in Tries :
        fate[r][i] = "ok" => /\ channel.status \in Closed /\ channel.by = r
                             /\ channel.settled = Amount(r, i)

ReceiptLanded(r) == verdict[r] = "receipt" => \E i \in Tries : fate[r][i] = "ok"

RequestInv(r) ==
    InOrder(r) /\ OnTrack(r) /\ Followed(r) /\ Harmless(r) /\ LandedIs(r) /\ ReceiptLanded(r)

(***************************************************************************)
(* A server has one request at work, and once one has passed the           *)
(* confirmation of the open no other of its server gets there, unless a    *)
(* lagging node still shows no channel.                                    *)
(***************************************************************************)
Exclusive ==
    \A q, r \in UptoRequests :
        stage[q] \in Active /\ stage[r] \in Active /\ host[q] = host[r] => q = r

Past(r) == stage[r] \in {"handler", "settle", "poll", "resolve"} \/ verdict[r] # "none"

PastOpened == \A r \in UptoRequests : Past(r) => channel.status # "absent"

PastAlone ==
    ~lagged => \A q, r \in UptoRequests :
        Past(q) /\ host[q] = host[r] /\ q # r => stage[r] \notin Active /\ ~Past(r)

UptoInv ==
    /\ UptoTypeOK /\ ChannelKept /\ Exclusive /\ PastOpened /\ PastAlone
    /\ \A r \in UptoRequests : RequestInv(r)

-----------------------------------------------------------------------------
(***************************************************************************)
(* Attempts that were made in order are as many as the last one's number.  *)
(***************************************************************************)
LEMMA TriesInOrder ==
  ASSUME NEW f, NEW n \in 0..Last, \A i \in Tries : f[i] # "unsent" <=> i <= n
  PROVE  Cardinality({i \in Tries : f[i] # "unsent"}) = n
<1>1. InlineTries + LaterTries \in Nat
  BY UptoAssumption
<1>2. {i \in Tries : f[i] # "unsent"} = 1..n
  BY <1>1 DEF Tries, Last
<1>3. Cardinality(1..n) = n
  BY FS_Interval
<1>4. QED
  BY <1>2, <1>3

LEMMA UptoInitially == UptoInit => UptoInv
<1> SUFFICES ASSUME UptoInit PROVE UptoInv
  OBVIOUS
<1>nums. InlineTries \in Nat \ {0} /\ LaterTries \in Nat \ {0} /\ Deposit \in Nat /\ MaxFaults \in Nat
  BY UptoAssumption
<1>init. /\ \A r \in UptoRequests : stage[r] = "idle" /\ unknown[r] = {} /\ round[r] = 0
                                    /\ verdict[r] = "none"
                                    /\ \A i \in Tries : fate[r][i] = "unsent"
         /\ channel.status = "absent" /\ channel.settled = 0 /\ channel.by = "nobody"
         /\ openTx = "unsent"
  BY DEF UptoInit
<1>1. UptoTypeOK
  <2>1. {lagged, usable, late, payout, stopped} \subseteq BOOLEAN
    BY Zenon DEF UptoInit
  <2>2. busy = {host[r] : r \in {q \in UptoRequests : stage[q] \notin {"idle", "over"}}}
    BY <1>init DEF UptoInit
  <2>3. QED
    BY <1>nums, <2>1, <2>2 DEF UptoInit, UptoTypeOK
<1>2. ChannelKept /\ Exclusive /\ PastOpened /\ PastAlone
  BY <1>init DEF ChannelKept, Closed, Exclusive, Active, PastOpened, PastAlone, Past
<1>3. ASSUME NEW r \in UptoRequests PROVE RequestInv(r)
  <2>1. Sent(r) = 0 /\ InOrder(r)
    <3>1. 0 \in 0..Last /\ \A i \in Tries : fate[r][i] # "unsent" <=> i <= 0
      BY <1>init, <1>nums DEF Tries, Last
    <3>2. Sent(r) = 0
      BY <3>1, TriesInOrder DEF Sent
    <3>3. QED
      BY <3>1, <3>2 DEF InOrder
  <2>2. OnTrack(r)
    BY <1>init, <1>nums, <2>1 DEF OnTrack, Before
  <2>3. QED
    BY <1>init, <2>1, <2>2 DEF RequestInv, Followed, Harmless, LandedIs, ReceiptLanded, MayCharge
<1>4. QED
  BY <1>1, <1>2, <1>3 DEF UptoInv

(***************************************************************************)
(* A request that only moves before its handler, or that ends, keeps its   *)
(* invariant while a closed channel stays what it is.                      *)
(***************************************************************************)
ClosedStays ==
    channel.status \in Closed =>
        channel'.status \in Closed /\ channel'.by = channel.by
        /\ channel'.settled = channel.settled

Quiet(r) ==
    /\ verdict'[r] = verdict[r] /\ unknown'[r] = unknown[r] /\ fate'[r] = fate[r]
    /\ round'[r] = round[r] /\ actual'[r] = actual[r]
    /\ \/ stage'[r] \in {stage[r], "over"}
       \/ stage[r] \in Before /\ stage'[r] \in Before

LEMMA QuietKeeps ==
  ASSUME NEW r \in UptoRequests, RequestInv(r), Quiet(r), ClosedStays
  PROVE  RequestInv(r)'
<1> USE DEF RequestInv, Quiet
<1>1. Sent(r)' = Sent(r)
  BY DEF Sent
<1>2. InOrder(r)'
  BY <1>1 DEF InOrder
<1>3. OnTrack(r)'
  BY <1>1 DEF OnTrack, Before
<1>4. Followed(r)' /\ Harmless(r)'
  BY <1>1 DEF Followed, Harmless, Before
<1>5. LandedIs(r)' /\ ReceiptLanded(r)'
  BY DEF LandedIs, ReceiptLanded, ClosedStays, Amount
<1>6. QED
  BY <1>2, <1>3, <1>4, <1>5

(***************************************************************************)
(* Nobody starts and nobody passes the confirmation.                       *)
(***************************************************************************)
NoneJoins ==
    /\ UNCHANGED host /\ (lagged => lagged')
    /\ channel.status # "absent" => channel'.status # "absent"
    /\ \A r \in UptoRequests : /\ stage'[r] \in Active => stage[r] \in Active
                               /\ Past(r)' => Past(r)

LEMMA NoneJoinsKeeps ==
  ASSUME Exclusive, PastOpened, PastAlone, NoneJoins
  PROVE  Exclusive' /\ PastOpened' /\ PastAlone'
<1>1. Exclusive'
  BY DEF Exclusive, NoneJoins
<1>2. PastOpened'
  BY DEF PastOpened, NoneJoins
<1>3. PastAlone'
  <2>1. SUFFICES ASSUME ~lagged', NEW q \in UptoRequests, NEW r \in UptoRequests,
                        Past(q)', host[q] = host[r], q # r
                 PROVE  stage'[r] \notin Active /\ ~Past(r)'
    BY DEF PastAlone, NoneJoins
  <2>2. ~lagged /\ Past(q)
    BY <2>1 DEF NoneJoins
  <2>3. stage[r] \notin Active /\ ~Past(r)
    BY <2>1, <2>2 DEF PastAlone
  <2>4. QED
    BY <2>3 DEF NoneJoins
<1>4. QED
  BY <1>1, <1>2, <1>3

(***************************************************************************)
(* The in-flight guards are those of the requests at work.                 *)
(***************************************************************************)
Guards == {host[r] : r \in {q \in UptoRequests : stage[q] \notin {"idle", "over"}}}

LEMMA EndsFrees ==
  ASSUME UptoTypeOK, Exclusive, NEW r \in UptoRequests, stage[r] \notin {"idle", "over"},
         Ends(r), UNCHANGED host
  PROVE  busy' = Guards'
<1>1. stage' = [stage EXCEPT ![r] = "over"] /\ busy' = busy \ {host[r]} /\ busy = Guards
  BY DEF Ends, Stage, UptoTypeOK, Guards
<1>2. \A q \in UptoRequests : stage'[q] = IF q = r THEN "over" ELSE stage[q]
  BY <1>1 DEF UptoTypeOK
<1>3. \A q \in UptoRequests :
        stage[q] \notin {"idle", "over"} /\ host[q] = host[r] => q = r
  BY DEF Exclusive, Active, UptoTypeOK
<1>4. QED
  BY <1>1, <1>2, <1>3 DEF Guards

LEMMA GuardsStay ==
  ASSUME UptoTypeOK, UNCHANGED <<host, busy>>,
         \A r \in UptoRequests : stage'[r] \in {"idle", "over"} <=> stage[r] \in {"idle", "over"}
  PROVE  busy' = Guards'
  BY DEF Guards, UptoTypeOK

(***************************************************************************)
(* What the cluster, the payer and distribute_sealed do to the channel     *)
(* keeps every request's invariant: a closed channel keeps its amount.     *)
(***************************************************************************)
LEMMA OutsideKeeps ==
  ASSUME UptoInv,
         \/ DistributeSealed \/ PayoutLands \/ OpenMoves
         \/ PayerSeals \/ AccountChanges \/ DelayPasses
  PROVE  UptoInv'
<1> USE DEF UptoInv
<1>1. UNCHANGED <<host, lagged, requestVars, fate, stopped>>
  BY DEF DistributeSealed, PayoutLands, OpenMoves, PayerSeals, AccountChanges, DelayPasses
<1>2. /\ channel' \in [status : {"absent", "open", "sealed", "distributed"},
                       settled : 0..Deposit, by : UptoRequests \cup {"nobody", "payer"}]
      /\ openTx' \in {"unsent", "flying", "landed", "dead"}
      /\ openTx' = "landed" <=> channel'.status # "absent"
      /\ ClosedStays /\ channel'.settled = channel.settled
      /\ channel.status # "absent" => channel'.status # "absent"
      /\ channel'.status \notin Closed => channel.status \notin Closed
  <2> USE DEF UptoTypeOK, ClosedStays, Closed, ChannelKept
  <2>1. CASE UNCHANGED <<channel, openTx>>
    BY <2>1
  <2>2. CASE PayoutLands
    BY <2>2 DEF PayoutLands
  <2>3. CASE OpenMoves
    BY <2>3 DEF OpenMoves
  <2>4. CASE PayerSeals
    BY <2>4 DEF PayerSeals
  <2>5. QED
    BY <2>1, <2>2, <2>3, <2>4 DEF DistributeSealed, AccountChanges, DelayPasses
<1>3. faults' \in 0..MaxFaults
  BY UptoAssumption
  DEF DistributeSealed, PayoutLands, OpenMoves, PayerSeals, AccountChanges, DelayPasses,
      Fault, UptoTypeOK
<1>4. {lagged', usable', late', payout', stopped'} \subseteq BOOLEAN
  BY <1>1, Zenon
  DEF DistributeSealed, PayoutLands, OpenMoves, PayerSeals, AccountChanges, DelayPasses,
      UptoTypeOK, payerVars
<1>5. UptoTypeOK'
  <2>1. busy' = Guards'
    BY <1>1, GuardsStay DEF requestVars
  <2>2. QED
    BY <1>1, <1>2, <1>3, <1>4, <2>1 DEF UptoTypeOK, Guards, requestVars
<1>6. ChannelKept'
  BY <1>1, <1>2 DEF ChannelKept
<1>7. Exclusive' /\ PastOpened' /\ PastAlone'
  <2>1. NoneJoins
    BY <1>1, <1>2 DEF NoneJoins, Past, requestVars
  <2>2. QED
    BY <2>1, NoneJoinsKeeps
<1>8. ASSUME NEW r \in UptoRequests PROVE RequestInv(r)'
  <2>1. Quiet(r)
    BY <1>1 DEF Quiet, requestVars
  <2>2. QED
    BY <1>2, <2>1, QuietKeeps
<1>9. QED
  BY <1>5, <1>6, <1>7, <1>8

(***************************************************************************)
(* A stopped server ends its requests and drops their guards.              *)
(***************************************************************************)
LEMMA StopKeeps ==
  ASSUME UptoInv, NEW s \in Servers, Stop(s)
  PROVE  UptoInv'
<1> USE DEF UptoInv
<1>1. /\ UNCHANGED <<channel, openTx, host, lagged, actual, unknown, round, verdict, fate,
                     payerVars, payout>>
      /\ \A r \in UptoRequests :
           stage'[r] = IF host[r] = s /\ stage[r] # "idle" THEN "over" ELSE stage[r]
  BY DEF Stop
<1>2. busy' = Guards'
  BY <1>1 DEF Stop, Guards, UptoTypeOK
<1>3. UptoTypeOK'
  <2>1. {lagged', usable', late', payout', stopped'} \subseteq BOOLEAN
    BY <1>1, Zenon DEF Stop, UptoTypeOK, payerVars
  <2>2. stage' \in [UptoRequests -> {"idle", "open", "confirm", "handler", "settle",
                                     "poll", "resolve", "over"}]
    BY DEF Stop, UptoTypeOK
  <2>3. faults' \in 0..MaxFaults
    BY UptoAssumption DEF Stop, Fault, UptoTypeOK
  <2>4. QED
    BY <1>1, <1>2, <2>1, <2>2, <2>3 DEF UptoTypeOK, Guards
<1>4. ChannelKept'
  BY <1>1 DEF ChannelKept
<1>5. Exclusive' /\ PastOpened' /\ PastAlone'
  <2>1. NoneJoins
    BY <1>1 DEF NoneJoins, Past, Active
  <2>2. QED
    BY <2>1, NoneJoinsKeeps
<1>6. ASSUME NEW r \in UptoRequests PROVE RequestInv(r)'
  <2>1. Quiet(r) /\ ClosedStays
    BY <1>1 DEF Quiet, ClosedStays
  <2>2. QED
    BY <2>1, QuietKeeps
<1>7. QED
  BY <1>3, <1>4, <1>5, <1>6

(***************************************************************************)
(* The steps before the handler leave what a request has settled alone.    *)
(***************************************************************************)
LEMMA OpeningKeeps ==
  ASSUME UptoInv, NEW r \in UptoRequests, UNCHANGED opening,
         stage' = [stage EXCEPT ![r] = stage'[r]],
         stage'[r] \in {"open", "confirm", "handler", "over"}, stage[r] \in Before,
         openTx' \in {"unsent", "flying", "landed", "dead"}, faults' \in 0..MaxFaults,
         openTx' = "landed" <=> openTx = "landed",
         {lagged'} \subseteq BOOLEAN, busy' = Guards'
  PROVE  /\ UptoTypeOK' /\ ChannelKept'
         /\ \A q \in UptoRequests : RequestInv(q)' /\ (q # r => stage'[q] = stage[q])
<1> USE DEF UptoInv
<1>1. \A q \in UptoRequests : stage'[q] = IF q = r THEN stage'[r] ELSE stage[q]
  BY DEF UptoTypeOK
<1>2. UptoTypeOK'
  <2>1. {lagged', usable', late', payout', stopped'} \subseteq BOOLEAN
    BY Zenon DEF opening, payerVars, UptoTypeOK
  <2>2. stage' \in [UptoRequests -> {"idle", "open", "confirm", "handler", "settle",
                                     "poll", "resolve", "over"}]
    BY DEF UptoTypeOK
  <2>3. QED
    BY <2>1, <2>2 DEF UptoTypeOK, Guards, opening
<1>3. ChannelKept'
  BY DEF ChannelKept, opening
<1>4. ASSUME NEW q \in UptoRequests PROVE RequestInv(q)'
  <2>1. Quiet(q) /\ ClosedStays
    BY <1>1 DEF Quiet, ClosedStays, opening, Before
  <2>2. QED
    BY <2>1, QuietKeeps
<1>5. QED
  BY <1>1, <1>2, <1>3, <1>4

LEMMA ShowsTyped ==
  ASSUME UptoTypeOK, NEW s, Shows(s)
  PROVE  /\ {lagged'} \subseteq BOOLEAN /\ faults' \in 0..MaxFaults
         /\ (lagged => lagged') /\ (~lagged' => s = channel.status)
<1>1. {lagged'} \subseteq BOOLEAN
  BY Zenon DEF Shows, UptoTypeOK
<1>2. faults' \in 0..MaxFaults
  BY UptoAssumption DEF Shows, Fault, UptoTypeOK
<1>3. \/ s = channel.status /\ lagged' = lagged
      \/ lagged' = TRUE
  BY DEF Shows
<1>4. (lagged => lagged') /\ (~lagged' => s = channel.status)
  BY <1>3
<1>5. QED
  BY <1>1, <1>2, <1>4

(***************************************************************************)
(* A request starts on a server without another at work, and without a lag *)
(* only while no request has had its open confirmed.                       *)
(***************************************************************************)
LEMMA PrepareKeeps ==
  ASSUME UptoInv, NEW r \in UptoRequests, PrepareOpen(r)
  PROVE  UptoInv'
<1> USE DEF UptoInv
<1>1. /\ stage[r] = "idle" /\ host[r] \notin busy /\ UNCHANGED <<opening, openTx>>
      /\ stage' = [stage EXCEPT ![r] = "open"] /\ busy' = busy \cup {host[r]}
      /\ Shows("absent")
  BY DEF PrepareOpen, Stage
<1>2. \A q \in UptoRequests : stage'[q] = IF q = r THEN "open" ELSE stage[q]
  BY <1>1 DEF UptoTypeOK
<1>3. /\ {lagged'} \subseteq BOOLEAN /\ faults' \in 0..MaxFaults
      /\ (lagged => lagged') /\ (~lagged' => "absent" = channel.status)
  <2>1. UptoTypeOK
    OBVIOUS
  <2>2. QED
    BY <1>1, <2>1, ShowsTyped
<1>4. busy' = Guards'
  BY <1>1, <1>2 DEF Guards, UptoTypeOK, opening
<1>5. /\ UptoTypeOK' /\ ChannelKept'
      /\ \A q \in UptoRequests : RequestInv(q)'
  <2>1. /\ stage'[r] = "open" /\ stage[r] \in Before
        /\ stage' = [stage EXCEPT ![r] = stage'[r]]
    BY <1>1, <1>2 DEF Before
  <2>2. openTx' \in {"unsent", "flying", "landed", "dead"}
        /\ (openTx' = "landed" <=> openTx = "landed")
    BY <1>1 DEF UptoTypeOK
  <2>3. QED
    BY <1>1, <1>3, <1>4, <2>1, <2>2, OpeningKeeps
<1>6. UNCHANGED <<host, channel, verdict>>
  BY <1>1 DEF opening
<1>7. Exclusive'
  <2>1. \A q \in UptoRequests : stage[q] \in Active => host[q] # host[r]
    BY <1>1 DEF UptoTypeOK, Active
  <2>2. QED
    BY <1>2, <1>6, <2>1 DEF Exclusive
<1>8. \A q \in UptoRequests : Past(q)' => Past(q)
  BY <1>2, <1>6 DEF Past
<1>9. PastOpened'
  BY <1>6, <1>8 DEF PastOpened
<1>10. PastAlone'
  BY <1>3, <1>8 DEF PastAlone, PastOpened
<1>11. QED
  BY <1>5, <1>7, <1>9, <1>10

LEMMA SendKeeps ==
  ASSUME UptoInv, NEW r \in UptoRequests, SendOpen(r)
  PROVE  UptoInv'
<1> USE DEF UptoInv
<1>1. stage[r] = "open" /\ UNCHANGED <<opening, lagged>>
  BY DEF SendOpen
<1>2. \/ stage' = [stage EXCEPT ![r] = "confirm"] /\ UNCHANGED busy
      \/ Ends(r)
  BY DEF SendOpen, Stage
<1>3. /\ stage' = [stage EXCEPT ![r] = stage'[r]] /\ stage'[r] \in {"confirm", "over"}
      /\ \A q \in UptoRequests : stage'[q] = IF q = r THEN stage'[r] ELSE stage[q]
  BY <1>2 DEF UptoTypeOK, Ends, Stage
<1>4. UNCHANGED <<host, channel, verdict>>
  BY <1>1 DEF opening
<1>5. busy' = Guards'
  <2>1. CASE Ends(r)
    BY <1>1, <1>4, <2>1, EndsFrees
  <2>2. CASE stage' = [stage EXCEPT ![r] = "confirm"] /\ UNCHANGED busy
    <3>1. \A q \in UptoRequests :
            stage'[q] \in {"idle", "over"} <=> stage[q] \in {"idle", "over"}
      BY <1>1, <2>2 DEF UptoTypeOK
    <3>2. QED
      BY <1>4, <2>2, <3>1, GuardsStay
  <2>3. QED
    BY <1>2, <2>1, <2>2
<1>6. /\ UptoTypeOK' /\ ChannelKept'
      /\ \A q \in UptoRequests : RequestInv(q)'
  <2>1. openTx' \in {"unsent", "flying", "landed", "dead"}
        /\ (openTx' = "landed" <=> openTx = "landed")
    BY DEF UptoTypeOK, SendOpen, ForwardOpen
  <2>2. faults' \in 0..MaxFaults
    BY UptoAssumption DEF UptoTypeOK, SendOpen, Fault
  <2>3. {lagged'} \subseteq BOOLEAN
    BY <1>1, Zenon DEF UptoTypeOK
  <2>4. stage[r] \in Before
    BY <1>1 DEF Before
  <2>5. QED
    BY <1>1, <1>3, <1>5, <2>1, <2>2, <2>3, <2>4, OpeningKeeps
<1>7. NoneJoins
  <2>1. lagged => lagged'
    BY <1>1
  <2>2. \A q \in UptoRequests : /\ stage'[q] \in Active => stage[q] \in Active
                                /\ Past(q)' => Past(q)
    BY <1>1, <1>3, <1>4 DEF Past, Active
  <2>3. QED
    BY <1>4, <2>1, <2>2 DEF NoneJoins
<1>8. QED
  BY <1>6, <1>7, NoneJoinsKeeps

(***************************************************************************)
(* A request whose open is confirmed is the only one of its server at      *)
(* work, and without a lag the first.                                      *)
(***************************************************************************)
LEMMA ConfirmKeeps ==
  ASSUME UptoInv, NEW r \in UptoRequests, ConfirmOpen(r)
  PROVE  UptoInv'
<1> USE DEF UptoInv
<1>1. stage[r] = "confirm" /\ UNCHANGED <<opening, openTx>>
  BY DEF ConfirmOpen
<1>2. \/ openTx = "landed" /\ stage' = [stage EXCEPT ![r] = "handler"] /\ UNCHANGED busy
      \/ Ends(r)
  BY DEF ConfirmOpen, Stage
<1>3. /\ stage' = [stage EXCEPT ![r] = stage'[r]] /\ stage'[r] \in {"handler", "over"}
      /\ \A q \in UptoRequests : stage'[q] = IF q = r THEN stage'[r] ELSE stage[q]
  BY <1>2 DEF UptoTypeOK, Ends, Stage
<1>4. UNCHANGED <<host, channel, verdict>>
  BY <1>1 DEF opening
<1>5. busy' = Guards'
  <2>1. CASE Ends(r)
    BY <1>1, <1>4, <2>1, EndsFrees
  <2>2. CASE stage' = [stage EXCEPT ![r] = "handler"] /\ UNCHANGED busy
    <3>1. \A q \in UptoRequests :
            stage'[q] \in {"idle", "over"} <=> stage[q] \in {"idle", "over"}
      BY <1>1, <2>2 DEF UptoTypeOK
    <3>2. QED
      BY <1>4, <2>2, <3>1, GuardsStay
  <2>3. QED
    BY <1>2, <2>1, <2>2
<1>6. {lagged'} \subseteq BOOLEAN /\ faults' \in 0..MaxFaults /\ (lagged => lagged')
  <2>1. CASE \E s \in {"open", "absent", "sealed", "distributed"} : Shows(s)
    BY <2>1, ShowsTyped
  <2>2. CASE (Fault \/ UNCHANGED faults) /\ UNCHANGED lagged
    <3>1. {lagged'} \subseteq BOOLEAN
      BY <2>2, Zenon DEF UptoTypeOK
    <3>2. faults' \in 0..MaxFaults
      BY <2>2, UptoAssumption DEF UptoTypeOK, Fault
    <3>3. QED
      BY <2>2, <3>1, <3>2
  <2>3. QED
    BY <2>1, <2>2 DEF ConfirmOpen
<1>7. /\ UptoTypeOK' /\ ChannelKept'
      /\ \A q \in UptoRequests : RequestInv(q)'
  <2>1. openTx' \in {"unsent", "flying", "landed", "dead"}
        /\ (openTx' = "landed" <=> openTx = "landed")
    BY <1>1 DEF UptoTypeOK
  <2>2. stage[r] \in Before
    BY <1>1 DEF Before
  <2>3. QED
    BY <1>1, <1>3, <1>5, <1>6, <2>1, <2>2, OpeningKeeps
<1>8. Exclusive'
  BY <1>1, <1>3, <1>4 DEF Exclusive, Active
<1>9. \A q \in UptoRequests : q # r => (Past(q)' <=> Past(q)) /\ stage'[q] = stage[q]
  BY <1>3, <1>4 DEF Past
<1>10. PastOpened'
  <2>1. Past(r)' => channel'.status # "absent"
    BY <1>1, <1>2, <1>3, <1>4 DEF Past, PastOpened, ChannelKept, Ends, Stage, UptoTypeOK
  <2>2. QED
    BY <1>4, <1>9, <2>1 DEF PastOpened
<1>11. PastAlone'
  <2>1. SUFFICES ASSUME ~lagged' PROVE
          \A p, q \in UptoRequests :
              Past(p)' /\ host[p] = host[q] /\ p # q => stage'[q] \notin Active /\ ~Past(q)'
    BY <1>4 DEF PastAlone
  <2>2. ~lagged
    BY <1>6, <2>1
  <2>3. \A p \in UptoRequests : p # r /\ host[p] = host[r] => stage[p] \notin Active /\ ~Past(p)
    BY <1>1, <2>2 DEF Exclusive, PastAlone, Active
  <2>4. QED
    BY <1>9, <2>2, <2>3 DEF PastAlone
<1>12. QED
  BY <1>7, <1>8, <1>10, <1>11

-----------------------------------------------------------------------------
(***************************************************************************)
(* A step of a request at work keeps the invariant if it keeps its own.    *)
(***************************************************************************)
AtWork == {"handler", "settle", "poll", "resolve"}

Works(r) ==
    /\ stage[r] \in AtWork /\ UNCHANGED serving
    /\ \/ Ends(r)
       \/ /\ stage' = [stage EXCEPT ![r] = stage'[r]] /\ UNCHANGED busy
          /\ stage'[r] \in {"settle", "poll", "resolve"}
    /\ actual' \in [UptoRequests -> 0..Deposit]
    /\ fate' \in [UptoRequests -> [Tries -> {"unsent", "refused", "flying", "sealing",
                                             "ok", "failed", "gone"}]]
    /\ unknown' \in [UptoRequests -> SUBSET Tries]
    /\ round' \in [UptoRequests -> 0..InlineTries]
    /\ verdict' \in [UptoRequests -> {"none", "receipt", "pending", "withheld"}]
    /\ faults' \in 0..MaxFaults
    /\ \A q \in UptoRequests : q # r =>
         /\ verdict'[q] = verdict[q] /\ unknown'[q] = unknown[q] /\ fate'[q] = fate[q]
         /\ round'[q] = round[q] /\ actual'[q] = actual[q]
    /\ \A i \in Tries : fate[r][i] = "ok" => fate'[r][i] = "ok"

LEMMA WorkKeeps ==
  ASSUME UptoInv, NEW r \in UptoRequests, Works(r), RequestInv(r)'
  PROVE  UptoInv'
<1> USE DEF UptoInv
<1>1. UNCHANGED <<channel, openTx, host, lagged, usable, late, payout, stopped>>
  BY DEF Works, serving, payerVars
<1>2. /\ stage' = [stage EXCEPT ![r] = stage'[r]]
      /\ stage'[r] \in {"settle", "poll", "resolve", "over"}
      /\ \A q \in UptoRequests : q # r => stage'[q] = stage[q]
  BY DEF Works, Ends, Stage, UptoTypeOK
<1>3. busy' = Guards'
  <2>1. CASE Ends(r)
    <3>1. stage[r] \notin {"idle", "over"}
      BY DEF Works, AtWork
    <3>2. QED
      BY <1>1, <2>1, <3>1, EndsFrees
  <2>2. CASE UNCHANGED busy /\ stage'[r] \in {"settle", "poll", "resolve"}
    <3>1. \A q \in UptoRequests :
            stage'[q] \in {"idle", "over"} <=> stage[q] \in {"idle", "over"}
      BY <1>2, <2>2 DEF Works, AtWork
    <3>2. QED
      BY <1>1, <2>2, <3>1, GuardsStay
  <2>3. QED
    BY <2>1, <2>2 DEF Works
<1>4. UptoTypeOK'
  <2>1. {lagged', usable', late', payout', stopped'} \subseteq BOOLEAN
    BY <1>1, Zenon DEF UptoTypeOK
  <2>2. stage' \in [UptoRequests -> {"idle", "open", "confirm", "handler", "settle",
                                     "poll", "resolve", "over"}]
    BY <1>2 DEF UptoTypeOK
  <2>3. QED
    BY <1>1, <1>3, <2>1, <2>2 DEF UptoTypeOK, Guards, Works
<1>5. ChannelKept'
  <2>1. \A q \in UptoRequests, i \in Tries : fate[q][i] = "ok" => fate'[q][i] = "ok"
    BY DEF Works
  <2>2. QED
    BY <1>1, <2>1 DEF ChannelKept
<1>6. Exclusive' /\ PastOpened' /\ PastAlone'
  <2>1. \A q \in UptoRequests : /\ stage'[q] \in Active => stage[q] \in Active
                                /\ Past(q)' => Past(q)
    BY <1>2 DEF Past, Active, Works, AtWork
  <2>2. lagged => lagged'
    BY <1>1
  <2>3. NoneJoins
    BY <1>1, <2>1, <2>2 DEF NoneJoins
  <2>4. QED
    BY <2>3, NoneJoinsKeeps
<1>7. ASSUME NEW q \in UptoRequests PROVE RequestInv(q)'
  <2>1. CASE q = r
    BY <2>1
  <2>2. CASE q # r
    <3>1. Quiet(q) /\ ClosedStays
      BY <1>1, <1>2, <2>2 DEF Quiet, ClosedStays, Works
    <3>2. QED
      BY <3>1, QuietKeeps
  <2>3. QED
    BY <2>1, <2>2
<1>8. QED
  BY <1>4, <1>5, <1>6, <1>7

(***************************************************************************)
(* The handler meters before any attempt is made.                          *)
(***************************************************************************)
LEMMA RunKeeps ==
  ASSUME UptoInv, NEW r \in UptoRequests, NEW a \in 0..Deposit, Run(r, a)
  PROVE  UptoInv'
<1> USE DEF UptoInv
<1>1. /\ stage[r] = "handler" /\ stage' = [stage EXCEPT ![r] = "settle"]
      /\ actual' = [actual EXCEPT ![r] = a]
      /\ UNCHANGED <<serving, busy, unknown, round, verdict, fate, faults>>
  BY DEF Run, Stage
<1>2. Works(r)
  BY <1>1 DEF Works, AtWork, UptoTypeOK
<1>3. RequestInv(r)'
  <2>1. /\ Sent(r) = 0 /\ verdict[r] = "none" /\ InOrder(r) /\ OnTrack(r)
        /\ stage'[r] = "settle"
    BY <1>1 DEF RequestInv, OnTrack, Before, UptoTypeOK
  <2>2. Sent(r)' = Sent(r) /\ InOrder(r)'
    BY <1>1, <2>1 DEF Sent, InOrder
  <2>3. \A i \in Tries : fate'[r][i] = "unsent"
    BY <1>1, <2>1, UptoAssumption DEF InOrder, Tries
  <2>4. OnTrack(r)'
    BY <1>1, <2>1, <2>2, UptoAssumption DEF OnTrack, Before, Last
  <2>5. QED
    BY <1>1, <2>1, <2>2, <2>3, <2>4
    DEF RequestInv, Followed, Harmless, LandedIs, ReceiptLanded, MayCharge
<1>4. QED
  BY <1>2, <1>3, WorkKeeps

(***************************************************************************)
(* A request whose attempt failed: the decision falls with the last inline *)
(* attempt, and a response is withheld only if none may have charged.      *)
(***************************************************************************)
LEMMA FailedKeeps ==
  ASSUME UptoInv, NEW r \in UptoRequests, stage[r] \in {"settle", "poll"},
         NEW n \in Tries, NEW open \in SUBSET Tries, Failed(r, n, open),
         UNCHANGED <<serving, actual>>,
         InOrder(r)', Sent(r)' = n, verdict[r] = "none" <=> n <= InlineTries,
         \A i \in Tries : fate[r][i] = "ok" <=> fate'[r][i] = "ok",
         \A i \in Tries : i <= InlineTries /\ fate'[r][i] \in MayCharge =>
             i \in open \/ verdict[r] \in {"receipt", "pending"},
         verdict[r] = "withheld" =>
             \A i \in Tries : i <= InlineTries => fate'[r][i] \notin MayCharge
  PROVE  RequestInv(r)'
<1> USE DEF UptoInv
<1>nums. InlineTries \in Nat \ {0} /\ LaterTries \in Nat \ {0} /\ n \in 1..Last
  BY UptoAssumption DEF Tries, Last
<1>1. /\ OnTrack(r) /\ Harmless(r) /\ LandedIs(r) /\ ReceiptLanded(r)
      /\ verdict[r] # "receipt"
  BY DEF RequestInv, OnTrack
<1>2. /\ unknown'[r] = open /\ round'[r] = round[r] /\ actual'[r] = actual[r]
      /\ UNCHANGED channel
  BY DEF Failed, UptoTypeOK, serving
<1>3. \/ /\ n < InlineTries /\ stage'[r] = "settle" /\ verdict'[r] = verdict[r]
      \/ /\ n = InlineTries /\ open = {} /\ stage'[r] = "settle" /\ verdict'[r] = "withheld"
      \/ /\ n = InlineTries /\ stage'[r] = "resolve" /\ verdict'[r] = verdict[r]
      \/ /\ n > InlineTries /\ n = Last /\ stage'[r] = "over" /\ verdict'[r] = verdict[r]
      \/ /\ n > InlineTries /\ n # Last /\ verdict'[r] = verdict[r]
         /\ stage'[r] = IF verdict[r] = "withheld" THEN "settle" ELSE "resolve"
  BY DEF Failed, Stage, Ends, Decide, UptoTypeOK, Last
<1>4. OnTrack(r)'
  <2>1. /\ verdict[r] \in {"none", "pending", "withheld"} /\ InlineTries < Last
        /\ n <= Last /\ n \in Nat /\ Last \in Nat
    BY <1>nums, <1>1 DEF UptoTypeOK, Last
  <2>2. verdict[r] = "none" => round[r] < InlineTries
    BY <1>1 DEF OnTrack
  <2>3. /\ stage'[r] \in {"settle", "resolve", "over"} /\ verdict'[r] # "receipt"
        /\ verdict'[r] = "none" => verdict[r] = "none"
    BY <1>3, <2>1
  <2>4. stage'[r] = "settle" => n < Last /\ (verdict'[r] = "none" <=> n < InlineTries)
    BY <1>nums, <1>3, <2>1
  <2>5. stage'[r] = "resolve" =>
          /\ InlineTries <= n /\ n < Last /\ verdict'[r] \in {"none", "pending"}
          /\ verdict'[r] = "none" => n = InlineTries
    BY <1>nums, <1>3, <2>1
  <2>6. QED
    BY <1>2, <2>2, <2>3, <2>4, <2>5 DEF OnTrack, Before
<1>5. Followed(r)'
  <2>1. ASSUME NEW i \in Tries, i <= InlineTries, fate'[r][i] \in MayCharge
        PROVE  i \in unknown'[r] \/ verdict'[r] \in {"receipt", "pending"}
    <3>1. i \in open \/ verdict[r] \in {"receipt", "pending"}
      BY <2>1
    <3>2. verdict[r] \in {"receipt", "pending"} => verdict'[r] = verdict[r]
      BY <1>nums, <1>3
    <3>3. QED
      BY <1>2, <3>1, <3>2
  <2>2. QED
    BY <2>1 DEF Followed
<1>6. Harmless(r)'
  BY <1>nums, <1>1, <1>3 DEF Harmless
<1>7. LandedIs(r)'
  <2>1. ASSUME NEW i \in Tries, fate'[r][i] = "ok"
        PROVE  Amount(r, i)' = Amount(r, i)
    <3>1. i <= n
      BY <2>1 DEF InOrder
    <3>2. i > InlineTries => verdict'[r] = verdict[r]
      BY <1>nums, <1>3, <3>1 DEF Tries
    <3>3. QED
      BY <1>2, <3>2 DEF Amount
  <2>2. QED
    BY <1>1, <1>2, <2>1 DEF LandedIs
<1>8. ReceiptLanded(r)'
  BY <1>1, <1>3 DEF ReceiptLanded
<1>9. QED
  BY <1>4, <1>5, <1>6, <1>7, <1>8 DEF RequestInv

(***************************************************************************)
(* The state a failed attempt leaves is well typed.                        *)
(***************************************************************************)
LEMMA FailedWorks ==
  ASSUME UptoInv, NEW r \in UptoRequests, stage[r] \in {"settle", "poll"}, NEW n,
         NEW open \in SUBSET Tries, Failed(r, n, open), UNCHANGED <<serving, actual>>,
         NEW g \in [Tries -> {"unsent", "refused", "flying", "sealing", "ok", "failed", "gone"}],
         fate' = [fate EXCEPT ![r] = g],
         \A i \in Tries : fate[r][i] = "ok" => g[i] = "ok", faults' \in 0..MaxFaults
  PROVE  Works(r)
<1> USE DEF UptoInv
<1>1. /\ unknown' = [unknown EXCEPT ![r] = open] /\ UNCHANGED round
      /\ UNCHANGED verdict \/ verdict' = [verdict EXCEPT ![r] = "withheld"]
  BY DEF Failed, Decide
<1>2. \/ Ends(r)
      \/ UNCHANGED busy /\ \E s \in {"settle", "resolve"} : stage' = [stage EXCEPT ![r] = s]
  BY DEF Failed, Stage
<1>3. \/ Ends(r)
      \/ /\ stage' = [stage EXCEPT ![r] = stage'[r]] /\ UNCHANGED busy
         /\ stage'[r] \in {"settle", "poll", "resolve"}
  BY <1>2 DEF UptoTypeOK
<1>4. fate'[r] = g
  BY DEF UptoTypeOK
<1>5. QED
  BY <1>1, <1>3, <1>4 DEF Works, AtWork, UptoTypeOK

(***************************************************************************)
(* An attempt is the next in order.                                        *)
(***************************************************************************)
LEMMA AttemptNext ==
  ASSUME UptoInv, NEW r \in UptoRequests, stage[r] = "settle",
         NEW n, n = Sent(r) + 1,
         NEW f \in {"refused", "flying", "sealing"}, Fate(r, n, f)
  PROVE  /\ n \in Tries /\ Sent(r)' = n /\ InOrder(r)'
         /\ verdict[r] = "none" <=> n <= InlineTries
         /\ fate[r][n] = "unsent"
<1> USE DEF UptoInv
<1>1. InOrder(r) /\ Sent(r) < Last /\ (verdict[r] = "none" <=> Sent(r) < InlineTries)
  BY DEF RequestInv, OnTrack
<1>2. InlineTries \in Nat /\ LaterTries \in Nat /\ Last \in Nat /\ Tries = 1..Last
  BY UptoAssumption DEF Last, Tries
<1>3. n \in 0..Last /\ n \in Tries /\ (verdict[r] = "none" <=> n <= InlineTries)
  BY <1>1, <1>2 DEF InOrder
<1>4. /\ fate'[r] = [fate[r] EXCEPT ![n] = f]
      /\ fate' = [fate EXCEPT ![r] = [fate[r] EXCEPT ![n] = f]]
  BY DEF Fate, UptoTypeOK
<1>5. \A i \in Tries : fate'[r][i] # "unsent" <=> i <= n
  <2>1. \A i \in Tries : fate'[r][i] = IF i = n THEN f ELSE fate[r][i]
    BY <1>3, <1>4 DEF UptoTypeOK
  <2>2. \A i \in Tries : i <= n <=> (i = n \/ i <= Sent(r))
    BY <1>1, <1>2 DEF InOrder
  <2>3. QED
    BY <1>1, <2>1, <2>2 DEF InOrder
<1>6. fate[r][n] = "unsent"
  BY <1>1, <1>3 DEF InOrder
<1>7. Sent(r)' = n
  <2>1. Cardinality({i \in Tries : fate'[r][i] # "unsent"}) = n
    BY <1>3, <1>5, TriesInOrder
  <2>2. QED
    BY <2>1 DEF Sent
<1>8. InOrder(r)'
  BY <1>3, <1>5, <1>7 DEF InOrder
<1>9. QED
  BY <1>3, <1>4, <1>6, <1>7, <1>8

(***************************************************************************)
(* An attempt that may reach the chain is polled or remembered.            *)
(***************************************************************************)
LEMMA SettleKeeps ==
  ASSUME UptoInv, NEW r \in UptoRequests, SettleActual(r)
  PROVE  UptoInv'
<1> USE DEF UptoInv
<1> DEFINE n == Sent(r) + 1
<1>1. stage[r] = "settle" /\ UNCHANGED <<serving, actual>>
  BY DEF SettleActual
<1>2. /\ RequestInv(r) /\ unknown[r] \subseteq Tries
      /\ faults' \in 0..MaxFaults
  BY UptoAssumption DEF UptoTypeOK, SettleActual, Fault
<1>3. Bundle(r, n) \in {"flying", "sealing"}
  BY DEF Bundle
<1>4. \/ \E f \in {"flying", "sealing"} :
            /\ Fate(r, n, f) /\ Stage(r, "poll")
            /\ UNCHANGED <<busy, unknown, round, verdict, faults>>
      \/ Fate(r, n, "refused") /\ Failed(r, n, unknown[r])
      \/ \E f \in {"refused", "flying", "sealing"} :
            Fate(r, n, f) /\ Failed(r, n, unknown[r] \cup {n})
  BY <1>3 DEF SettleActual
<1> HIDE DEF n
<1>5. ASSUME NEW f \in {"refused", "flying", "sealing"}, Fate(r, n, f)
      PROVE  /\ n \in Tries /\ Sent(r)' = n /\ InOrder(r)'
             /\ verdict[r] = "none" <=> n <= InlineTries
             /\ fate'[r] = [fate[r] EXCEPT ![n] = f]
             /\ fate' = [fate EXCEPT ![r] = [fate[r] EXCEPT ![n] = f]]
             /\ fate[r][n] = "unsent"
             /\ \A i \in Tries : fate'[r][i] = IF i = n THEN f ELSE fate[r][i]
             /\ [fate[r] EXCEPT ![n] = f] \in
                  [Tries -> {"unsent", "refused", "flying", "sealing", "ok", "failed", "gone"}]
  <2>1. n = Sent(r) + 1
    BY DEF n
  <2>2. /\ n \in Tries /\ Sent(r)' = n /\ InOrder(r)'
        /\ verdict[r] = "none" <=> n <= InlineTries
        /\ fate[r][n] = "unsent"
    BY <1>1, <1>5, <2>1, AttemptNext
  <2>3. /\ fate'[r] = [fate[r] EXCEPT ![n] = f]
        /\ fate' = [fate EXCEPT ![r] = [fate[r] EXCEPT ![n] = f]]
    BY <1>5 DEF Fate, UptoTypeOK
  <2>4. QED
    BY <2>2, <2>3 DEF UptoTypeOK
<1>6. CASE \E f \in {"flying", "sealing"} :
             /\ Fate(r, n, f) /\ Stage(r, "poll")
             /\ UNCHANGED <<busy, unknown, round, verdict, faults>>
  <2>1. PICK f \in {"flying", "sealing"} :
             /\ Fate(r, n, f) /\ Stage(r, "poll")
             /\ UNCHANGED <<busy, unknown, round, verdict, faults>>
    BY <1>6
  <2>2. /\ n \in Tries /\ Sent(r)' = n /\ InOrder(r)'
        /\ verdict[r] = "none" <=> n <= InlineTries
        /\ fate' = [fate EXCEPT ![r] = [fate[r] EXCEPT ![n] = f]]
        /\ fate[r][n] = "unsent"
        /\ \A i \in Tries : fate'[r][i] = IF i = n THEN f ELSE fate[r][i]
        /\ [fate[r] EXCEPT ![n] = f] \in
             [Tries -> {"unsent", "refused", "flying", "sealing", "ok", "failed", "gone"}]
    BY <1>5, <2>1
  <2>3. /\ stage' = [stage EXCEPT ![r] = "poll"] /\ stage'[r] = "poll"
        /\ UNCHANGED channel
    BY <1>1, <2>1 DEF Stage, UptoTypeOK, serving
  <2>4. Works(r)
    BY <1>1, <1>2, <2>1, <2>2, <2>3 DEF Works, AtWork, UptoTypeOK
  <2>5. OnTrack(r)'
    <3>1. n > 0
      BY <2>2, UptoAssumption DEF Tries
    <3>2. /\ verdict[r] # "receipt"
          /\ verdict[r] = "none" => round[r] < InlineTries
      BY <1>1, <1>2 DEF RequestInv, OnTrack
    <3>3. QED
      BY <2>1, <2>2, <2>3, <3>1, <3>2 DEF OnTrack, Before
  <2>6. Followed(r)'
    <3>1. Followed(r)
      BY <1>2 DEF RequestInv
    <3>2. QED
      BY <1>1, <2>1, <2>2, <2>3, <3>1 DEF Followed
  <2>7. Harmless(r)'
    <3>1. Harmless(r)
      BY <1>2 DEF RequestInv
    <3>2. verdict[r] = "withheld" => ~(n <= InlineTries)
      BY <2>2
    <3>3. QED
      BY <2>1, <2>2, <3>1, <3>2 DEF Harmless
  <2>8. LandedIs(r)' /\ ReceiptLanded(r)'
    <3>1. LandedIs(r) /\ ReceiptLanded(r)
      BY <1>2 DEF RequestInv
    <3>2. \A i \in Tries : fate'[r][i] = "ok" <=> fate[r][i] = "ok"
      BY <2>2
    <3>3. \A i \in Tries : Amount(r, i)' = Amount(r, i)
      BY <1>1, <2>1 DEF Amount
    <3>4. QED
      BY <2>1, <2>3, <3>1, <3>2, <3>3 DEF LandedIs, ReceiptLanded
  <2>9. RequestInv(r)'
    BY <2>2, <2>5, <2>6, <2>7, <2>8 DEF RequestInv
  <2>10. QED
    BY <2>4, <2>9, WorkKeeps
<1>7. ASSUME NEW f \in {"refused", "flying", "sealing"}, NEW open \in SUBSET Tries,
             Fate(r, n, f), Failed(r, n, open), unknown[r] \subseteq open,
             f = "refused" \/ n \in open
      PROVE  UptoInv'
  <2>1. /\ n \in Tries /\ Sent(r)' = n /\ InOrder(r)'
        /\ verdict[r] = "none" <=> n <= InlineTries
        /\ fate' = [fate EXCEPT ![r] = [fate[r] EXCEPT ![n] = f]]
        /\ fate[r][n] = "unsent"
        /\ \A i \in Tries : fate'[r][i] = IF i = n THEN f ELSE fate[r][i]
        /\ [fate[r] EXCEPT ![n] = f] \in
             [Tries -> {"unsent", "refused", "flying", "sealing", "ok", "failed", "gone"}]
    BY <1>5, <1>7
  <2>2. \A i \in Tries : fate[r][i] = "ok" <=> fate'[r][i] = "ok"
    BY <2>1
  <2>3. Works(r)
    <3>1. \A i \in Tries : fate[r][i] = "ok" => [fate[r] EXCEPT ![n] = f][i] = "ok"
      BY <2>1 DEF UptoTypeOK
    <3>2. QED
      BY <1>1, <1>2, <1>7, <2>1, <3>1, FailedWorks
  <2>4. \A i \in Tries : i <= InlineTries /\ fate'[r][i] \in MayCharge =>
            i \in open \/ verdict[r] \in {"receipt", "pending"}
    <3>1. Followed(r)
      BY <1>2 DEF RequestInv
    <3>2. QED
      BY <1>1, <1>7, <2>1, <3>1 DEF Followed, MayCharge
  <2>5. verdict[r] = "withheld" =>
            \A i \in Tries : i <= InlineTries => fate'[r][i] \notin MayCharge
    <3>1. Harmless(r)
      BY <1>2 DEF RequestInv
    <3>2. verdict[r] = "withheld" => ~(n <= InlineTries)
      BY <2>1
    <3>3. QED
      BY <2>1, <3>1, <3>2 DEF Harmless
  <2>6. RequestInv(r)'
    BY <1>1, <1>7, <2>1, <2>2, <2>4, <2>5, FailedKeeps
  <2>7. QED
    BY <2>3, <2>6, WorkKeeps
<1>8. CASE Fate(r, n, "refused") /\ Failed(r, n, unknown[r])
  BY <1>2, <1>7, <1>8
<1>9. CASE \E f \in {"refused", "flying", "sealing"} :
             Fate(r, n, f) /\ Failed(r, n, unknown[r] \cup {n})
  <2>1. PICK f \in {"refused", "flying", "sealing"} :
             Fate(r, n, f) /\ Failed(r, n, unknown[r] \cup {n})
    BY <1>9
  <2>2. n \in Tries
    BY <1>5, <2>1
  <2>3. QED
    BY <1>2, <1>7, <2>1, <2>2
<1>10. QED
  BY <1>4, <1>6, <1>8, <1>9

(***************************************************************************)
(* A settlement that was seen to land ends the request with a receipt,     *)
(* unless the decision fell before.                                        *)
(***************************************************************************)
LEMMA SettledKeeps ==
  ASSUME UptoInv, NEW r \in UptoRequests, stage[r] \in {"poll", "resolve"},
         NEW i \in Tries, fate[r][i] = "ok", Settled(r),
         UNCHANGED <<serving, actual, fate, faults>>
  PROVE  UptoInv'
<1> USE DEF UptoInv
<1>1. /\ InOrder(r) /\ OnTrack(r) /\ Harmless(r) /\ LandedIs(r) /\ ReceiptLanded(r)
  BY DEF RequestInv
<1>2. /\ stage' = [stage EXCEPT ![r] = "over"] /\ stage'[r] = "over"
      /\ UNCHANGED <<unknown, round, channel>>
  BY DEF Settled, Ends, Stage, UptoTypeOK, serving
<1>3. /\ verdict' = IF verdict[r] = "none" THEN [verdict EXCEPT ![r] = "receipt"] ELSE verdict
      /\ verdict'[r] = IF verdict[r] = "none" THEN "receipt" ELSE verdict[r]
  BY DEF Settled, Decide, UptoTypeOK
<1>4. Works(r)
  <2>1. Ends(r)
    BY DEF Settled
  <2>2. QED
    BY <1>2, <1>3, <2>1 DEF Works, AtWork, UptoTypeOK
<1>5. Sent(r)' = Sent(r) /\ InOrder(r)'
  BY <1>1 DEF Sent, InOrder
<1>6. OnTrack(r)'
  BY <1>2, <1>3 DEF OnTrack, Before
<1>7. Followed(r)' /\ Harmless(r)'
  BY <1>1, <1>2, <1>3 DEF Followed, Harmless
<1>8. LandedIs(r)'
  <2>1. ASSUME NEW j \in Tries, fate[r][j] = "ok" PROVE Amount(r, j)' = Amount(r, j)
    <3>1. verdict[r] = "none" => ~(j > InlineTries)
      BY <1>1, <2>1, UptoAssumption DEF InOrder, OnTrack, Tries
    <3>2. QED
      BY <1>3, <3>1 DEF Amount
  <2>2. QED
    BY <1>1, <1>2, <2>1 DEF LandedIs
<1>9. ReceiptLanded(r)'
  BY DEF ReceiptLanded
<1>10. RequestInv(r)'
  BY <1>5, <1>6, <1>7, <1>8, <1>9 DEF RequestInv
<1>11. QED
  BY <1>4, <1>10, WorkKeeps

LEMMA PollKeeps ==
  ASSUME UptoInv, NEW r \in UptoRequests, PollSettlement(r)
  PROVE  UptoInv'
<1> USE DEF UptoInv
<1> DEFINE n == Sent(r)
<1>1. stage[r] = "poll" /\ UNCHANGED <<serving, actual, fate>>
  BY DEF PollSettlement
<1>2. /\ RequestInv(r) /\ unknown[r] \subseteq Tries
      /\ faults' \in 0..MaxFaults
  BY UptoAssumption DEF UptoTypeOK, PollSettlement, Fault
<1>3. \/ fate[r][n] = "ok" /\ Settled(r) /\ UNCHANGED faults
      \/ fate[r][n] = "failed" /\ Failed(r, n, unknown[r])
      \/ Failed(r, n, unknown[r] \cup {n})
  BY DEF PollSettlement
<1>4. n \in Tries /\ (verdict[r] = "none" <=> n <= InlineTries)
  BY <1>1, <1>2, UptoAssumption DEF RequestInv, OnTrack, InOrder, Tries, Last
<1>5. Sent(r)' = n /\ InOrder(r)'
  BY <1>1, <1>2 DEF RequestInv, InOrder, Sent
<1>same. n = Sent(r)
  OBVIOUS
<1> HIDE DEF n
<1>6. ASSUME NEW open \in SUBSET Tries, Failed(r, n, open), unknown[r] \subseteq open,
             fate[r][n] = "failed" \/ n \in open
      PROVE  UptoInv'
  <2>1. Works(r)
    <3>1. fate' = [fate EXCEPT ![r] = fate[r]]
          /\ fate[r] \in [Tries -> {"unsent", "refused", "flying", "sealing",
                                    "ok", "failed", "gone"}]
      BY <1>1 DEF UptoTypeOK
    <3>2. QED
      BY <1>1, <1>2, <1>6, <3>1, FailedWorks
  <2>2. \A i \in Tries : fate[r][i] = "ok" <=> fate'[r][i] = "ok"
    BY <1>1
  <2>3. \A i \in Tries : i <= InlineTries /\ fate'[r][i] \in MayCharge =>
            i \in open \/ verdict[r] \in {"receipt", "pending"}
    <3>1. Followed(r)
      BY <1>2 DEF RequestInv
    <3>2. QED
      BY <1>1, <1>6, <1>same, <3>1 DEF Followed, MayCharge
  <2>4. verdict[r] = "withheld" =>
            \A i \in Tries : i <= InlineTries => fate'[r][i] \notin MayCharge
    BY <1>1, <1>2 DEF RequestInv, Harmless
  <2>5. RequestInv(r)'
    BY <1>1, <1>4, <1>5, <1>6, <2>2, <2>3, <2>4, FailedKeeps
  <2>6. QED
    BY <2>1, <2>5, WorkKeeps
<1>7. CASE fate[r][n] = "ok" /\ Settled(r) /\ UNCHANGED faults
  BY <1>1, <1>4, <1>7, SettledKeeps
<1>8. CASE fate[r][n] = "failed" /\ Failed(r, n, unknown[r])
  BY <1>2, <1>6, <1>8
<1>9. CASE Failed(r, n, unknown[r] \cup {n})
  BY <1>2, <1>4, <1>6, <1>9
<1>10. QED
  BY <1>3, <1>7, <1>8, <1>9

(***************************************************************************)
(* The attempts that stay unresolved are remembered, and when none is left *)
(* no inline attempt can have charged the payer.                           *)
(***************************************************************************)
LEMMA ResolveKeeps ==
  ASSUME UptoInv, NEW r \in UptoRequests, ResolvePending(r)
  PROVE  UptoInv'
<1> USE DEF UptoInv
<1>1. stage[r] = "resolve" /\ UNCHANGED <<serving, actual, fate, faults>>
  BY DEF ResolvePending
<1>2. CASE \E i \in unknown[r] : fate[r][i] = "ok" /\ Settled(r)
  <2>1. PICK i \in unknown[r] : fate[r][i] = "ok" /\ Settled(r)
    BY <1>2
  <2>2. i \in Tries
    BY DEF UptoTypeOK
  <2>3. QED
    BY <1>1, <2>1, <2>2, SettledKeeps
<1>3. ASSUME NEW missed \in SUBSET unknown[r], Undecided(r, missed),
             \A i \in unknown[r] \ missed : fate[r][i] = "failed"
      PROVE  UptoInv'
  <2>1. /\ InOrder(r) /\ OnTrack(r) /\ Followed(r) /\ LandedIs(r) /\ ReceiptLanded(r)
        /\ InlineTries <= Sent(r) /\ Sent(r) < Last /\ verdict[r] \in {"none", "pending"}
        /\ verdict[r] = "none" => Sent(r) = InlineTries /\ round[r] < InlineTries
    BY <1>1 DEF RequestInv, OnTrack
  <2>2. /\ unknown' = [unknown EXCEPT ![r] = missed] /\ unknown'[r] = missed
        /\ missed \subseteq Tries /\ UNCHANGED <<busy, channel>>
    BY <1>1, <1>3 DEF Undecided, UptoTypeOK, serving
  <2>3. \/ /\ verdict[r] = "pending" /\ UNCHANGED <<round, verdict>>
           /\ stage' = [stage EXCEPT ![r] = "settle"]
        \/ /\ verdict[r] = "none" /\ missed = {}
           /\ round' = [round EXCEPT ![r] = @ + 1]
           /\ verdict' = [verdict EXCEPT ![r] = "withheld"]
           /\ stage' = [stage EXCEPT ![r] = "settle"]
        \/ /\ verdict[r] = "none" /\ missed # {} /\ round[r] + 1 < InlineTries
           /\ round' = [round EXCEPT ![r] = @ + 1] /\ UNCHANGED <<stage, verdict>>
        \/ /\ verdict[r] = "none" /\ missed # {}
           /\ round' = [round EXCEPT ![r] = @ + 1] /\ UNCHANGED stage
           /\ verdict' = [verdict EXCEPT ![r] = "pending"]
    BY <1>3, <2>1 DEF Undecided, Stage, Decide
  <2>4. /\ stage' = [stage EXCEPT ![r] = stage'[r]]
        /\ stage'[r] \in {"settle", "resolve"}
    BY <1>1, <2>3 DEF UptoTypeOK
  <2>5. /\ round' \in [UptoRequests -> 0..InlineTries]
        /\ \A q \in UptoRequests : q # r => round'[q] = round[q]
    BY <2>1, <2>3, UptoAssumption DEF UptoTypeOK
  <2>6. /\ verdict' \in [UptoRequests -> {"none", "receipt", "pending", "withheld"}]
        /\ \A q \in UptoRequests : q # r => verdict'[q] = verdict[q]
    BY <2>3 DEF UptoTypeOK
  <2>7. Works(r)
    BY <1>1, <2>2, <2>4, <2>5, <2>6 DEF Works, AtWork, UptoTypeOK
  <2>8. Sent(r)' = Sent(r) /\ InOrder(r)'
    BY <1>1, <2>1 DEF Sent, InOrder
  <2>9. \/ verdict[r] = "pending" /\ verdict'[r] = "pending" /\ stage'[r] = "settle"
        \/ /\ verdict[r] = "none" /\ verdict'[r] = "withheld" /\ stage'[r] = "settle"
           /\ missed = {}
        \/ /\ verdict[r] = "none" /\ verdict'[r] = "none" /\ stage'[r] = "resolve"
           /\ round'[r] < InlineTries
        \/ verdict[r] = "none" /\ verdict'[r] = "pending" /\ stage'[r] = "resolve"
    BY <1>1, <2>3 DEF UptoTypeOK
  <2>10. OnTrack(r)'
    <3>1. Sent(r) \in Nat /\ InlineTries \in Nat /\ Last \in Nat /\ ~(Sent(r) < InlineTries)
      BY <2>1, UptoAssumption DEF InOrder, Last
    <3>2. verdict'[r] = "none" => Sent(r) = InlineTries /\ round'[r] < InlineTries
      BY <2>1, <2>9
    <3>3. stage'[r] = "settle" => verdict'[r] \in {"pending", "withheld"}
      BY <2>9
    <3>4. stage'[r] \in {"settle", "resolve"} /\ verdict'[r] # "receipt"
      BY <2>9
    <3>5. stage'[r] = "resolve" => verdict'[r] \in {"none", "pending"}
      BY <2>9
    <3>6. QED
      BY <2>1, <2>8, <3>1, <3>2, <3>3, <3>4, <3>5 DEF OnTrack, Before
  <2>11. \A i \in Tries : i <= InlineTries /\ fate[r][i] \in MayCharge =>
             i \in missed \/ verdict[r] = "pending"
    BY <1>1, <1>3, <2>1 DEF Followed, MayCharge
  <2>12. Followed(r)' /\ Harmless(r)'
    BY <1>1, <2>2, <2>9, <2>11 DEF Followed, Harmless
  <2>13. LandedIs(r)'
    <3>1. ASSUME NEW j \in Tries, fate[r][j] = "ok" PROVE Amount(r, j)' = Amount(r, j)
      <4>1. verdict[r] = "none" => ~(j > InlineTries)
        BY <2>1, <3>1, UptoAssumption DEF InOrder, Tries
      <4>2. QED
        BY <1>1, <2>9, <4>1 DEF Amount
    <3>2. QED
      BY <1>1, <2>1, <2>2, <3>1 DEF LandedIs
  <2>14. ReceiptLanded(r)'
    BY <2>9 DEF ReceiptLanded
  <2>15. RequestInv(r)'
    BY <2>8, <2>10, <2>12, <2>13, <2>14 DEF RequestInv
  <2>16. QED
    BY <2>7, <2>15, WorkKeeps
<1>4. QED
  BY <1>2, <1>3 DEF ResolvePending

-----------------------------------------------------------------------------
(***************************************************************************)
(* An attempt in flight lands, fails or expires, decided on or not.        *)
(***************************************************************************)
LEMMA FateKeeps ==
  ASSUME UptoInv, NEW r \in UptoRequests, NEW i \in Tries,
         fate[r][i] \in {"flying", "sealing"}, NEW f \in {"ok", "failed", "gone"},
         Fate(r, i, f), UNCHANGED <<requestVars, openTx, host, lagged, payerVars, payout, stopped>>,
         channel' \in [status : {"absent", "open", "sealed", "distributed"},
                       settled : 0..Deposit, by : UptoRequests \cup {"nobody", "payer"}],
         faults' \in 0..MaxFaults,
         ClosedStays, channel'.status = "absent" <=> channel.status = "absent",
         IF f = "ok" THEN /\ channel.status = "open" /\ channel'.status \in Closed
                          /\ channel'.by = r /\ channel'.settled = Amount(r, i)
         ELSE UNCHANGED channel
  PROVE  UptoInv'
<1> USE DEF UptoInv
<1>1. /\ fate' \in [UptoRequests -> [Tries -> {"unsent", "refused", "flying", "sealing",
                                               "ok", "failed", "gone"}]]
      /\ \A q \in UptoRequests : q # r => fate'[q] = fate[q]
      /\ \A j \in Tries : fate'[r][j] = IF j = i THEN f ELSE fate[r][j]
  BY DEF Fate, UptoTypeOK
<1>2. /\ UNCHANGED <<stage, busy, actual, unknown, round, verdict, openTx, host, lagged>>
  BY DEF requestVars
<1>3. UptoTypeOK'
  <2>1. busy' = Guards'
    BY <1>2, GuardsStay
  <2>2. {lagged', usable', late', payout', stopped'} \subseteq BOOLEAN
    BY Zenon DEF UptoTypeOK, payerVars
  <2>3. QED
    BY <1>1, <1>2, <2>1, <2>2 DEF UptoTypeOK, Guards
<1>4. Exclusive' /\ PastOpened' /\ PastAlone'
  <2>1. NoneJoins
    BY <1>2 DEF NoneJoins, Past
  <2>2. QED
    BY <2>1, NoneJoinsKeeps
<1>5. ASSUME f = "ok", NEW q \in UptoRequests, NEW j \in Tries PROVE fate[q][j] # "ok"
  BY <1>5 DEF RequestInv, LandedIs, Closed
<1>6. ChannelKept'
  <2>1. channel'.status \notin Closed => channel'.settled = 0
    BY DEF ChannelKept
  <2>2. channel'.settled > 0 => \E q \in UptoRequests, j \in Tries : fate'[q][j] = "ok"
    <3>1. CASE f = "ok"
      BY <1>1, <3>1
    <3>2. CASE f # "ok"
      BY <1>1, <3>2 DEF ChannelKept
    <3>3. QED
      BY <3>1, <3>2
  <2>3. QED
    BY <1>2, <2>1, <2>2 DEF ChannelKept
<1>7. RequestInv(r)'
  <2>1. /\ InOrder(r) /\ OnTrack(r) /\ Followed(r) /\ Harmless(r) /\ LandedIs(r)
        /\ ReceiptLanded(r)
    BY DEF RequestInv
  <2>2. Sent(r)' = Sent(r)
    <3>1. {j \in Tries : fate'[r][j] # "unsent"} = {j \in Tries : fate[r][j] # "unsent"}
      BY <1>1
    <3>2. QED
      BY <3>1 DEF Sent
  <2>3. InOrder(r)'
    BY <1>1, <2>1, <2>2 DEF InOrder
  <2>4. OnTrack(r)'
    BY <1>2, <2>1, <2>2 DEF OnTrack
  <2>5. Followed(r)' /\ Harmless(r)'
    BY <1>1, <1>2, <2>1, <2>2 DEF Followed, Harmless, MayCharge
  <2>6. \A j \in Tries : Amount(r, j)' = Amount(r, j)
    BY <1>2 DEF Amount
  <2>7. LandedIs(r)'
    <3>1. CASE f = "ok"
      BY <1>1, <1>5, <2>6, <3>1 DEF LandedIs
    <3>2. CASE f # "ok"
      BY <1>1, <2>1, <2>6, <3>2 DEF LandedIs
    <3>3. QED
      BY <3>1, <3>2
  <2>8. ReceiptLanded(r)'
    BY <1>1, <1>2, <2>1 DEF ReceiptLanded
  <2>9. QED
    BY <2>3, <2>4, <2>5, <2>7, <2>8 DEF RequestInv
<1>8. ASSUME NEW q \in UptoRequests PROVE RequestInv(q)'
  <2>1. CASE q = r
    BY <1>7, <2>1
  <2>2. CASE q # r
    <3>1. Quiet(q)
      BY <1>1, <1>2, <2>2 DEF Quiet
    <3>2. QED
      BY <3>1, QuietKeeps
  <2>3. QED
    BY <2>1, <2>2
<1>9. QED
  BY <1>3, <1>4, <1>6, <1>8

LEMMA ChainKeeps ==
  ASSUME UptoInv, NEW r \in UptoRequests, NEW i \in Tries,
         SettlementLands(r, i) \/ SettlementExpires(r, i)
  PROVE  UptoInv'
<1> USE DEF UptoInv
<1>1. fate[r][i] \in {"flying", "sealing"} /\ Amount(r, i) \in 0..Deposit
  BY UptoAssumption DEF SettlementLands, SettlementExpires, Amount, UptoTypeOK
<1>2. /\ UNCHANGED <<requestVars, openTx, host, lagged, payerVars, payout, stopped>>
      /\ faults' \in 0..MaxFaults
  BY UptoAssumption DEF SettlementLands, SettlementExpires, Fault, UptoTypeOK
<1>3. CASE /\ channel.status = "open" /\ Fate(r, i, "ok")
           /\ channel' = [status |-> IF fate[r][i] = "flying" THEN "distributed" ELSE "sealed",
                          settled |-> Amount(r, i), by |-> r]
  <2>1. /\ channel' \in [status : {"absent", "open", "sealed", "distributed"},
                         settled : 0..Deposit, by : UptoRequests \cup {"nobody", "payer"}]
        /\ channel'.status \in Closed /\ channel'.by = r /\ channel'.settled = Amount(r, i)
        /\ channel'.status # "absent" /\ channel.status = "open" /\ ClosedStays
    BY <1>1, <1>3 DEF Closed, ClosedStays
  <2>2. QED
    BY <1>1, <1>2, <1>3, <2>1, FateKeeps
<1>4. CASE UNCHANGED channel /\ \E f \in {"failed", "gone"} : Fate(r, i, f)
  <2>1. PICK f \in {"failed", "gone"} : Fate(r, i, f)
    BY <1>4
  <2>2. /\ channel' \in [status : {"absent", "open", "sealed", "distributed"},
                         settled : 0..Deposit, by : UptoRequests \cup {"nobody", "payer"}]
        /\ channel'.status = channel.status /\ ClosedStays
    BY <1>4 DEF UptoTypeOK, ClosedStays
  <2>3. QED
    BY <1>1, <1>2, <1>4, <2>1, <2>2, FateKeeps
<1>5. QED
  BY <1>3, <1>4 DEF SettlementLands, SettlementExpires

LEMMA UptoStep == UptoInv /\ [UptoNext]_uptoVars => UptoInv'
<1> SUFFICES ASSUME UptoInv, [UptoNext]_uptoVars PROVE UptoInv'
  OBVIOUS
<1>1. CASE UNCHANGED uptoVars
  <2>1. UNCHANGED <<channel, openTx, host, lagged, stage, busy, actual, unknown, round,
                    verdict, fate, usable, late, payout, faults, stopped>>
    BY <1>1 DEF uptoVars, requestVars, payerVars
  <2>2. UptoTypeOK' /\ ChannelKept' /\ Exclusive' /\ PastOpened' /\ PastAlone'
    BY <2>1 DEF UptoInv, UptoTypeOK, ChannelKept, Exclusive, PastOpened, PastAlone, Past
  <2>3. ASSUME NEW r \in UptoRequests PROVE RequestInv(r)'
    <3>1. Quiet(r) /\ ClosedStays /\ RequestInv(r)
      BY <2>1 DEF Quiet, ClosedStays, UptoInv
    <3>2. QED
      BY <3>1, QuietKeeps
  <2>4. QED
    BY <2>2, <2>3 DEF UptoInv
<1>2. ASSUME NEW r \in UptoRequests, Opens(r) \/ Settles(r) PROVE UptoInv'
  BY <1>2, PrepareKeeps, SendKeeps, ConfirmKeeps, RunKeeps, SettleKeeps, PollKeeps, ResolveKeeps
  DEF Opens, Settles
<1>3. QED
  BY <1>1, <1>2, ChainKeeps, OutsideKeeps, StopKeeps DEF UptoNext

(***************************************************************************)
(* The inductive invariant of an upto authorization, for any number of     *)
(* requests, servers, attempts and faults.                                 *)
(***************************************************************************)
THEOREM UptoInvariant == UptoSpec => []UptoInv
  BY UptoInitially, UptoStep, PTL DEF UptoSpec

(***************************************************************************)
(* The type invariant: in particular a server's in-flight set holds the    *)
(* channel exactly while one of its requests is between prepare_open and   *)
(* the end of its settlement task.                                         *)
(***************************************************************************)
THEOREM UptoTyped == UptoSpec => []UptoTypeOK
<1>1. UptoInv => UptoTypeOK
  BY DEF UptoInv
<1>2. QED
  BY <1>1, UptoInvariant, PTL

(***************************************************************************)
(* The payer was charged only for a response that is not withheld, and a   *)
(* receipt names a settlement of what was metered: settle_served_upto_with *)
(* withholds only when no inline attempt may have landed, and settles zero *)
(* from then on.                                                           *)
(***************************************************************************)
THEOREM ChargedIsOwedHolds == UptoSpec => []ChargedIsOwed
<1>1. UptoInv => ChargedIsOwed
  <2> SUFFICES ASSUME UptoInv PROVE ChargedIsOwed
    OBVIOUS
  <2> USE DEF UptoInv
  <2>1. ASSUME NEW r \in UptoRequests, NEW i \in Tries, fate[r][i] = "ok"
        PROVE  channel.by = r /\ channel.settled = Amount(r, i)
    BY <2>1 DEF RequestInv, LandedIs
  <2>2. ASSUME channel.settled > 0
        PROVE  \E r \in UptoRequests : /\ channel.by = r /\ channel.settled = actual[r]
                                       /\ verdict[r] # "withheld"
    <3>1. PICK r \in UptoRequests, i \in Tries : fate[r][i] = "ok"
      BY <2>2 DEF ChannelKept
    <3>2. channel.by = r /\ channel.settled = Amount(r, i)
      BY <2>1, <3>1
    <3>3. verdict[r] = "withheld" => i > InlineTries
      BY <3>1, UptoAssumption DEF RequestInv, Harmless, MayCharge, Tries
    <3>4. verdict[r] # "withheld"
      BY <2>2, <3>2, <3>3 DEF Amount
    <3>5. QED
      BY <3>2, <3>4 DEF Amount
  <2>3. ASSUME NEW r \in UptoRequests, verdict[r] = "receipt"
        PROVE  channel.by = r /\ channel.settled = actual[r]
    <3>1. PICK i \in Tries : fate[r][i] = "ok"
      BY <2>3 DEF RequestInv, ReceiptLanded
    <3>2. QED
      BY <2>1, <2>3, <3>1 DEF Amount
  <2>4. QED
    BY <2>2, <2>3 DEF ChargedIsOwed
<1>2. QED
  BY <1>1, UptoInvariant, PTL

(***************************************************************************)
(* Requests that reach one server release one response between them, as    *)
(* long as no account read lags: the in-flight guard of prepare_open is    *)
(* held until the channel account is there to be seen.                     *)
(***************************************************************************)
THEOREM OneReleaseHolds == UptoSpec => []OneRelease
<1>1. UptoInv => OneRelease
  <2>1. SUFFICES ASSUME UptoInv, ~lagged, \A q, r \in UptoRequests : host[q] = host[r]
                 PROVE  Cardinality(Released) <= 1
    BY DEF OneRelease
  <2>2. \A q, r \in Released : q = r
    <3>1. \A r \in Released : r \in UptoRequests /\ Past(r)
      BY DEF Released, Past
    <3>2. QED
      BY <2>1, <3>1 DEF UptoInv, PastAlone
  <2>3. CASE Released = {}
    BY <2>3, FS_EmptySet
  <2>4. CASE Released # {}
    <3>1. PICK r \in Released : Released = {r}
      BY <2>2, <2>4
    <3>2. Cardinality({r}) = 1
      BY FS_Singleton
    <3>3. QED
      BY <3>1, <3>2
  <2>5. QED
    BY <2>3, <2>4
<1>2. QED
  BY <1>1, UptoInvariant, PTL

==============================================================================

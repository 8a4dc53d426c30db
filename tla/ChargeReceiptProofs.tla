-------------------------- MODULE ChargeReceiptProofs --------------------------
(***************************************************************************)
(* The receipts of ChargeSettlement: one per challenge, one per signature, *)
(* each backed by a landed transaction and a consumed signature; and the   *)
(* refinement of ChargeLedger.                                             *)
(***************************************************************************)
EXTENDS ChargeSettlementProofs, ChargeRefinement

USE NoneAssumption, BoundAssumption, CredentialAssumption, LimitAssumption

-----------------------------------------------------------------------------
(***************************************************************************)
(* The chains: what is appended carries the digest the challenge is        *)
(* anchored to, and a pending record belongs to a pull credential.         *)
(***************************************************************************)
AnchoredExtend(c, g, r) ==
    /\ ExtendStep(c, g, r)
    /\ Anchor(c, r.digest)
    /\ r.state = "pending" => r.digest \in Pull

AnchoredStep ==
    \/ UNCHANGED recs
    \/ \E c \in Challenges, r \in Records : RootStep(c, r)
    \/ \E c \in Challenges, g \in Generations, r \in Records : AnchoredExtend(c, g, r)

LEMMA TipIsAnchored ==
    ASSUME SharedOK, ChainInv, OneDigest, NEW c \in Challenges, NEW g \in Generations,
           Present(recs[c], g), g + 1 \in Generations => ~Present(recs[c], g + 1)
    PROVE  Anchor(c, recs[c][g].digest)
  <1>1. CASE g = 0
    BY <1>1 DEF Anchor, Generations
  <1>2. CASE g # 0
    <2>1. g > 0 /\ 1 <= g /\ 1 \in Generations
      BY <1>2 DEF Generations
    <2>2. Present(recs[c], 1)
      BY <2>1 DEF ChainInv, NoGaps, Generations
    <2>3. QED
      BY <2>1, <2>2 DEF Anchor, OneDigest
  <1>3. QED
    BY <1>1, <1>2

(***************************************************************************)
(* A step that leaves the later generations alone extends no chain.        *)
(***************************************************************************)
LEMMA RootOnly ==
    ASSUME SharedOK, RecsStep,
           \A c \in Challenges : \A h \in Generations : h > 0 => recs'[c][h] = recs[c][h]
    PROVE  AnchoredStep
  <1>1. ASSUME NEW c \in Challenges, NEW g \in Generations, NEW r \in Records,
               ExtendStep(c, g, r)
        PROVE  FALSE
    <2>1. g + 1 \in Generations /\ g + 1 > 0
      BY <1>1 DEF ExtendStep, Generations
    <2>2. recs'[c][g + 1] = r
      BY <1>1, <2>1 DEF ExtendStep, SharedOK, Chains
    <2>3. QED
      BY <1>1, <2>1, <2>2 DEF ExtendStep, Present
  <1>2. QED
    BY <1>1 DEF RecsStep, AnchoredStep

LEMMA AnchoredSteps ==
    ASSUME ChargeInv, ReceiptInv, [Next]_vars
    PROVE  AnchoredStep
  <1>1. LocalsOK /\ SharedOK /\ RecsStep /\ ChainInv /\ OneDigest
    BY InvTypes, RecsSteps DEF ChargeInv, ReceiptInv
  <1>2. ASSUME NEW t \in Threads, AppendNext(t),
               CanAppend(Record(t), gen[t] + 1), Written(t)
        PROVE  AnchoredStep
    <2> DEFINE r == Successor(pc[t], Record(t)[gen[t]], Sig(t), now)
               c == Chal(t)
               g == gen[t]
    <2>1. /\ c \in Challenges /\ g \in Generations /\ ExtendStep(c, g, r) /\ r \in Records
          /\ Sig(t) \in Signatures
      BY <1>2, WrittenExtends DEF AppendNext
    <2>2. pc[t] \in Ops
      BY <1>2 DEF AppendNext
    <2>3. recs[c][g] \in Records
      BY <1>1, <2>1 DEF SharedOK, Chains
    <2>4. r.digest = recs[c][g].digest
      BY <2>2, <2>3 DEF Record, Ops, Successor, Terminal, Reclaimable, Records
    <2>5. Present(recs[c], g) /\ ~Present(recs[c], g + 1)
      BY <2>1 DEF ExtendStep, State, Present
    <2>6. Anchor(c, r.digest)
      BY <1>1, <2>1, <2>4, <2>5, TipIsAnchored
    <2>7. ASSUME r.state = "pending" PROVE r.digest \in Pull
      <3>1. pc[t] = "mark_pending"
        BY <2>2, <2>3, <2>7 DEF Record, Ops, Successor, Terminal, Reclaimable, Records
      <3>2. cred[t] \in Pull
        BY <3>1 DEF ReceiptInv, ReceiptHandler, InMode, PullOnly
      <3>3. recs[c][g].digest = cred[t]
        <4>1. g < MaxGenerations
          BY <2>1 DEF ExtendStep, Generations
        <4>2. QED
          BY <2>5, <3>1, <4>1 DEF ChargeInv, HandlerInv, ReservationHeld, Open, Record
      <3>4. QED
        BY <2>4, <3>2, <3>3
    <2> HIDE DEF r, c, g
    <2>8. QED
      BY <2>1, <2>6, <2>7 DEF AnchoredStep, AnchoredExtend
  <1>3. ASSUME NEW t \in Threads, TakeOver(t), recs' # recs
        PROVE  AnchoredStep
    <2> DEFINE r == Fresh(cred[t], since[t])
               c == Chal(t)
               g == gen[t]
    <2>1. /\ c \in Challenges /\ g \in Generations /\ r \in Records
      BY <1>1, <1>3, Subjects, RecordTypes DEF TakeOver, LocalsOK
    <2>2. /\ CanAppend(Record(t), g + 1)
          /\ recs' = [recs EXCEPT ![c][g + 1] = r]
          /\ pc[t] = "takeover"
      BY <1>3 DEF TakeOver, Append1
    <2>3. State(c, g) = "reserved"
      BY <2>2 DEF CanAppend, ChargeInv, HandlerInv, TakeOverOpen, Open, State, Record
    <2>4. r.state = "reserved" /\ r.digest = cred[t]
      BY DEF Fresh
    <2>5. ExtendStep(c, g, r)
      BY <2>1, <2>2, <2>3, <2>4 DEF ExtendStep, CanAppend, Record
    <2>6. Anchor(c, r.digest)
      BY <2>2, <2>4 DEF ReceiptInv, ReceiptHandler, Anchored, Reserving
    <2> HIDE DEF r, c, g
    <2>7. QED
      BY <2>1, <2>4, <2>5, <2>6 DEF AnchoredStep, AnchoredExtend
  <1>4. ASSUME NEW t \in Threads, AppendRoot(t) \/ DeleteRoot(t)
        PROVE  \A c \in Challenges : \A h \in Generations : h > 0 => recs'[c][h] = recs[c][h]
    <2>1. recs' = recs \/ \E r : recs' = [recs EXCEPT ![Chal(t)][0] = r]
      BY <1>4 DEF AppendRoot, DeleteRoot, Append1
    <2>2. ASSUME NEW r, recs' = [recs EXCEPT ![Chal(t)][0] = r]
          PROVE  \A c \in Challenges : \A h \in Generations : h > 0 => recs'[c][h] = recs[c][h]
      BY <1>1, <2>2 DEF SharedOK, Chains, Generations
    <2>3. QED
      BY <2>1, <2>2
  <1>5. ASSUME NEW d \in Challenges, RootExpires(d)
        PROVE  \A c \in Challenges : \A h \in Generations : h > 0 => recs'[c][h] = recs[c][h]
    BY <1>1, <1>5 DEF RootExpires, SharedOK, Chains, Generations
  <1>6. CASE UNCHANGED recs
    BY <1>6 DEF AnchoredStep
  <1>7. CASE recs' # recs
    <2>1. \/ \E t \in Threads : \/ AppendNext(t) /\ CanAppend(Record(t), gen[t] + 1) /\ Written(t)
                                \/ TakeOver(t) \/ AppendRoot(t) \/ DeleteRoot(t)
          \/ \E d \in Challenges : RootExpires(d)
      BY <1>7 DEF Next, vars, Handler, Reserve, Settle, Resolve, VerifyBound, VerifyBoundExpired,
         CheckOrphan, RecheckOrphan, Classify, RefusePayload, SendRejected, AwaitConfirmation,
         VerifyPush, Reconcile, ReadTip, Crash, BeginClaim, BeginUnclaim, AbandonRelease,
         ConsumePush, SendAccepted, SendLost, Grant, PayerSubmits, Land, Tick, AppendNext, stored
    <2>2. QED
      BY <1>1, <1>2, <1>3, <1>4, <1>5, <1>7, <2>1, RootOnly
  <1>8. QED
    BY <1>6, <1>7

AnchorNext(c, k) ==
    IF Present(recs'[c], 1) THEN recs'[c][1].digest = k
    ELSE Present(recs'[c], 0) /\ recs'[c][0].digest = k

LEMMA AnchorKept ==
    ASSUME SharedOK, AnchoredStep, NEW c \in Challenges, NEW k, Anchor(c, k)
    PROVE  AnchorNext(c, k)
  <1>1. 0 \in Generations /\ 1 \in Generations
    BY DEF Generations
  <1>2. CASE UNCHANGED recs
    BY <1>2 DEF Anchor, AnchorNext
  <1>3. ASSUME NEW d \in Challenges, NEW r \in Records, RootStep(d, r)
        PROVE  AnchorNext(c, k)
    <2>1. recs'[c][1] = recs[c][1] /\ (c # d => recs'[c][0] = recs[c][0])
      BY <1>1, <1>3 DEF RootStep, SharedOK, Chains
    <2>2. QED
      BY <1>3, <2>1 DEF RootStep, Anchor, AnchorNext, Present
  <1>4. ASSUME NEW d \in Challenges, NEW g \in Generations, NEW r \in Records,
               AnchoredExtend(d, g, r)
        PROVE  AnchorNext(c, k)
    <2>1. \A h \in Generations :
             recs'[c][h] = IF c = d /\ h = g + 1 THEN r ELSE recs[c][h]
      BY <1>4 DEF AnchoredExtend, ExtendStep, SharedOK, Chains
    <2>2. g + 1 # 0 /\ r.state # "absent" /\ ~Present(recs[d], g + 1) /\ Anchor(d, r.digest)
      BY <1>4 DEF AnchoredExtend, ExtendStep, Generations
    <2>3. QED
      BY <1>1, <2>1, <2>2 DEF Anchor, AnchorNext, Present
  <1>5. QED
    BY <1>2, <1>3, <1>4 DEF AnchoredStep

LEMMA DigestsKept ==
    ASSUME SharedOK, ChainInv, OneDigest, PendingIsPull, AnchoredStep
    PROVE  OneDigest' /\ PendingIsPull'
  <1>1. 0 \in Generations /\ 1 \in Generations
    BY DEF Generations
  <1>2. CASE UNCHANGED recs
    BY <1>2 DEF OneDigest, PendingIsPull, State
  <1>3. ASSUME NEW d \in Challenges, NEW r \in Records, RootStep(d, r)
        PROVE  OneDigest' /\ PendingIsPull'
    <2>1. \A c \in Challenges : \A h \in Generations :
            recs'[c][h] = IF c = d /\ h = 0 THEN r ELSE recs[c][h]
      BY <1>1, <1>3 DEF RootStep, SharedOK, Chains
    <2>2. r.state # "pending"
      BY <1>3 DEF RootStep
    <2>3. QED
      BY <1>1, <2>1, <2>2 DEF OneDigest, PendingIsPull, State, Present
  <1>4. ASSUME NEW d \in Challenges, NEW g \in Generations, NEW r \in Records,
               AnchoredExtend(d, g, r)
        PROVE  OneDigest' /\ PendingIsPull'
    <2>1. \A c \in Challenges : \A h \in Generations :
             recs'[c][h] = IF c = d /\ h = g + 1 THEN r ELSE recs[c][h]
      BY <1>4 DEF AnchoredExtend, ExtendStep, SharedOK, Chains
    <2>2. /\ r.state # "absent" /\ ~Present(recs[d], g + 1) /\ Anchor(d, r.digest)
          /\ r.state = "pending" => r.digest \in Pull
          /\ g + 1 \in Generations
      BY <1>4 DEF AnchoredExtend, ExtendStep
    <2>3. PendingIsPull'
      BY <2>1, <2>2 DEF PendingIsPull, State
    <2>4. \A h \in Generations : h > 0 /\ Present(recs[d], h) => Present(recs[d], 1)
      BY <1>1 DEF ChainInv, NoGaps, Generations
    <2>5. CASE g = 0
      BY <1>1, <2>1, <2>2, <2>3, <2>4, <2>5 DEF OneDigest, Present, Anchor
    <2>6. CASE g # 0
      <3>1. g + 1 # 1 /\ g > 0
        BY <2>6 DEF Generations
      <3>2. Present(recs[d], 1)
        BY <1>4, <2>4, <3>1 DEF AnchoredExtend, ExtendStep, Present, State
      <3>3. r.digest = recs[d][1].digest
        BY <2>2, <3>2 DEF Anchor
      <3>4. QED
        BY <1>1, <2>1, <2>3, <3>1, <3>3 DEF OneDigest, Present
    <2>7. QED
      BY <2>3, <2>5, <2>6
  <1>5. QED
    BY <1>2, <1>3, <1>4 DEF AnchoredStep

-----------------------------------------------------------------------------
(***************************************************************************)
(* The handlers.                                                           *)
(***************************************************************************)
ThreadStep(t) ==
    \/ \E k \in Credentials : VerifyBound(t, k) \/ VerifyBoundExpired(t, k)
    \/ Handler(t)
    \/ Crash(t)

LandingKept == \A s \in Signatures : chain[s] = "ok" => chain'[s] = "ok"

LEMMA ReceiptFrame ==
    ASSUME ChargeInv, ReceiptInv, AnchoredStep, LandingKept, NEW u \in Threads, SameLocals(u)
    PROVE  ReceiptHandler(u)'
  <1>1. LocalsOK /\ SharedOK /\ ReceiptHandler(u)
    BY InvTypes DEF ReceiptInv
  <1>2. CASE pc[u] = "idle"
    BY <1>2 DEF SameLocals, ReceiptHandler, Anchored, InMode, SawLanding, Reserving, PullOnly,
       Broadcasting, Withdrawing
  <1>3. CASE pc[u] # "idle"
    <2>1. Chal(u) \in Challenges /\ Sig(u) \in Signatures
      BY <1>1, <1>3, Subjects
    <2>2. Chal(u)' = Chal(u) /\ Sig(u)' = Sig(u)
      BY DEF SameLocals, Chal, Sig
    <2>3. Anchor(Chal(u), cred[u]) => AnchorNext(Chal(u), cred[u])
      BY <1>1, <2>1, AnchorKept
    <2>4. Anchored(u)'
      BY <1>1, <2>2, <2>3 DEF ReceiptHandler, Anchored, SameLocals, Anchor, AnchorNext
    <2>5. InMode(u)' /\ SawLanding(u)'
      BY <1>1, <2>1, <2>2 DEF ReceiptHandler, InMode, SawLanding, SameLocals, LandingKept
    <2>6. QED
      BY <2>4, <2>5 DEF ReceiptHandler
  <1>4. QED
    BY <1>2, <1>3

(***************************************************************************)
(* A handler past reserve moves on with its credential.                    *)
(***************************************************************************)
LEMMA ReceiptMove ==
    ASSUME ChargeInv, ReceiptInv, AnchoredStep, NEW t \in Threads, pc[t] \notin Reserving,
           NEW l, pc' = [pc EXCEPT ![t] = l], cred'[t] = cred[t], UNCHANGED chain,
           l \in PullOnly => cred[t] \in Pull,
           l = "consume" => cred[t] \notin Pull,
           l \in {"consume", "mark_confirmed", "confirm_pending", "grant"}
             => chain[Sig(t)] = "ok"
    PROVE  ReceiptHandler(t)'
  <1>1. LocalsOK /\ SharedOK /\ pc[t] # "idle"
    BY InvTypes DEF Reserving
  <1>2. pc'[t] = l
    BY <1>1 DEF LocalsOK
  <1>3. Chal(t) \in Challenges /\ Sig(t)' = Sig(t) /\ Chal(t)' = Chal(t)
    BY <1>1, Subjects DEF Chal, Sig
  <1>4. Anchor(Chal(t), cred[t])
    BY DEF ReceiptInv, ReceiptHandler, Anchored
  <1>5. AnchorNext(Chal(t), cred[t])
    BY <1>1, <1>3, <1>4, AnchorKept
  <1>6. Anchored(t)' /\ InMode(t)' /\ SawLanding(t)'
    BY <1>2, <1>3, <1>5 DEF Anchored, Anchor, AnchorNext, InMode, SawLanding
  <1>7. QED
    BY <1>6 DEF ReceiptHandler

LEMMA ReceiptReturn ==
    ASSUME LocalsOK, NEW t \in Threads, Return(t)
    PROVE  ReceiptHandler(t)'
  <1>1. pc'[t] = "idle"
    BY DEF LocalsOK, Return
  <1>2. QED
    BY <1>1 DEF ReceiptHandler, Anchored, InMode, SawLanding, Reserving, PullOnly, Broadcasting,
       Withdrawing

LEMMA ReceiptOwn ==
    ASSUME ChargeInv, ReceiptInv, AnchoredStep, NEW t \in Threads, ThreadStep(t)
    PROVE  ReceiptHandler(t)'
  <1>1. LocalsOK /\ SharedOK /\ ChainInv /\ OneDigest /\ PendingIsPull /\ ReceiptHandler(t)
        /\ HandlerInv(t)
    BY InvTypes DEF ReceiptInv, ChargeInv
  <1>2. UNCHANGED chain
    BY DEF ThreadStep, VerifyBound, VerifyBoundExpired, Crash, Handler, Reserve, Settle, Resolve,
       CheckOrphan, AppendRoot, RecheckOrphan, DeleteRoot, Classify, TakeOver, RefusePayload,
       BeginClaim, BeginUnclaim, SendAccepted, SendRejected, SendLost, AwaitConfirmation,
       AbandonRelease, VerifyPush, ConsumePush, Reconcile, ReadTip, AppendNext, Grant, outside
  <1>3. CASE Return(t)
    BY <1>1, <1>3, ReceiptReturn
  <1> DEFINE early == {"check_orphan", "append_root", "recheck", "delete_root", "classify"}
  <1>4. CASE \E l \in early : pc' = [pc EXCEPT ![t] = l]
    BY <1>1, <1>4 DEF LocalsOK, ReceiptHandler, Anchored, InMode, SawLanding, Reserving,
       PullOnly, Broadcasting, Withdrawing
  <1>5. ASSUME NEW k \in Credentials, VerifyBound(t, k) \/ VerifyBoundExpired(t, k)
        PROVE  ReceiptHandler(t)'
    <2>1. CASE VerifyBound(t, k)
      BY <1>4, <2>1 DEF VerifyBound, Goto
    <2>2. CASE VerifyBoundExpired(t, k)
      <3>1. PICK g \in Generations : ExpiredPending(ChallengeOf[k], k, g)
        BY <2>2 DEF VerifyBoundExpired
      <3>2. /\ pc'[t] = "reconcile" /\ cred'[t] = k /\ UNCHANGED recs
            /\ ChallengeOf[k] \in Challenges
        BY <1>1, <2>2 DEF VerifyBoundExpired, Goto, LocalsOK, stored
      <3>3. /\ Present(recs[ChallengeOf[k]], g) /\ ~Present(recs[ChallengeOf[k]], g + 1)
            /\ State(ChallengeOf[k], g) = "pending" /\ recs[ChallengeOf[k]][g].digest = k
        BY <3>1 DEF ExpiredPending, Present, IsTip, State
      <3>4. Anchor(ChallengeOf[k], k) /\ k \in Pull
        BY <1>1, <3>2, <3>3, TipIsAnchored DEF PendingIsPull
      <3>5. QED
        BY <3>2, <3>4 DEF ReceiptHandler, Anchored, InMode, SawLanding, Anchor, Chal
    <2>3. QED
      BY <1>5, <2>1, <2>2
  <1>6. CASE CheckOrphan(t) \/ AppendRoot(t)
    BY <1>3, <1>4, <1>6 DEF CheckOrphan, AppendRoot, Goto
  <1>7. CASE RecheckOrphan(t)
    <2>1. CASE Present(Record(t), 1)
      BY <1>4, <1>7, <2>1 DEF RecheckOrphan, Goto
    <2>2. CASE ~Present(Record(t), 1)
      <3>1. /\ pc'[t] = "settle" /\ cred'[t] = cred[t] /\ UNCHANGED recs /\ pc[t] = "recheck"
        BY <1>1, <1>7, <2>2 DEF RecheckOrphan, Goto, LocalsOK, stored, locals
      <3>2. gen[t] = 0 /\ 0 < MaxGenerations
        BY <1>1, <3>1 DEF HandlerInv, StartsAtRoot
      <3>3. Record(t)[0].state = "reserved" /\ Record(t)[0].digest = cred[t]
        BY <1>1, <2>2, <3>1, <3>2 DEF HandlerInv, ReservationHeld, Open
      <3>4. Anchor(Chal(t), cred[t])
        BY <2>2, <3>3 DEF Anchor, Record, Present
      <3>5. QED
        BY <3>1, <3>4 DEF ReceiptHandler, Anchored, InMode, SawLanding, Anchor, Chal, PullOnly,
           Broadcasting, Withdrawing
    <2>3. QED
      BY <2>1, <2>2
  <1>8. CASE Classify(t)
    <2>1. CASE ~Return(t)
      <3>1. PICK g \in Generations :
              /\ IsTip(Record(t), g) /\ Record(t)[g].digest = cred[t]
              /\ \/ Record(t)[g].state = "pending" /\ pc' = [pc EXCEPT ![t] = "reconcile"]
                 \/ pc' = [pc EXCEPT ![t] = "takeover"]
              /\ UNCHANGED cred
        BY <1>8, <2>1 DEF Classify, Goto
      <3>2. UNCHANGED recs /\ pc[t] # "idle"
        BY <1>8 DEF Classify, stored
      <3>3. Chal(t) \in Challenges
        BY <1>1, <3>2, Subjects
      <3>4. Present(recs[Chal(t)], g) /\ ~Present(recs[Chal(t)], g + 1)
        BY <3>1 DEF IsTip, Record, Generations
      <3>5. Anchor(Chal(t), cred[t])
        BY <1>1, <3>1, <3>3, <3>4, TipIsAnchored DEF Record
      <3>6. pc'[t] = "reconcile" => cred[t] \in Pull
        BY <1>1, <3>1, <3>3 DEF PendingIsPull, State, Record, LocalsOK
      <3>7. pc'[t] \in {"reconcile", "takeover"}
        BY <1>1, <3>1 DEF LocalsOK
      <3>8. QED
        BY <3>1, <3>2, <3>5, <3>6, <3>7 DEF ReceiptHandler, Anchored, InMode, SawLanding, Anchor,
           Chal, PullOnly, Broadcasting, Withdrawing
    <2>2. QED
      BY <1>3, <2>1
  <1>9. CASE TakeOver(t)
    <2>1. pc[t] \notin Reserving /\ cred'[t] = cred[t]
      BY <1>9 DEF TakeOver, Reserving
    <2>2. pc' = [pc EXCEPT ![t] = "settle"] \/ pc' = [pc EXCEPT ![t] = "classify"]
      BY <1>9 DEF TakeOver, Goto
    <2>3. "settle" \notin PullOnly
      BY DEF PullOnly, Broadcasting, Withdrawing
    <2>4. CASE pc' = [pc EXCEPT ![t] = "settle"]
      BY <1>2, <2>1, <2>3, <2>4, ReceiptMove
    <2>5. QED
      BY <1>4, <2>2, <2>4
  <1> DEFINE landed == {"consume", "mark_confirmed", "confirm_pending", "grant"}
  <1>10. ASSUME NEW l, pc' = [pc EXCEPT ![t] = l], cred'[t] = cred[t], pc[t] \notin Reserving,
                l \in PullOnly => cred[t] \in Pull, l = "consume" => cred[t] \notin Pull,
                l \in landed => chain[Sig(t)] = "ok"
         PROVE  ReceiptHandler(t)'
    BY <1>2, <1>10, ReceiptMove
  <1> HIDE DEF early, landed
  <1>11. CASE Settle(t) /\ ~Return(t)
    <2>1. \E l : /\ pc' = [pc EXCEPT ![t] = l]
                 /\ l \in PullOnly => cred[t] \in Pull
                 /\ l = "consume" => cred[t] \notin Pull
                 /\ l \in landed => chain[Sig(t)] = "ok"
      <3> USE DEF ReceiptHandler, InMode, SawLanding, PullOnly, Broadcasting, Withdrawing, landed, Goto
      <3>1. CASE RefusePayload(t) \/ VerifyPush(t)
        BY <1>1, <3>1 DEF RefusePayload, VerifyPush
      <3>2. CASE BeginClaim(t) \/ ConsumePush(t)
        <4>1. CASE pc[t] = "settle" /\ cred[t] \in Pull /\ Claim(t, "mark_pending", "mark_failed")
          BY <4>1 DEF Claim
        <4>2. CASE pc[t] = "consume" /\ Claim(t, "mark_confirmed", "mark_failed")
          BY <1>1, <4>2 DEF Claim
        <4>3. QED
          BY <3>2, <4>1, <4>2 DEF BeginClaim, ConsumePush
      <3>3. CASE BeginUnclaim(t) \/ AbandonRelease(t)
        BY <1>1, <3>3 DEF BeginUnclaim, AbandonRelease, Release
      <3>4. CASE SendAccepted(t)
        <4>1. cred[t] \in Pull
          BY <1>1, <3>4 DEF SendAccepted
        <4>2. pc' = [pc EXCEPT ![t] = "await"]
          BY <3>4 DEF SendAccepted
        <4>3. "await" # "consume" /\ "await" \notin landed
          OBVIOUS
        <4>4. QED
          BY <4>1, <4>2, <4>3, Zenon
      <3>5. CASE SendRejected(t) \/ SendLost(t)
        <4>1. CASE pc' = pc
          <5>1. pc' = [pc EXCEPT ![t] = pc[t]]
            BY <1>1, <4>1 DEF LocalsOK
          <5>2. QED
            BY <1>1, <5>1
        <4>2. QED
          BY <1>1, <1>11, <3>5, <4>1 DEF SendRejected, SendLost
      <3>6. CASE AwaitConfirmation(t)
        BY <1>1, <1>11, <3>6 DEF AwaitConfirmation
      <3>7. QED
        BY <1>11, <3>1, <3>2, <3>3, <3>4, <3>5, <3>6 DEF Settle
    <2>2. pc[t] \notin Reserving /\ cred'[t] = cred[t]
      BY <1>11 DEF Settle, RefusePayload, BeginClaim, BeginUnclaim, SendAccepted, SendRejected,
         SendLost, AwaitConfirmation, AbandonRelease, VerifyPush, ConsumePush, Reserving, locals
    <2>3. QED
      BY <1>10, <2>1, <2>2
  <1>12. CASE Resolve(t) /\ ~Return(t)
    <2>1. pc[t] \notin Reserving /\ cred'[t] = cred[t]
      BY <1>12 DEF Resolve, Reconcile, ReadTip, AppendNext, Grant, Continue, Reserving, Ops, locals
    <2>2. \E l : /\ pc' = [pc EXCEPT ![t] = l]
                 /\ l \in PullOnly => cred[t] \in Pull
                 /\ l = "consume" => cred[t] \notin Pull
                 /\ l \in landed => chain[Sig(t)] = "ok"
      <3> USE DEF ReceiptHandler, InMode, SawLanding, PullOnly, Broadcasting, Withdrawing, landed, Goto
      <3>1. CASE Reconcile(t)
        BY <1>1, <1>12, <3>1 DEF Reconcile
      <3>2. CASE pc' = pc
        <4>1. pc' = [pc EXCEPT ![t] = pc[t]]
          BY <1>1, <3>2 DEF LocalsOK
        <4>2. QED
          BY <1>1, <4>1
      <3>3. ASSUME pc[t] \in Ops,
                   \E l \in {AfterTrue(pc[t]), AfterFalse(pc[t]), AfterError(pc[t], cred[t])} :
                      pc' = [pc EXCEPT ![t] = l]
            PROVE  \E l : /\ pc' = [pc EXCEPT ![t] = l]
                          /\ l \in PullOnly => cred[t] \in Pull
                          /\ l = "consume" => cred[t] \notin Pull
                          /\ l \in landed => chain[Sig(t)] = "ok"
        <4>1. ASSUME NEW l \in {AfterTrue(pc[t]), AfterFalse(pc[t]), AfterError(pc[t], cred[t])}
              PROVE  /\ l \in PullOnly => cred[t] \in Pull
                     /\ l = "consume" => cred[t] \notin Pull
                     /\ l \in landed => chain[Sig(t)] = "ok"
          BY <1>1, <3>3, <4>1 DEF AfterTrue, AfterFalse, AfterError, Ops
        <4>2. QED
          BY <3>3, <4>1
      <3>4. CASE ReadTip(t)
        BY <1>12, <3>2, <3>3, <3>4 DEF ReadTip, Continue
      <3>5. CASE AppendNext(t)
        BY <1>12, <3>2, <3>3, <3>5 DEF AppendNext, Continue
      <3>6. QED
        BY <1>12, <3>1, <3>4, <3>5 DEF Resolve, Grant
    <2>3. QED
      BY <1>10, <2>1, <2>2
  <1>13. QED
    BY <1>3, <1>5, <1>6, <1>7, <1>8, <1>9, <1>11, <1>12
       DEF ThreadStep, Handler, Reserve, Crash, DeleteRoot

-----------------------------------------------------------------------------
(***************************************************************************)
(* The claims on signatures: a step of a handler keeps, takes or frees one.*)
(***************************************************************************)
OthersStay(t) == \A u \in Threads : u # t => SameLocals(u)

KeepsClaim(t) ==
    /\ HoldsClaim(t)' => HoldsClaim(t) /\ cred'[t] = cred[t]
    /\ \A s \in Signatures : ledger'[s] \in {ledger[s], "consumed"}

TakesClaim(t) ==
    /\ Sig(t) \in Signatures /\ ledger[Sig(t)] = "free" /\ cred'[t] = cred[t]
    /\ ledger' = [ledger EXCEPT ![Sig(t)] = "consumed"]

FreesClaim(t) ==
    /\ pc[t] \in {"unclaim", "abandon"} /\ ~HoldsClaim(t)'
    /\ ledger' = [ledger EXCEPT ![Sig(t)] = "free"]

LEMMA ClaimSteps ==
    ASSUME ChargeInv, ReceiptInv, NEW t \in Threads, ThreadStep(t)
    PROVE  KeepsClaim(t) \/ TakesClaim(t) \/ FreesClaim(t)
  <1>1. LocalsOK /\ SharedOK /\ InMode(t)
    BY InvTypes DEF ReceiptInv, ReceiptHandler
  <1>2. ASSUME UNCHANGED ledger, HoldsClaim(t)' => HoldsClaim(t) /\ cred'[t] = cred[t]
        PROVE  KeepsClaim(t)
    BY <1>2 DEF KeepsClaim
  <1>3. ASSUME Return(t), UNCHANGED ledger PROVE KeepsClaim(t)
    <2>1. pc'[t] = "idle"
      BY <1>1, <1>3 DEF Return, LocalsOK
    <2>2. QED
      BY <1>2, <1>3, <2>1 DEF HoldsClaim
  <1>4. ASSUME NEW held, Claim(t, held, "mark_failed"), pc[t] # "idle", UNCHANGED cred
        PROVE  KeepsClaim(t) \/ TakesClaim(t)
    <2>1. Sig(t) \in Signatures
      BY <1>1, <1>4, Subjects
    <2>2. CASE ledger[Sig(t)] = "free" /\ ledger' = [ledger EXCEPT ![Sig(t)] = "consumed"]
      BY <1>4, <2>1, <2>2 DEF TakesClaim
    <2>3. CASE /\ pc' = [pc EXCEPT ![t] = "mark_failed"]
               /\ ledger' \in {ledger, [ledger EXCEPT ![Sig(t)] = "consumed"]}
      <3>1. ~HoldsClaim(t)'
        BY <1>1, <2>3 DEF HoldsClaim, LocalsOK
      <3>2. \A s \in Signatures : ledger'[s] \in {ledger[s], "consumed"}
        BY <1>1, <2>1, <2>3 DEF SharedOK
      <3>3. QED
        BY <3>1, <3>2 DEF KeepsClaim
    <2>4. QED
      BY <1>4, <2>2, <2>3 DEF Claim, Goto
  <1>5. ASSUME NEW l \in {"mark_failed", "release_pending"}, Release(t, l),
               pc[t] \in {"unclaim", "abandon"}
        PROVE  KeepsClaim(t) \/ FreesClaim(t)
    <2>1. ~HoldsClaim(t)'
      BY <1>1, <1>5 DEF Release, Goto, HoldsClaim, LocalsOK
    <2>2. QED
      BY <1>2, <1>5, <2>1 DEF Release, FreesClaim
  <1>6. ASSUME NEW k \in Credentials, VerifyBound(t, k) \/ VerifyBoundExpired(t, k)
        PROVE  KeepsClaim(t)
    <2>1. UNCHANGED ledger /\ ~HoldsClaim(t)'
      BY <1>1, <1>6 DEF VerifyBound, VerifyBoundExpired, Goto, stored, HoldsClaim, LocalsOK
    <2>2. QED
      BY <1>2, <2>1
  <1>7. CASE Reserve(t)
    <2>1. UNCHANGED ledger
      BY <1>7 DEF Reserve, CheckOrphan, AppendRoot, RecheckOrphan, DeleteRoot, Classify, TakeOver,
         stored
    <2>2. CASE ~Return(t)
      <3>1. ~HoldsClaim(t)'
        BY <1>1, <1>7, <2>2 DEF Reserve, CheckOrphan, AppendRoot, RecheckOrphan, DeleteRoot,
           Classify, TakeOver, Goto, HoldsClaim, LocalsOK
      <3>2. QED
        BY <1>2, <2>1, <3>1
    <2>3. QED
      BY <1>3, <2>1, <2>2
  <1>8. CASE BeginClaim(t) \/ ConsumePush(t)
    BY <1>4, <1>8 DEF BeginClaim, ConsumePush, locals
  <1>9. CASE BeginUnclaim(t) \/ AbandonRelease(t)
    BY <1>5, <1>9 DEF BeginUnclaim, AbandonRelease
  <1>10. CASE RefusePayload(t) \/ VerifyPush(t) \/ SendAccepted(t)
    <2>1. UNCHANGED ledger /\ ~HoldsClaim(t)'
      BY <1>1, <1>10 DEF RefusePayload, VerifyPush, SendAccepted, Goto, stored, HoldsClaim, LocalsOK
    <2>2. QED
      BY <1>2, <2>1
  <1>11. CASE SendRejected(t) \/ SendLost(t)
    <2>1. UNCHANGED ledger /\ HoldsClaim(t)
      BY <1>11 DEF SendRejected, SendLost, stored, HoldsClaim
    <2>2. Return(t) \/ UNCHANGED cred
      BY <1>11 DEF SendRejected, SendLost, locals
    <2>3. QED
      BY <1>2, <1>3, <2>1, <2>2
  <1>12. CASE AwaitConfirmation(t) \/ Reconcile(t)
    <2>1. UNCHANGED ledger
      BY <1>12 DEF AwaitConfirmation, Reconcile, stored
    <2>2. CASE ~Return(t)
      <3>1. cred[t] \in Pull /\ UNCHANGED cred
        BY <1>1, <1>12, <2>2 DEF AwaitConfirmation, Reconcile, InMode, PullOnly, Broadcasting, locals
      <3>2. pc'[t] \in {"mark_confirmed", "mark_failed", "confirm_pending"}
        BY <1>1, <1>12, <2>2 DEF AwaitConfirmation, Reconcile, Goto, LocalsOK
      <3>3. QED
        BY <1>2, <2>1, <3>1, <3>2 DEF HoldsClaim
    <2>3. QED
      BY <1>3, <2>1, <2>2
  <1>13. CASE ReadTip(t) \/ AppendNext(t)
    <2>1. UNCHANGED ledger /\ pc[t] \in Ops
      BY <1>13 DEF ReadTip, AppendNext, stored
    <2>2. CASE ~Return(t)
      <3>1. UNCHANGED cred
        BY <1>13, <2>2 DEF ReadTip, AppendNext, Continue
      <3>2. pc'[t] \in {pc[t], AfterTrue(pc[t]), AfterFalse(pc[t]), AfterError(pc[t], cred[t])}
        BY <1>1, <1>13, <2>2 DEF ReadTip, AppendNext, Continue, Goto, LocalsOK
      <3>3. HoldsClaim(t)' => HoldsClaim(t)
        BY <1>1, <2>1, <3>1, <3>2 DEF HoldsClaim, Ops, AfterTrue, AfterFalse, AfterError, InMode,
           PullOnly, Broadcasting, Withdrawing
      <3>4. QED
        BY <1>2, <2>1, <3>1, <3>3
    <2>3. QED
      BY <1>3, <2>1, <2>2
  <1>14. CASE Grant(t) \/ Crash(t)
    BY <1>3, <1>14 DEF Grant, Crash, stored
  <1>15. QED
    BY <1>6, <1>7, <1>8, <1>9, <1>10, <1>11, <1>12, <1>13, <1>14
       DEF ThreadStep, Handler, Settle, Resolve

LEMMA ClaimOfOther ==
    ASSUME NEW u, SameLocals(u)
    PROVE  /\ HoldsClaim(u)' <=> HoldsClaim(u)
           /\ Sig(u)' = Sig(u) /\ Chal(u)' = Chal(u) /\ SendKey(u)' = SendKey(u)
  BY DEF SameLocals, HoldsClaim, Sig, Chal, SendKey

LEMMA ClaimHasSignature ==
    ASSUME LocalsOK, NEW t \in Threads, HoldsClaim(t)
    PROVE  Sig(t) \in Signatures
  BY Subjects DEF HoldsClaim

LEMMA ClaimsKept ==
    ASSUME ChargeInv, ReceiptInv, NEW t \in Threads, OthersStay(t),
           KeepsClaim(t) \/ TakesClaim(t) \/ FreesClaim(t)
    PROVE  ClaimsExclusive'
  <1>1. LocalsOK /\ SharedOK /\ ClaimsExclusive
    BY InvTypes DEF ReceiptInv
  <1>2. \A u \in Threads : HoldsClaim(u) => Sig(u) \in Signatures
    BY <1>1, ClaimHasSignature
  <1>3. \A u \in Threads : u # t => (HoldsClaim(u)' <=> HoldsClaim(u)) /\ Sig(u)' = Sig(u)
    BY ClaimOfOther DEF OthersStay
  <1>4. CASE KeepsClaim(t)
    <2>1. HoldsClaim(t)' => HoldsClaim(t) /\ Sig(t)' = Sig(t)
      BY <1>4 DEF KeepsClaim, Sig
    <2>2. \A u \in Threads : HoldsClaim(u) => ledger'[Sig(u)] = "consumed"
      BY <1>1, <1>2, <1>4 DEF KeepsClaim, ClaimsExclusive
    <2>3. QED
      BY <1>1, <1>3, <2>1, <2>2 DEF ClaimsExclusive
  <1>5. CASE TakesClaim(t)
    <2>1. Sig(t)' = Sig(t) /\ \A u \in Threads : HoldsClaim(u) => Sig(u) # Sig(t)
      BY <1>1, <1>5 DEF TakesClaim, Sig, ClaimsExclusive
    <2>2. /\ ledger'[Sig(t)] = "consumed"
          /\ \A u \in Threads : HoldsClaim(u) => ledger'[Sig(u)] = "consumed"
      BY <1>1, <1>2, <1>5 DEF TakesClaim, ClaimsExclusive, SharedOK
    <2>3. QED
      BY <1>1, <1>3, <2>1, <2>2 DEF ClaimsExclusive
  <1>6. CASE FreesClaim(t)
    <2>1. HoldsClaim(t) /\ ~HoldsClaim(t)'
      BY <1>6 DEF FreesClaim, HoldsClaim
    <2>2. \A u \in Threads : u # t /\ HoldsClaim(u) => ledger'[Sig(u)] = "consumed"
      BY <1>1, <1>2, <1>6, <2>1 DEF FreesClaim, ClaimsExclusive, SharedOK
    <2>3. QED
      BY <1>1, <1>3, <2>1, <2>2 DEF ClaimsExclusive
  <1>7. QED
    BY <1>4, <1>5, <1>6

(***************************************************************************)
(* A handler that broadcasts goes on broadcasting, or withdraws what it    *)
(* never sent.                                                             *)
(***************************************************************************)
SendMove(t) ==
    /\ \/ UNCHANGED sends
       \/ /\ pc[t] \in {"send", "send_unchecked"}
          /\ sends' = sends \cup {SendKey(t)}
    /\ pc[t] \in {"send", "send_unchecked"} /\ HoldsClaim(t)' =>
         \/ pc'[t] \in {"send", "send_unchecked"} /\ SendKey(t)' = SendKey(t)
         \/ SendKey(t) \notin sends /\ UNCHANGED sends

LEMMA SendMoves ==
    ASSUME ChargeInv, NEW t \in Threads, ThreadStep(t)
    PROVE  SendMove(t)
  <1>1. LocalsOK /\ SharedOK /\ NotHandedOver
    BY InvTypes DEF ChargeInv, FenceInv
  <1>2. ASSUME Return(t) PROVE ~HoldsClaim(t)'
    BY <1>1, <1>2 DEF Return, LocalsOK, HoldsClaim
  <1>3. CASE SendAccepted(t)
    <2>1. ~HoldsClaim(t)'
      BY <1>1, <1>3 DEF SendAccepted, Goto, LocalsOK, HoldsClaim
    <2>2. QED
      BY <1>3, <2>1 DEF SendMove, SendAccepted, HandedOver, SendKey
  <1>4. CASE SendLost(t)
    <2>1. Return(t) \/ UNCHANGED <<pc, cred, gen>>
      BY <1>4 DEF SendLost
    <2>2. UNCHANGED sends \/ sends' = sends \cup {SendKey(t)}
      BY <1>4 DEF SendLost, HandedOver, SendKey
    <2>3. QED
      BY <1>2, <1>4, <2>1, <2>2 DEF SendMove, SendLost, SendKey, Chal, Sig
  <1>5. CASE SendRejected(t)
    <2>1. \/ Return(t)
          \/ UNCHANGED <<pc, cred, gen>>
          \/ pc'[t] = "send_unchecked" /\ UNCHANGED <<cred, gen>>
          \/ ~maybeSent[t]
      BY <1>1, <1>5 DEF SendRejected, Goto, locals, LocalsOK
    <2>2. UNCHANGED sends /\ pc[t] = "send"
      BY <1>5 DEF SendRejected, outside
    <2>3. ~maybeSent[t] => SendKey(t) \notin sends
      BY <1>1, <2>2 DEF NotHandedOver
    <2>4. QED
      BY <1>2, <2>1, <2>2, <2>3 DEF SendMove, SendKey, Chal, Sig
  <1>6. CASE pc[t] \notin {"send", "send_unchecked"} /\ UNCHANGED sends
    BY <1>6 DEF SendMove
  <1>7. CASE Crash(t)
    BY <1>2, <1>7 DEF SendMove, Crash, outside
  <1>8. ASSUME Reserve(t) \/ Resolve(t) \/ RefusePayload(t) \/ BeginClaim(t) \/ BeginUnclaim(t)
                 \/ AwaitConfirmation(t) \/ AbandonRelease(t) \/ VerifyPush(t) \/ ConsumePush(t)
                 \/ \E k \in Credentials : VerifyBound(t, k) \/ VerifyBoundExpired(t, k)
        PROVE  pc[t] \notin {"send", "send_unchecked"} /\ UNCHANGED sends
    BY <1>8 DEF Reserve, CheckOrphan, AppendRoot, RecheckOrphan, DeleteRoot, Classify, TakeOver,
       Resolve, Reconcile, ReadTip, AppendNext, Grant, RefusePayload, BeginClaim, BeginUnclaim,
       AwaitConfirmation, AbandonRelease, VerifyPush, ConsumePush, VerifyBound, VerifyBoundExpired,
       outside, Ops
  <1>9. QED
    BY <1>3, <1>4, <1>5, <1>6, <1>7, <1>8 DEF ThreadStep, Handler, Settle

LEMMA SentKept ==
    ASSUME ChargeInv, ReceiptInv, NEW t \in Threads, OthersStay(t), SendMove(t),
           KeepsClaim(t) \/ TakesClaim(t) \/ FreesClaim(t)
    PROVE  SentStaysConsumed'
  <1>1. LocalsOK /\ SharedOK /\ SentStaysConsumed /\ ClaimsExclusive
    BY InvTypes DEF ReceiptInv
  <1>2. \A u \in Threads : u # t =>
          /\ HoldsClaim(u)' <=> HoldsClaim(u)
          /\ Sig(u)' = Sig(u) /\ SendKey(u)' = SendKey(u) /\ pc'[u] = pc[u]
    BY ClaimOfOther DEF OthersStay, SameLocals
  <1>3. \A e \in sends : e[3] \in Signatures
    BY <1>1 DEF SharedOK
  <1>4. ASSUME NEW e \in sends
        PROVE  /\ ledger'[e[3]] = "consumed"
               /\ \A u \in Threads : HoldsClaim(u)' /\ Sig(u)' = e[3] =>
                    pc'[u] \in {"send", "send_unchecked"} /\ e = SendKey(u)'
    <2>1. e[3] \in Signatures /\ ledger[e[3]] = "consumed"
      BY <1>1, <1>3 DEF SentStaysConsumed
    <2>2. ASSUME NEW u \in Threads, u # t, HoldsClaim(u)', Sig(u)' = e[3]
          PROVE  pc'[u] \in {"send", "send_unchecked"} /\ e = SendKey(u)'
      BY <1>1, <1>2, <2>2 DEF SentStaysConsumed
    <2>3. CASE KeepsClaim(t)
      <3>1. ledger'[e[3]] = "consumed"
        BY <2>1, <2>3 DEF KeepsClaim
      <3>2. ASSUME HoldsClaim(t)', Sig(t)' = e[3]
            PROVE  pc'[t] \in {"send", "send_unchecked"} /\ e = SendKey(t)'
        <4>1. HoldsClaim(t) /\ Sig(t) = e[3]
          BY <2>3, <3>2 DEF KeepsClaim, Sig
        <4>2. pc[t] \in {"send", "send_unchecked"} /\ e = SendKey(t)
          BY <1>1, <4>1 DEF SentStaysConsumed
        <4>3. QED
          BY <3>2, <4>2 DEF SendMove
      <3>3. QED
        BY <2>2, <3>1, <3>2
    <2>4. CASE TakesClaim(t)
      <3>1. Sig(t)' # e[3] /\ ledger'[e[3]] = "consumed"
        BY <1>1, <2>1, <2>4 DEF TakesClaim, Sig, SharedOK
      <3>2. QED
        BY <2>2, <3>1
    <2>5. CASE FreesClaim(t)
      <3>1. HoldsClaim(t) /\ pc[t] \notin {"send", "send_unchecked"} /\ ~HoldsClaim(t)'
        BY <2>5 DEF FreesClaim, HoldsClaim
      <3>2. Sig(t) # e[3]
        BY <1>1, <3>1 DEF SentStaysConsumed
      <3>3. ledger'[e[3]] = "consumed"
        BY <1>1, <2>1, <2>5, <3>2 DEF FreesClaim, SharedOK
      <3>4. QED
        BY <2>2, <3>1, <3>3
    <2>6. QED
      BY <2>3, <2>4, <2>5
  <1>5. CASE UNCHANGED sends
    BY <1>4, <1>5 DEF SentStaysConsumed
  <1>6. CASE pc[t] \in {"send", "send_unchecked"} /\ sends' = sends \cup {SendKey(t)}
    <2>1. HoldsClaim(t) /\ Sig(t) \in Signatures
      BY <1>1, <1>6, Subjects DEF HoldsClaim
    <2>2. ledger[Sig(t)] = "consumed" /\ \A u \in Threads : HoldsClaim(u) /\ Sig(u) = Sig(t) => u = t
      BY <1>1, <2>1 DEF ClaimsExclusive
    <2>3. ledger'[Sig(t)] = "consumed"
      BY <1>6, <2>1, <2>2 DEF KeepsClaim, TakesClaim, FreesClaim
    <2>4. SendKey(t)[3] = Sig(t)
      BY DEF SendKey
    <2>5. ASSUME NEW u \in Threads, HoldsClaim(u)', Sig(u)' = Sig(t)
          PROVE  pc'[u] \in {"send", "send_unchecked"} /\ SendKey(t) = SendKey(u)'
      <3>1. u = t
        BY <1>2, <2>2, <2>5
      <3>2. QED
        BY <1>6, <2>5, <3>1 DEF SendMove, KeepsClaim
    <2>6. QED
      BY <1>4, <1>6, <2>3, <2>4, <2>5 DEF SentStaysConsumed
  <1>7. QED
    BY <1>5, <1>6 DEF SendMove

-----------------------------------------------------------------------------
(***************************************************************************)
(* Only what was handed to a node lands.                                   *)
(***************************************************************************)
LEMMA SubmittedKept ==
    ASSUME ChargeInv, ReceiptInv, [Next]_vars
    PROVE  LandedWasSubmitted'
  <1>1. LocalsOK /\ SharedOK /\ LandedWasSubmitted
    BY InvTypes DEF ReceiptInv
  <1>2. CASE UNCHANGED <<inflight, chain, sends>>
    BY <1>1, <1>2 DEF LandedWasSubmitted
  <1>3. ASSUME NEW t \in Threads, HandedOver(t), UNCHANGED chain
        PROVE  LandedWasSubmitted'
    <2>1. inflight' = inflight \cup {Sig(t)} /\ sends' = sends \cup {SendKey(t)}
          /\ SendKey(t)[3] = Sig(t)
      BY <1>3 DEF HandedOver, SendKey
    <2>2. QED
      BY <1>1, <1>3, <2>1 DEF LandedWasSubmitted
  <1>4. ASSUME NEW s \in Signatures, PayerSubmits(s)
        PROVE  LandedWasSubmitted'
    BY <1>1, <1>4 DEF LandedWasSubmitted, PayerSubmits
  <1>5. ASSUME NEW s \in Signatures, Land(s)
        PROVE  LandedWasSubmitted'
    BY <1>1, <1>5 DEF LandedWasSubmitted, Land, SharedOK
  <1>6. ASSUME NEW t \in Threads, SendAccepted(t) \/ SendLost(t)
        PROVE  LandedWasSubmitted'
    BY <1>2, <1>3, <1>6 DEF SendAccepted, SendLost
  <1>7. QED
    BY <1>2, <1>4, <1>5, <1>6 DEF Next, vars, Handler, Reserve, Settle, Resolve, VerifyBound,
       VerifyBoundExpired, CheckOrphan, AppendRoot, RecheckOrphan, DeleteRoot, Classify, TakeOver,
       RefusePayload, SendRejected, AwaitConfirmation, VerifyPush, Reconcile, ReadTip, AppendNext,
       Crash, BeginClaim, BeginUnclaim, AbandonRelease, ConsumePush, Grant, Tick, RootExpires, outside

-----------------------------------------------------------------------------
(***************************************************************************)
(* A pull handler comes to its receipt only by appending the confirmed     *)
(* record, and it appends the only one.                                    *)
(***************************************************************************)
LEMMA GrantEntry ==
    ASSUME ChargeInv, ReceiptInv, NEW t \in Threads, ThreadStep(t),
           pc'[t] = "grant", cred'[t] \in Pull
    PROVE  /\ pc[t] # "grant" /\ cred'[t] = cred[t] /\ Chal(t) \in Challenges
           /\ recs'[Chal(t)][gen'[t]].state = "confirmed"
           /\ \A g \in Generations : State(Chal(t), g) # "confirmed"
  <1>1. LocalsOK /\ SharedOK /\ ChainInv
    BY InvTypes DEF ChargeInv
  <1>2. ~Return(t)
    BY <1>1 DEF Return, LocalsOK
  <1>3. ReadTip(t) \/ AppendNext(t)
    BY <1>1, <1>2 DEF ThreadStep, VerifyBound, VerifyBoundExpired, Crash, Handler, Reserve, Settle,
       Resolve, CheckOrphan, AppendRoot, RecheckOrphan, DeleteRoot, Classify, TakeOver,
       RefusePayload, BeginClaim, BeginUnclaim, SendAccepted, SendRejected, SendLost,
       AwaitConfirmation, AbandonRelease, VerifyPush, ConsumePush, Reconcile, Grant, Claim, Release,
       Goto, LocalsOK
  <1>4. pc[t] \in Ops /\ cred'[t] = cred[t]
    BY <1>2, <1>3 DEF ReadTip, AppendNext, Continue
  <1>5. ASSUME NEW l \in {AfterFalse(pc[t]), AfterError(pc[t], cred[t])}, Continue(t, l)
        PROVE  FALSE
    <2>1. l # "grant"
      BY <1>4, <1>5 DEF AfterFalse, AfterError, Ops
    <2>2. pc'[t] = l
      BY <1>1, <1>2, <1>5 DEF Continue, Goto, LocalsOK
    <2>3. QED
      BY <2>1, <2>2
  <1>6. /\ checked[t] /\ CanAppend(Record(t), gen[t] + 1) /\ Written(t)
        /\ pc'[t] = AfterTrue(pc[t]) /\ gen'[t] = gen[t] + 1
    <2>1. ~ReadTip(t)
      BY <1>1, <1>4, <1>5 DEF ReadTip, Ops
    <2>2. AppendNext(t)
      BY <1>3, <2>1
    <2>3. /\ checked[t] /\ CanAppend(Record(t), gen[t] + 1) /\ Written(t)
          /\ pc' = [pc EXCEPT ![t] = AfterTrue(pc[t])] /\ gen' = [gen EXCEPT ![t] = @ + 1]
      BY <1>2, <1>5, <2>2 DEF AppendNext, Goto
    <2>4. QED
      BY <1>1, <2>3 DEF LocalsOK
  <1> DEFINE r == Successor(pc[t], Record(t)[gen[t]], Sig(t), now)
             c == Chal(t)
             g == gen[t]
  <1>7. c \in Challenges /\ g \in Generations /\ ExtendStep(c, g, r) /\ r \in Records
    BY <1>4, <1>6, WrittenExtends
  <1>8. pc[t] \in {"mark_confirmed", "confirm_pending"}
    BY <1>4, <1>6 DEF AfterTrue, Ops
  <1>9. r.state = "confirmed"
    <2>1. Record(t)[gen[t]] \in Records
      BY <1>1, <1>7 DEF SharedOK, Chains, Record
    <2>2. QED
      BY <1>8, <2>1 DEF Successor, Terminal, Records
  <1> HIDE DEF r
  <1>10. recs'[c][g + 1] = r
    BY <1>1, <1>7 DEF ExtendStep, SharedOK, Chains
  <1>11. ASSUME NEW h \in Generations, State(c, h) = "confirmed"
         PROVE  FALSE
    <2>1. g \in Nat /\ h \in Nat /\ g + 1 \in Generations
      BY <1>7, <1>11 DEF Generations, ExtendStep
    <2>2. State(c, g) \in {"reserved", "pending"} /\ State(c, g + 1) = "absent"
      BY <1>7 DEF ExtendStep, State, Present
    <2>3. ~(h < g) /\ h # g /\ h # g + 1
      BY <1>1, <1>7, <1>11, <2>2 DEF ChainInv, TerminalEnds
    <2>4. ~(h > g + 1)
      BY <1>1, <1>7, <1>11, <2>1, <2>2 DEF ChainInv, NoGaps, State, Present
    <2>5. QED
      BY <2>1, <2>3, <2>4
  <1>12. QED
    BY <1>4, <1>6, <1>7, <1>8, <1>9, <1>10, <1>11

LEMMA ConfirmedKept ==
    ASSUME SharedOK, RootReserves, RecsKept, NEW c \in Challenges, NEW g \in Generations,
           State(c, g) = "confirmed"
    PROVE  recs'[c][g].state = "confirmed"
  <1>1. g > 0
    BY DEF RootReserves, State, Generations
  <1>2. QED
    BY <1>1 DEF RecsKept, State, Present

LEMMA GrantsKept ==
    ASSUME ChargeInv, ReceiptInv, RecsKept, NEW t \in Threads, OthersStay(t), ThreadStep(t)
    PROVE  GrantsOnce'
  <1>1. LocalsOK /\ SharedOK /\ RootReserves /\ GrantsOnce
    BY InvTypes DEF ChargeInv, ChainInv, ReceiptInv
  <1>2. ASSUME NEW u \in Threads, u # t, pc'[u] = "grant", cred'[u] \in Pull
        PROVE  /\ pc[u] = "grant" /\ cred[u] \in Pull /\ Chal(u)' = Chal(u)
               /\ State(Chal(u), gen[u])' = "confirmed" /\ State(Chal(u), gen[u]) = "confirmed"
               /\ gen[u] \in Generations
    <2>1. pc[u] = "grant" /\ cred'[u] = cred[u] /\ gen'[u] = gen[u]
      BY <1>2 DEF OthersStay, SameLocals
    <2>2. Chal(u) \in Challenges /\ gen[u] \in Generations /\ Chal(u)' = Chal(u)
      BY <1>1, <2>1, Subjects DEF Chal
    <2>3. State(Chal(u), gen[u]) = "confirmed"
      BY <1>1, <1>2, <2>1 DEF GrantsOnce
    <2>4. recs'[Chal(u)][gen[u]].state = "confirmed"
      BY <1>1, <2>2, <2>3, ConfirmedKept
    <2>5. QED
      BY <1>2, <2>1, <2>2, <2>3, <2>4 DEF State
  <1>3. CASE pc'[t] = "grant" /\ cred'[t] \in Pull
    <2>1. /\ Chal(t)' = Chal(t) /\ recs'[Chal(t)][gen'[t]].state = "confirmed"
          /\ \A g \in Generations : State(Chal(t), g) # "confirmed"
      BY <1>3, GrantEntry DEF Chal
    <2>2. State(Chal(t), gen[t])' = "confirmed"
      BY <2>1 DEF State
    <2>3. ASSUME NEW u \in Threads, u # t, pc'[u] = "grant", cred'[u] \in Pull
          PROVE  Chal(u)' # Chal(t)'
      BY <1>2, <2>1, <2>3
    <2>4. ASSUME NEW u \in Threads, NEW v \in Threads, u # t, v # t, pc'[u] = "grant",
                 cred'[u] \in Pull, pc'[v] = "grant", cred'[v] \in Pull, Chal(u)' = Chal(v)'
          PROVE  u = v
      BY <1>1, <1>2, <2>4 DEF GrantsOnce
    <2>5. QED
      BY <1>2, <2>2, <2>3, <2>4 DEF GrantsOnce
  <1>4. CASE ~(pc'[t] = "grant" /\ cred'[t] \in Pull)
    <2>1. ASSUME NEW u \in Threads, NEW v \in Threads, u # t, v # t, pc'[u] = "grant",
                 cred'[u] \in Pull, pc'[v] = "grant", cred'[v] \in Pull, Chal(u)' = Chal(v)'
          PROVE  u = v
      BY <1>1, <1>2, <2>1 DEF GrantsOnce
    <2>2. QED
      BY <1>2, <1>4, <2>1 DEF GrantsOnce
  <1>5. QED
    BY <1>3, <1>4

-----------------------------------------------------------------------------
(***************************************************************************)
(* What bought a receipt stays used up.                                    *)
(***************************************************************************)
Spent(i, k) ==
    /\ receipts[i] = [chal |-> ChallengeOf[k], sig |-> SigOf[k]]
    /\ Anchor(ChallengeOf[k], k)
    /\ chain[SigOf[k]] = "ok"
    /\ UsedUp(ChallengeOf[k], k)

LEMMA UsedUpKept ==
    ASSUME ChargeInv, ReceiptInv, RecsKept, NEW t \in Threads, OthersStay(t), ThreadStep(t),
           NEW k \in Credentials, UsedUp(ChallengeOf[k], k)
    PROVE  UsedUp(ChallengeOf[k], k)'
  <1>1. LocalsOK /\ SharedOK /\ RootReserves /\ ClaimsExclusive
    BY InvTypes DEF ChargeInv, ChainInv, ReceiptInv
  <1>2. ChallengeOf[k] \in Challenges /\ SigOf[k] \in Signatures
    OBVIOUS
  <1>3. CASE k \in Pull
    <2>1. PICK g \in Generations : State(ChallengeOf[k], g) = "confirmed"
      BY <1>3 DEF UsedUp
    <2>2. State(ChallengeOf[k], g)' = "confirmed"
      BY <1>1, <1>2, <2>1, ConfirmedKept DEF State
    <2>3. ASSUME NEW u \in Threads, pc'[u] = "grant", cred'[u] \in Pull,
                 Chal(u)' = ChallengeOf[k]
          PROVE  FALSE
      <3>1. CASE u = t
        <4>1. Chal(t)' = Chal(t) /\ \A h \in Generations : State(Chal(t), h) # "confirmed"
          BY <2>3, <3>1, GrantEntry DEF Chal
        <4>2. QED
          BY <2>1, <2>3, <3>1, <4>1
      <3>2. CASE u # t
        <4>1. pc[u] = "grant" /\ cred[u] \in Pull /\ Chal(u) = ChallengeOf[k]
          BY <2>3, <3>2 DEF OthersStay, SameLocals, Chal
        <4>2. QED
          BY <1>3, <4>1 DEF UsedUp
      <3>3. QED
        BY <3>1, <3>2
    <2>4. QED
      BY <1>3, <2>2, <2>3 DEF UsedUp
  <1>4. CASE k \notin Pull
    <2>1. /\ ledger[SigOf[k]] = "consumed"
          /\ \A u \in Threads : ~(HoldsClaim(u) /\ Sig(u) = SigOf[k])
      BY <1>4 DEF UsedUp
    <2>2. \A u \in Threads : u # t => ~(HoldsClaim(u)' /\ Sig(u)' = SigOf[k])
      BY <2>1, ClaimOfOther DEF OthersStay
    <2>3. CASE KeepsClaim(t)
      <3>1. ~(HoldsClaim(t)' /\ Sig(t)' = SigOf[k])
        BY <2>1, <2>3 DEF KeepsClaim, Sig
      <3>2. ledger'[SigOf[k]] = "consumed"
        BY <1>2, <2>1, <2>3 DEF KeepsClaim
      <3>3. QED
        BY <1>4, <2>2, <3>1, <3>2 DEF UsedUp
    <2>4. CASE TakesClaim(t)
      <3>1. Sig(t)' # SigOf[k]
        BY <2>1, <2>4 DEF TakesClaim, Sig
      <3>2. ledger'[SigOf[k]] = "consumed"
        BY <1>1, <1>2, <2>1, <2>4 DEF TakesClaim, SharedOK
      <3>3. QED
        BY <1>4, <2>2, <3>1, <3>2 DEF UsedUp
    <2>5. CASE FreesClaim(t)
      <3>1. HoldsClaim(t) /\ ~HoldsClaim(t)'
        BY <2>5 DEF FreesClaim, HoldsClaim
      <3>2. ledger'[SigOf[k]] = "consumed"
        BY <1>1, <1>2, <2>1, <2>5, <3>1 DEF FreesClaim, SharedOK
      <3>3. QED
        BY <1>4, <2>2, <3>1, <3>2 DEF UsedUp
    <2>6. QED
      BY <2>3, <2>4, <2>5, ClaimSteps
  <1>5. QED
    BY <1>3, <1>4

LEMMA GrantUsesUp ==
    ASSUME ChargeInv, ReceiptInv, NEW t \in Threads, Grant(t), OthersStay(t)
    PROVE  /\ cred[t] \in Credentials
           /\ Anchor(ChallengeOf[cred[t]], cred[t])
           /\ chain[SigOf[cred[t]]] = "ok"
           /\ \E k \in Credentials : k = cred[t] /\ UsedUp(ChallengeOf[k], k)'
  <1>1. LocalsOK /\ SharedOK /\ ClaimsExclusive /\ GrantsOnce /\ ReceiptHandler(t)
    BY InvTypes DEF ReceiptInv
  <1>2. pc[t] = "grant" /\ UNCHANGED <<recs, ledger>> /\ pc'[t] = "idle"
    BY <1>1 DEF Grant, stored, Return, LocalsOK
  <1>3. cred[t] \in Credentials /\ Chal(t) \in Challenges /\ gen[t] \in Generations
    BY <1>1, <1>2, Subjects
  <1>4. Anchor(ChallengeOf[cred[t]], cred[t]) /\ chain[SigOf[cred[t]]] = "ok"
    BY <1>1, <1>2 DEF ReceiptHandler, Anchored, SawLanding, Reserving, Chal, Sig
  <1>5. PICK k \in Credentials : k = cred[t]
    BY <1>3
  <1>6. CASE k \in Pull
    <2>1. State(ChallengeOf[k], gen[t]) = "confirmed"
      BY <1>1, <1>2, <1>5, <1>6 DEF GrantsOnce, Chal
    <2>2. \E g \in Generations : State(ChallengeOf[k], g)' = "confirmed"
      BY <1>2, <1>3, <2>1 DEF State
    <2>3. ASSUME NEW u \in Threads, pc'[u] = "grant", cred'[u] \in Pull, Chal(u)' = ChallengeOf[k]
          PROVE  FALSE
      <3>1. u # t
        BY <1>2, <2>3
      <3>2. pc[u] = "grant" /\ cred[u] \in Pull /\ Chal(u) = Chal(t)
        BY <1>5, <2>3, <3>1 DEF OthersStay, SameLocals, Chal
      <3>3. QED
        BY <1>1, <1>2, <1>5, <1>6, <3>1, <3>2 DEF GrantsOnce
    <2>4. UsedUp(ChallengeOf[k], k)'
      BY <1>6, <2>2, <2>3 DEF UsedUp
    <2>5. QED
      BY <1>3, <1>4, <1>5, <2>4
  <1>7. CASE k \notin Pull
    <2>1. HoldsClaim(t) /\ Sig(t) = SigOf[k]
      BY <1>2, <1>5, <1>7 DEF HoldsClaim, Sig
    <2>2. ledger'[SigOf[k]] = "consumed"
      BY <1>1, <1>2, <2>1 DEF ClaimsExclusive
    <2>3. \A u \in Threads : u # t => ~(HoldsClaim(u)' /\ Sig(u)' = SigOf[k])
      BY <1>1, <2>1, ClaimOfOther DEF OthersStay, ClaimsExclusive
    <2>4. ~HoldsClaim(t)'
      BY <1>2 DEF HoldsClaim
    <2>5. UsedUp(ChallengeOf[k], k)'
      BY <1>7, <2>2, <2>3, <2>4 DEF UsedUp
    <2>6. QED
      BY <1>3, <1>4, <1>5, <2>5
  <1>8. QED
    BY <1>6, <1>7

LEMMA ReceiptsChange ==
    ASSUME NEW t \in Threads, ThreadStep(t), SharedOK
    PROVE  \/ UNCHANGED receipts
           \/ /\ Grant(t)
              /\ DOMAIN receipts' = DOMAIN receipts \cup {Len(receipts) + 1}
              /\ Len(receipts) + 1 \notin DOMAIN receipts
              /\ receipts'[Len(receipts) + 1] = [chal |-> Chal(t), sig |-> Sig(t)]
              /\ \A i \in DOMAIN receipts : receipts'[i] = receipts[i]
  <1>1. CASE Grant(t)
    BY <1>1 DEF Grant, SharedOK
  <1>2. QED
    BY <1>1 DEF ThreadStep, VerifyBound, VerifyBoundExpired, Crash, Handler, Reserve, Settle, Resolve,
       CheckOrphan, AppendRoot, RecheckOrphan, DeleteRoot, Classify, TakeOver, RefusePayload,
       BeginClaim, BeginUnclaim, SendAccepted, SendRejected, SendLost, AwaitConfirmation,
       AbandonRelease, VerifyPush, ConsumePush, Reconcile, ReadTip, AppendNext

LEMMA ReceiptsKept ==
    ASSUME ChargeInv, ReceiptInv, RecsKept, AnchoredStep, UNCHANGED chain,
           NEW t \in Threads, OthersStay(t), ThreadStep(t)
    PROVE  ReceiptsUsedUp'
  <1>1. LocalsOK /\ SharedOK /\ ReceiptsUsedUp
    BY InvTypes DEF ReceiptInv
  <1>2. ASSUME NEW k \in Credentials, Anchor(ChallengeOf[k], k) PROVE Anchor(ChallengeOf[k], k)'
    BY <1>1, <1>2, AnchorKept DEF Anchor, AnchorNext
  <1>3. ASSUME NEW i \in DOMAIN receipts, receipts'[i] = receipts[i]
        PROVE  \E k \in Credentials : Spent(i, k)'
    <2>1. PICK k \in Credentials : Spent(i, k)
      BY <1>1 DEF ReceiptsUsedUp, Spent
    <2>2. UsedUp(ChallengeOf[k], k)'
      BY <2>1, UsedUpKept DEF Spent
    <2>3. Spent(i, k)'
      BY <1>2, <1>3, <2>1, <2>2 DEF Spent
    <2>4. QED
      BY <2>3
  <1>4. CASE UNCHANGED receipts
    BY <1>3, <1>4 DEF ReceiptsUsedUp, Spent
  <1>5. CASE ~UNCHANGED receipts
    <2> DEFINE n == Len(receipts) + 1
    <2>1. /\ Grant(t)
          /\ DOMAIN receipts' = DOMAIN receipts \cup {n}
          /\ receipts'[n] = [chal |-> Chal(t), sig |-> Sig(t)]
          /\ \A i \in DOMAIN receipts : receipts'[i] = receipts[i]
      BY <1>1, <1>5, ReceiptsChange
    <2>2. PICK k \in Credentials : k = cred[t] /\ UsedUp(ChallengeOf[k], k)'
      BY <2>1, GrantUsesUp
    <2>3. Anchor(ChallengeOf[k], k) /\ chain[SigOf[k]] = "ok"
      BY <2>1, <2>2, GrantUsesUp
    <2>4. receipts'[n] = [chal |-> ChallengeOf[k], sig |-> SigOf[k]]
      BY <2>1, <2>2 DEF Chal, Sig
    <2> HIDE DEF n
    <2>5. \E l \in Credentials :
            /\ receipts'[n] = [chal |-> ChallengeOf[l], sig |-> SigOf[l]]
            /\ Anchor(ChallengeOf[l], l)'
            /\ chain'[SigOf[l]] = "ok"
            /\ UsedUp(ChallengeOf[l], l)'
      BY <1>2, <2>2, <2>3, <2>4
    <2>6. \A i \in DOMAIN receipts : \E l \in Credentials : Spent(i, l)'
      BY <1>3, <2>1
    <2>7. QED
      BY <2>1, <2>5, <2>6 DEF ReceiptsUsedUp, Spent
  <1>6. QED
    BY <1>4, <1>5

-----------------------------------------------------------------------------
(***************************************************************************)
(* Time, the cluster, the payer and an expiring root touch no handler.     *)
(***************************************************************************)
WorldStep ==
    \/ \E s \in Signatures : PayerSubmits(s) \/ Land(s)
    \/ \E c \in Challenges : RootExpires(c)
    \/ Tick
    \/ UNCHANGED vars

LEMMA WorldFacts ==
    ASSUME SharedOK, WorldStep
    PROVE  /\ UNCHANGED <<ledger, sends, pc, cred, gen, checked, maybeSent, receipts>>
           /\ LandingKept
  <1>1. UNCHANGED <<ledger, sends, pc, cred, gen, checked, maybeSent, receipts>>
    BY DEF WorldStep, PayerSubmits, Land, RootExpires, Tick, vars, stored, outside, locals
  <1>2. UNCHANGED chain \/ \E s \in Signatures : Land(s)
    BY DEF WorldStep, PayerSubmits, RootExpires, Tick, vars, outside
  <1>3. LandingKept
    BY <1>2 DEF Land, LandingKept, SharedOK
  <1>4. QED
    BY <1>1, <1>3

LEMMA WorldKeeps ==
    ASSUME ChargeInv, ReceiptInv, RecsKept, AnchoredStep, WorldStep
    PROVE  ClaimsExclusive' /\ SentStaysConsumed' /\ GrantsOnce' /\ ReceiptsUsedUp'
  <1>1. LocalsOK /\ SharedOK /\ RootReserves /\ ClaimsExclusive /\ SentStaysConsumed /\ GrantsOnce
        /\ ReceiptsUsedUp
    BY InvTypes DEF ReceiptInv, ChargeInv, ChainInv
  <1>2. /\ UNCHANGED <<ledger, sends, pc, cred, gen, checked, maybeSent, receipts>>
        /\ LandingKept
    BY <1>1, WorldFacts
  <1>3. \A u \in Threads : /\ HoldsClaim(u)' <=> HoldsClaim(u)
                           /\ Sig(u)' = Sig(u) /\ Chal(u)' = Chal(u) /\ SendKey(u)' = SendKey(u)
    BY <1>2 DEF HoldsClaim, Sig, Chal, SendKey
  <1>4. ClaimsExclusive' /\ SentStaysConsumed'
    BY <1>1, <1>2, <1>3 DEF ClaimsExclusive, SentStaysConsumed
  <1>5. ASSUME NEW u \in Threads, pc[u] = "grant", State(Chal(u), gen[u]) = "confirmed"
        PROVE  State(Chal(u), gen[u])' = "confirmed"
    <2>1. Chal(u) \in Challenges /\ gen[u] \in Generations
      BY <1>1, <1>5, Subjects
    <2>2. recs'[Chal(u)][gen[u]].state = "confirmed"
      BY <1>1, <1>5, <2>1, ConfirmedKept
    <2>3. QED
      BY <1>2, <1>3, <2>2 DEF State
  <1>6. GrantsOnce'
    BY <1>1, <1>2, <1>3, <1>5 DEF GrantsOnce
  <1>7. ASSUME NEW i \in DOMAIN receipts, NEW k \in Credentials, Spent(i, k)
        PROVE  Spent(i, k)'
    <2>1. AnchorNext(ChallengeOf[k], k) /\ chain'[SigOf[k]] = "ok"
      BY <1>1, <1>2, <1>7, AnchorKept DEF Spent, LandingKept
    <2>2. \A g \in Generations : State(ChallengeOf[k], g) = "confirmed"
                                   => State(ChallengeOf[k], g)' = "confirmed"
      BY <1>1, ConfirmedKept DEF State
    <2>3. UsedUp(ChallengeOf[k], k)'
      BY <1>2, <1>3, <1>7, <2>2 DEF UsedUp, Spent
    <2>4. QED
      BY <1>2, <1>7, <2>1, <2>3 DEF Spent, Anchor, AnchorNext
  <1>8. ReceiptsUsedUp'
    BY <1>1, <1>2, <1>7 DEF ReceiptsUsedUp, Spent
  <1>9. QED
    BY <1>4, <1>6, <1>8

-----------------------------------------------------------------------------
LEMMA ReceiptInit == Init => ReceiptInv
  <1>1. SUFFICES ASSUME Init PROVE ReceiptInv
    OBVIOUS
  <1>2. /\ \A c \in Challenges : \A g \in Generations : recs[c][g].state = "absent"
        /\ \A t \in Threads : pc[t] = "idle"
        /\ sends = {} /\ inflight = {} /\ DOMAIN receipts = {}
        /\ \A s \in Signatures : chain[s] = "none"
    BY <1>1 DEF Init, Absent
  <1>3. OneDigest /\ PendingIsPull
    BY <1>2 DEF OneDigest, PendingIsPull, State, Present
  <1>4. \A t \in Threads : ReceiptHandler(t) /\ ~HoldsClaim(t)
    BY <1>2 DEF ReceiptHandler, Anchored, InMode, SawLanding, Reserving, PullOnly, Broadcasting,
       Withdrawing, HoldsClaim
  <1>5. QED
    BY <1>2, <1>3, <1>4 DEF ReceiptInv, ClaimsExclusive, SentStaysConsumed, LandedWasSubmitted,
       GrantsOnce, ReceiptsUsedUp

LEMMA ThreadOrWorld ==
    ASSUME [Next]_vars
    PROVE  (\E t \in Threads : ThreadStep(t)) \/ WorldStep
  BY DEF Next, ThreadStep, WorldStep

LEMMA ReceiptStep == ChargeInv /\ ReceiptInv /\ [Next]_vars => ReceiptInv'
  <1>1. SUFFICES ASSUME ChargeInv, ReceiptInv, [Next]_vars PROVE ReceiptInv'
    OBVIOUS
  <1>2. LocalsOK /\ SharedOK /\ AnchoredStep /\ RecsKept
    BY <1>1, InvTypes, AnchoredSteps, RecsSteps, KeepsRecords
  <1>3. OneDigest' /\ PendingIsPull' /\ LandedWasSubmitted'
    BY <1>1, <1>2, DigestsKept, SubmittedKept DEF ChargeInv, ReceiptInv
  <1>4. ASSUME NEW t \in Threads, ThreadStep(t)
        PROVE  ReceiptInv'
    <2>1. OthersStay(t)
      BY <1>2, <1>4, OthersSame DEF OthersStay, ThreadStep
    <2>2. UNCHANGED chain
      BY <1>4 DEF ThreadStep, VerifyBound, VerifyBoundExpired, Crash, Handler, Reserve, Settle, Resolve,
         CheckOrphan, AppendRoot, RecheckOrphan, DeleteRoot, Classify, TakeOver, RefusePayload,
         BeginClaim, BeginUnclaim, SendAccepted, SendRejected, SendLost, AwaitConfirmation,
         AbandonRelease, VerifyPush, ConsumePush, Reconcile, ReadTip, AppendNext, Grant, outside
    <2>3. LandingKept
      BY <2>2 DEF LandingKept
    <2>4. \A u \in Threads : ReceiptHandler(u)'
      BY <1>1, <1>2, <1>4, <2>1, <2>3, ReceiptOwn, ReceiptFrame DEF OthersStay
    <2>5. ClaimsExclusive' /\ SentStaysConsumed'
      BY <1>1, <1>4, <2>1, ClaimSteps, ClaimsKept, SendMoves, SentKept
    <2>6. GrantsOnce' /\ ReceiptsUsedUp'
      BY <1>1, <1>2, <1>4, <2>1, <2>2, GrantsKept, ReceiptsKept
    <2>7. QED
      BY <1>3, <2>4, <2>5, <2>6 DEF ReceiptInv
  <1>5. CASE WorldStep
    <2>1. \A u \in Threads : SameLocals(u)
      BY <1>2, <1>5, WorldFacts DEF SameLocals
    <2>2. \A u \in Threads : ReceiptHandler(u)'
      BY <1>1, <1>2, <1>5, <2>1, WorldFacts, ReceiptFrame
    <2>3. QED
      BY <1>1, <1>2, <1>3, <1>5, <2>2, WorldKeeps DEF ReceiptInv
  <1>6. QED
    BY <1>1, <1>4, <1>5, ThreadOrWorld

(***************************************************************************)
(* The second inductive invariant: the anchor of a challenge, the claims   *)
(* on signatures, and what each receipt used up.                           *)
(***************************************************************************)
THEOREM ReceiptInvariant == Spec => []ReceiptInv
  BY ReceiptInit, ReceiptStep, ChargeInvariant, PTL DEF Spec

-----------------------------------------------------------------------------
(***************************************************************************)
(* No receipt was granted yet for the charge a handler grants.             *)
(***************************************************************************)
LEMMA NotYetGranted ==
    ASSUME ChargeInv, ReceiptInv, NEW t \in Threads, pc[t] = "grant", NEW i \in DOMAIN receipts
    PROVE  /\ receipts[i].chal # Chal(t)
           /\ PullIsUnshared => receipts[i].sig # Sig(t)
  <1>1. LocalsOK /\ SharedOK /\ Anchored(t)
    BY InvTypes DEF ReceiptInv, ReceiptHandler
  <1>2. cred[t] \in Credentials /\ Anchor(Chal(t), cred[t])
    BY <1>1, Subjects DEF Anchored, Reserving
  <1>3. PICK k \in Credentials : Spent(i, k)
    BY DEF ReceiptInv, ReceiptsUsedUp, Spent
  <1>4. receipts[i].chal = ChallengeOf[k] /\ receipts[i].sig = SigOf[k]
    BY <1>3 DEF Spent
  <1>5. k # cred[t]
    <2>1. CASE k \in Pull
      BY <1>3, <2>1 DEF Spent, UsedUp, Chal
    <2>2. CASE k \notin Pull
      BY <1>3, <2>2 DEF Spent, UsedUp, HoldsClaim, Sig
    <2>3. QED
      BY <2>1, <2>2
  <1>6. ChallengeOf[k] # Chal(t)
    BY <1>2, <1>3, <1>5 DEF Spent, Anchor
  <1>7. ASSUME PullIsUnshared PROVE SigOf[k] # Sig(t)
    <2>1. CASE k \in Pull \/ cred[t] \in Pull
      BY <1>2, <1>5, <1>7, <2>1 DEF PullIsUnshared, Sig
    <2>2. CASE k \notin Pull /\ cred[t] \notin Pull
      BY <1>3, <2>2 DEF Spent, UsedUp, HoldsClaim
    <2>3. QED
      BY <2>1, <2>2
  <1>8. QED
    BY <1>4, <1>6, <1>7

(***************************************************************************)
(* One receipt per charge, for all constants: with store errors, crashes,  *)
(* leases that run out, expiring roots and payers that submit themselves.  *)
(***************************************************************************)
THEOREM ChallengeReceiptHolds == Spec => []OneReceiptPerChallenge
  <1>1. Init => OneReceiptPerChallenge
    BY DEF Init, OneReceiptPerChallenge
  <1>2. ASSUME ChargeInv, ReceiptInv, OneReceiptPerChallenge, [Next]_vars
        PROVE  OneReceiptPerChallenge'
    <2>1. SharedOK
      BY <1>2, InvTypes
    <2>2. CASE UNCHANGED receipts
      BY <1>2, <2>2 DEF OneReceiptPerChallenge
    <2>3. ASSUME NEW t \in Threads, ThreadStep(t)
          PROVE  OneReceiptPerChallenge'
      <3>1. ASSUME NEW i \in DOMAIN receipts, Grant(t) PROVE receipts[i].chal # Chal(t)
        BY <1>2, <3>1, NotYetGranted DEF Grant
      <3>2. CASE ~UNCHANGED receipts
        <4> DEFINE n == Len(receipts) + 1
        <4>1. /\ Grant(t)
              /\ DOMAIN receipts' = DOMAIN receipts \cup {n}
              /\ receipts'[n] = [chal |-> Chal(t), sig |-> Sig(t)]
              /\ \A i \in DOMAIN receipts : receipts'[i] = receipts[i]
          BY <2>1, <2>3, <3>2, ReceiptsChange
        <4>2. receipts'[n].chal = Chal(t) /\ \A i \in DOMAIN receipts : receipts[i].chal # Chal(t)
          BY <3>1, <4>1
        <4> HIDE DEF n
        <4>3. QED
          BY <1>2, <4>1, <4>2 DEF OneReceiptPerChallenge
      <3>3. QED
        BY <2>2, <3>2
    <2>4. QED
      BY <1>2, <2>1, <2>2, <2>3, ThreadOrWorld, WorldFacts
  <1>3. QED
    BY <1>1, <1>2, ChargeInvariant, ReceiptInvariant, PTL DEF Spec

(***************************************************************************)
(* One receipt per signature, as long as no other credential names the     *)
(* signature of a pull credential: exactly what charge_shared breaks.      *)
(***************************************************************************)
THEOREM SignatureReceiptHolds ==
    ASSUME PullIsUnshared
    PROVE  Spec => []OneReceiptPerSignature
  <1>1. Init => OneReceiptPerSignature
    BY DEF Init, OneReceiptPerSignature
  <1>2. ASSUME ChargeInv, ReceiptInv, OneReceiptPerSignature, [Next]_vars
        PROVE  OneReceiptPerSignature'
    <2>1. SharedOK
      BY <1>2, InvTypes
    <2>2. CASE UNCHANGED receipts
      BY <1>2, <2>2 DEF OneReceiptPerSignature
    <2>3. ASSUME NEW t \in Threads, ThreadStep(t)
          PROVE  OneReceiptPerSignature'
      <3>1. ASSUME NEW i \in DOMAIN receipts, Grant(t) PROVE receipts[i].sig # Sig(t)
        BY <1>2, <3>1, NotYetGranted DEF Grant
      <3>2. CASE ~UNCHANGED receipts
        <4> DEFINE n == Len(receipts) + 1
        <4>1. /\ Grant(t)
              /\ DOMAIN receipts' = DOMAIN receipts \cup {n}
              /\ receipts'[n] = [chal |-> Chal(t), sig |-> Sig(t)]
              /\ \A i \in DOMAIN receipts : receipts'[i] = receipts[i]
          BY <2>1, <2>3, <3>2, ReceiptsChange
        <4>2. receipts'[n].sig = Sig(t) /\ \A i \in DOMAIN receipts : receipts[i].sig # Sig(t)
          BY <3>1, <4>1
        <4> HIDE DEF n
        <4>3. QED
          BY <1>2, <4>1, <4>2 DEF OneReceiptPerSignature
      <3>3. QED
        BY <2>2, <3>2
    <2>4. QED
      BY <1>2, <2>1, <2>2, <2>3, ThreadOrWorld, WorldFacts
  <1>3. QED
    BY <1>1, <1>2, ChargeInvariant, ReceiptInvariant, PTL DEF Spec

(***************************************************************************)
(* A receipt is backed by a landed transaction and a consumed signature,   *)
(* provided the payer cannot submit a pull transaction without the server  *)
(* (the server co-signs as fee payer); push receipts need no proviso.      *)
(***************************************************************************)
THEOREM BackingHolds ==
    ASSUME OnlyServerSubmits
    PROVE  Spec => []ReceiptIsBacked
  <1>1. ASSUME ChargeInv, ReceiptInv PROVE ReceiptIsBacked
    <2>1. SUFFICES ASSUME NEW i \in DOMAIN receipts
                   PROVE  /\ chain[receipts[i].sig] = "ok"
                          /\ ledger[receipts[i].sig] = "consumed"
      BY DEF ReceiptIsBacked
    <2>2. PICK k \in Credentials : Spent(i, k)
      BY <1>1, <2>1 DEF ReceiptInv, ReceiptsUsedUp, Spent
    <2>3. receipts[i].sig = SigOf[k] /\ chain[SigOf[k]] = "ok" /\ SigOf[k] \in Signatures
      BY <2>2 DEF Spent
    <2>4. CASE k \in Pull
      <3>1. PICK e \in sends : e[3] = SigOf[k]
        BY <1>1, <2>3, <2>4 DEF ReceiptInv, LandedWasSubmitted, OnlyServerSubmits
      <3>2. ledger[e[3]] = "consumed"
        BY <1>1, <3>1 DEF ReceiptInv, SentStaysConsumed
      <3>3. QED
        BY <2>3, <3>1, <3>2
    <2>5. CASE k \notin Pull
      BY <2>2, <2>3, <2>5 DEF Spent, UsedUp
    <2>6. QED
      BY <2>4, <2>5
  <1>2. QED
    BY <1>1, ChargeInvariant, ReceiptInvariant, PTL

-----------------------------------------------------------------------------
(***************************************************************************)
(* The refinement.  The last generation written, of a chain of generations *)
(* and of the chain after a step.                                          *)
(***************************************************************************)
Ends(ch, g) == Present(ch, g) /\ \A h \in Generations : h > g => ~Present(ch, h)

Compact(ch) ==
    /\ \A g, h \in Generations : 1 <= h /\ h <= g /\ Present(ch, g) => Present(ch, h)
    /\ (\A g \in Generations : ~Present(ch, g)) \/ \E g \in Generations : Ends(ch, g)

LEMMA LatestEnds ==
    ASSUME NEW ch, NEW g \in Generations, Ends(ch, g)
    PROVE  Latest(ch) = ch[g]
  <1> DEFINE written == {h \in Generations : Present(ch, h)}
             last == CHOOSE x \in written : \A h \in written : h <= x
  <1>1. g \in written /\ \A h \in written : h <= g
    BY DEF Ends, Generations
  <1>2. last \in written /\ \A h \in written : h <= last
    BY <1>1
  <1>3. last = g
    BY <1>1, <1>2 DEF Generations
  <1>4. Latest(ch) = ch[last]
    BY <1>1 DEF Latest
  <1>5. QED
    BY <1>3, <1>4

LEMMA LatestNone ==
    ASSUME NEW ch, \A g \in Generations : ~Present(ch, g)
    PROVE  Latest(ch) = Absent
  BY DEF Latest

LEMMA LatestRoot ==
    ASSUME NEW ch \in Chains, Compact(ch), Present(ch, 1), NEW r
    PROVE  /\ Compact([ch EXCEPT ![0] = r])
           /\ Latest([ch EXCEPT ![0] = r]) = Latest(ch)
  <1> DEFINE after == [ch EXCEPT ![0] = r]
  <1>1. 0 \in Generations /\ 1 \in Generations
    BY DEF Generations
  <1>2. \A h \in Generations : h # 0 => after[h] = ch[h]
    BY DEF Chains
  <1>3. PICK g \in Generations : Ends(ch, g)
    BY <1>1 DEF Compact
  <1>4. g # 0
    BY <1>1, <1>3 DEF Ends
  <1>5. Ends(after, g)
    BY <1>2, <1>3, <1>4 DEF Ends, Present, Generations
  <1>6. Latest(after) = after[g] /\ Latest(ch) = ch[g]
    BY <1>3, <1>5, LatestEnds
  <1>7. Compact(after)
    BY <1>1, <1>2, <1>5 DEF Compact, Present, Generations
  <1>8. QED
    BY <1>2, <1>4, <1>6, <1>7

LEMMA LatestFirst ==
    ASSUME NEW ch \in Chains, Compact(ch), ~Present(ch, 0), ~Present(ch, 1), NEW r, r.state # "absent"
    PROVE  /\ Compact([ch EXCEPT ![0] = r])
           /\ Latest([ch EXCEPT ![0] = r]) = r /\ Latest(ch) = Absent
  <1> DEFINE after == [ch EXCEPT ![0] = r]
  <1>1. 0 \in Generations /\ 1 \in Generations
    BY DEF Generations
  <1>2. \A h \in Generations : after[h] = IF h = 0 THEN r ELSE ch[h]
    BY DEF Chains
  <1>3. \A h \in Generations : ~Present(ch, h)
    BY <1>1 DEF Compact, Generations
  <1>4. Ends(after, 0)
    BY <1>1, <1>2, <1>3 DEF Ends, Present, Generations
  <1>5. Latest(after) = after[0]
    BY <1>1, <1>4, LatestEnds
  <1>6. Compact(after)
    BY <1>1, <1>2, <1>3, <1>4 DEF Compact, Present, Generations
  <1>7. QED
    BY <1>1, <1>2, <1>3, <1>5, <1>6, LatestNone

LEMMA LatestExtend ==
    ASSUME NEW ch \in Chains, Compact(ch), NEW g \in Generations, g + 1 \in Generations,
           Present(ch, g), ~Present(ch, g + 1), NEW r, r.state # "absent"
    PROVE  /\ Compact([ch EXCEPT ![g + 1] = r])
           /\ Latest([ch EXCEPT ![g + 1] = r]) = r /\ Latest(ch) = ch[g]
  <1> DEFINE after == [ch EXCEPT ![g + 1] = r]
  <1>1. g \in Nat /\ \A h \in Generations : h \in Nat
    BY DEF Generations
  <1>2. \A h \in Generations : after[h] = IF h = g + 1 THEN r ELSE ch[h]
    BY DEF Chains
  <1>3. \A h \in Generations : h > g => ~Present(ch, h)
    BY <1>1 DEF Compact
  <1>4. Ends(ch, g) /\ Ends(after, g + 1)
    BY <1>1, <1>2, <1>3 DEF Ends, Present
  <1>5. Latest(ch) = ch[g] /\ Latest(after) = after[g + 1]
    BY <1>4, LatestEnds
  <1>6. ASSUME NEW a \in Generations, NEW b \in Generations, 1 <= b, b <= a, Present(after, a)
        PROVE  Present(after, b)
    <2>1. CASE b = g + 1
      BY <1>2, <2>1 DEF Present
    <2>2. CASE b # g + 1
      <3>1. b <= g
        BY <1>1, <1>2, <1>3, <1>6, <2>2 DEF Present
      <3>2. Present(ch, b)
        BY <1>6, <3>1 DEF Compact
      <3>3. QED
        BY <1>2, <2>2, <3>2 DEF Present
    <2>3. QED
      BY <2>1, <2>2
  <1>7. Compact(after)
    BY <1>4, <1>6 DEF Compact
  <1>8. QED
    BY <1>2, <1>5, <1>7

AllCompact == \A c \in Challenges : Compact(recs[c])

LEMMA CompactInit == Init => AllCompact
  <1>1. ASSUME Init PROVE \A c \in Challenges : \A g \in Generations : ~Present(recs[c], g)
    BY <1>1 DEF Init, Absent, Present
  <1>2. QED
    BY <1>1 DEF AllCompact, Compact

LEMMA CompactKept ==
    ASSUME SharedOK, AllCompact, RecsStep
    PROVE  AllCompact'
  <1>1. CASE UNCHANGED recs
    BY <1>1 DEF AllCompact
  <1>2. ASSUME NEW c \in Challenges, NEW r \in Records, RootStep(c, r)
        PROVE  AllCompact'
    <2>1. recs[c] \in Chains /\ Compact(recs[c]) /\ 0 \in Generations
      BY DEF SharedOK, AllCompact, Generations
    <2>2. /\ recs'[c] = [recs[c] EXCEPT ![0] = r]
          /\ \A d \in Challenges : d # c => recs'[d] = recs[d]
      BY <1>2 DEF RootStep, SharedOK
    <2>3. CASE Present(recs[c], 1)
      <3>1. Compact([recs[c] EXCEPT ![0] = r])
        BY <2>1, <2>3, LatestRoot
      <3>2. QED
        BY <2>2, <3>1 DEF AllCompact
    <2>4. CASE ~Present(recs[c], 1) /\ r.state # "absent"
      <3>1. Compact([recs[c] EXCEPT ![0] = r])
        BY <1>2, <2>1, <2>4, LatestFirst DEF RootStep
      <3>2. QED
        BY <2>2, <3>1 DEF AllCompact
    <2>5. CASE ~Present(recs[c], 1) /\ r.state = "absent"
      <3>1. \A g \in Generations : ~Present(recs[c], g)
        BY <1>2, <2>1, <2>5 DEF RootStep, Compact, Generations
      <3>2. \A g \in Generations : ~Present(recs'[c], g)
        BY <2>1, <2>2, <2>5, <3>1 DEF Present, Chains
      <3>3. Compact(recs'[c])
        BY <3>2 DEF Compact
      <3>4. QED
        BY <2>2, <3>3 DEF AllCompact
    <2>6. QED
      BY <2>3, <2>4, <2>5
  <1>3. ASSUME NEW c \in Challenges, NEW g \in Generations, NEW r \in Records, ExtendStep(c, g, r)
        PROVE  AllCompact'
    <2>1. recs[c] \in Chains /\ Compact(recs[c]) /\ g + 1 \in Generations
      BY <1>3 DEF SharedOK, AllCompact, ExtendStep
    <2>2. /\ recs'[c] = [recs[c] EXCEPT ![g + 1] = r]
          /\ \A d \in Challenges : d # c => recs'[d] = recs[d]
      BY <1>3 DEF ExtendStep, SharedOK
    <2>3. Present(recs[c], g) /\ ~Present(recs[c], g + 1) /\ r.state # "absent"
      BY <1>3 DEF ExtendStep, State, Present
    <2>4. Compact([recs[c] EXCEPT ![g + 1] = r])
      BY <2>1, <2>3, LatestExtend
    <2>5. QED
      BY <2>2, <2>4 DEF AllCompact
  <1>4. QED
    BY <1>1, <1>2, <1>3 DEF RecsStep

(***************************************************************************)
(* How a change of one record shows in the abstract ledger.                *)
(***************************************************************************)
LEMMA MoveSimulated ==
    ASSUME SharedOK, NEW c \in Challenges, NEW x, recs' = [recs EXCEPT ![c] = x],
           NEW from, Phase(Latest(recs[c]).state) \in from,
           UNCHANGED <<sends, chain, receipts>>
    PROVE  Ledger!Move(c, from, Phase(Latest(x).state), Latest(x).sig)
  <1>1. recs'[c] = x /\ \A d \in Challenges : d # c => recs'[d] = recs[d]
    BY DEF SharedOK
  <1>2. [d \in Challenges |-> Phase(Latest(recs'[d]).state)]
          = [[d \in Challenges |-> Phase(Latest(recs[d]).state)]
               EXCEPT ![c] = Phase(Latest(x).state)]
    <2> DEFINE before(d) == Phase(Latest(recs[d]).state)
               after(d) == Phase(Latest(recs'[d]).state)
    <2>1. after(c) = Phase(Latest(x).state) /\ \A d \in Challenges : d # c => after(d) = before(d)
      BY <1>1
    <2> HIDE DEF before, after
    <2>2. [d \in Challenges |-> after(d)]
            = [[d \in Challenges |-> before(d)] EXCEPT ![c] = Phase(Latest(x).state)]
      BY <2>1
    <2>3. QED
      BY <2>2, Zenon DEF before, after
  <1>3. [d \in Challenges |-> Latest(recs'[d]).sig]
          = [[d \in Challenges |-> Latest(recs[d]).sig] EXCEPT ![c] = Latest(x).sig]
    <2> DEFINE before(d) == Latest(recs[d]).sig
               after(d) == Latest(recs'[d]).sig
    <2>1. after(c) = Latest(x).sig /\ \A d \in Challenges : d # c => after(d) = before(d)
      BY <1>1
    <2> HIDE DEF before, after
    <2>2. [d \in Challenges |-> after(d)]
            = [[d \in Challenges |-> before(d)] EXCEPT ![c] = Latest(x).sig]
      BY <2>1
    <2>3. QED
      BY <2>2, Zenon DEF before, after
  <1>4. /\ {e[1] : e \in sends'} = {e[1] : e \in sends} /\ chain' = chain
        /\ {<<receipts'[i].chal, receipts'[i].sig>> : i \in DOMAIN receipts'}
             = {<<receipts[i].chal, receipts[i].sig>> : i \in DOMAIN receipts}
    OBVIOUS
  <1>5. [d \in Challenges |-> Phase(Latest(recs[d]).state)][c] \in from
    OBVIOUS
  <1>6. QED
    BY <1>2, <1>3, <1>4, <1>5, Zenon DEF Ledger!Move

LEMMA StepIsStutter ==
    ASSUME \A c \in Challenges : Latest(recs'[c]) = Latest(recs[c]),
           UNCHANGED <<sends, chain, receipts>>
    PROVE  UNCHANGED Ledger!vars
  BY DEF Ledger!vars

(***************************************************************************)
(* A challenge was exposed only under the generation that is still open.   *)
(***************************************************************************)
LEMMA ExposedAtTip ==
    ASSUME ChargeInv, NEW c \in Challenges, NEW g \in Generations, g + 1 \in Generations,
           State(c, g) \in {"reserved", "pending"}, ~Present(recs[c], g + 1),
           NEW e \in sends, e[1] = c
    PROVE  e[2] = g /\ State(c, g) = "pending" /\ recs[c][g].sig = e[3]
  <1>1. /\ SharedOK /\ Settled(c, e[2], e[3]) /\ NoGaps /\ TerminalEnds
        /\ e[2] \in Generations
    BY InvTypes DEF SharedOK, ChargeInv, FenceInv, SendsSettled, ChainInv
  <1>2. e[2] \in Nat /\ g \in Nat /\ e[2] <= MaxGenerations /\ g < MaxGenerations
    BY <1>1 DEF Generations
  <1>3. State(c, e[2]) = "pending"
    BY <1>1 DEF Settled
  <1>4. ~(e[2] > g)
    BY <1>1, <1>2, <1>3 DEF NoGaps, Present, State
  <1>5. ASSUME e[2] < g PROVE FALSE
    <2>1. e[2] + 1 \in Generations /\ 1 <= e[2] + 1 /\ e[2] + 1 <= g /\ e[2] < MaxGenerations
      BY <1>2, <1>5 DEF Generations
    <2>2. Present(recs[c], g)
      BY DEF Present, State
    <2>3. Present(recs[c], e[2] + 1)
      BY <1>1, <2>1, <2>2 DEF NoGaps
    <2>4. State(c, e[2] + 1) \in {"confirmed", "failed"}
      BY <1>1, <2>1, <2>3 DEF Settled, Present, State
    <2>5. e[2] + 1 < g
      BY <1>2, <2>1, <2>4
    <2>6. State(c, g) = "absent"
      BY <1>1, <2>1, <2>4, <2>5 DEF TerminalEnds
    <2>7. QED
      BY <2>6
  <1>6. e[2] = g
    BY <1>2, <1>4, <1>5
  <1>7. QED
    BY <1>1, <1>3, <1>6 DEF Settled

LEMMA TakeOverSimulated ==
    ASSUME ChargeInv, AllCompact, NEW t \in Threads, TakeOver(t), recs' # recs
    PROVE  Ledger!Next
  <1> DEFINE r == Fresh(cred[t], since[t])
             c == Chal(t)
             g == gen[t]
  <1>1. LocalsOK /\ SharedOK
    BY InvTypes
  <1>2. c \in Challenges /\ g \in Generations
    BY <1>1, Subjects DEF TakeOver
  <1>3. /\ g + 1 \in Generations /\ ~Present(recs[c], g + 1)
        /\ recs' = [recs EXCEPT ![c] = [recs[c] EXCEPT ![g + 1] = r]]
        /\ UNCHANGED <<sends, chain, receipts>>
    BY DEF TakeOver, Append1, CanAppend, Record, outside
  <1>4. recs[c][g].state = "reserved"
    BY <1>3 DEF TakeOver, ChargeInv, HandlerInv, TakeOverOpen, Open, Record
  <1>5. r.state = "reserved" /\ r.sig = NoSig
    BY DEF Fresh
  <1> HIDE DEF r, c, g
  <1>6. Present(recs[c], g) /\ recs[c] \in Chains /\ Compact(recs[c])
    BY <1>1, <1>2, <1>4 DEF Present, SharedOK, AllCompact
  <1>7. Latest([recs[c] EXCEPT ![g + 1] = r]) = r /\ Latest(recs[c]) = recs[c][g]
    BY <1>2, <1>3, <1>5, <1>6, LatestExtend
  <1> DEFINE x == [recs[c] EXCEPT ![g + 1] = r]
  <1>8. recs' = [recs EXCEPT ![c] = x] /\ Latest(x) = r
    BY <1>3, <1>7
  <1> HIDE DEF x
  <1>9. Phase(Latest(recs[c]).state) \in {"free", "reserved"} /\ Phase(r.state) = "reserved"
    BY <1>4, <1>5, <1>7 DEF Phase
  <1>10. Ledger!Move(c, {"free", "reserved"}, Phase(Latest(x).state), Latest(x).sig)
    BY <1>1, <1>2, <1>3, <1>8, <1>9, MoveSimulated
  <1>11. Ledger!Reserve(c)
    BY <1>5, <1>8, <1>9, <1>10 DEF Ledger!Reserve
  <1>12. QED
    BY <1>2, <1>11 DEF Ledger!Next

LEMMA AppendRootSimulated ==
    ASSUME ChargeInv, AllCompact, NEW t \in Threads, AppendRoot(t), recs' # recs
    PROVE  Ledger!Next \/ UNCHANGED Ledger!vars
  <1> DEFINE r == Fresh(cred[t], since[t])
             c == Chal(t)
             x == [recs[c] EXCEPT ![0] = r]
  <1>1. LocalsOK /\ SharedOK
    BY InvTypes
  <1>2. c \in Challenges
    BY <1>1, Subjects DEF AppendRoot
  <1>3. /\ ~Present(recs[c], 0) /\ recs' = [recs EXCEPT ![c] = x]
        /\ UNCHANGED <<sends, chain, receipts>>
    BY DEF AppendRoot, Append1, CanAppend, Record, outside
  <1>4. r.state = "reserved" /\ r.sig = NoSig
    BY DEF Fresh
  <1> HIDE DEF r, c
  <1>5. recs[c] \in Chains /\ Compact(recs[c])
    BY <1>1, <1>2 DEF SharedOK, AllCompact
  <1>6. CASE Present(recs[c], 1)
    <2>1. Latest(x) = Latest(recs[c])
      BY <1>5, <1>6, LatestRoot
    <2>2. \A d \in Challenges : Latest(recs'[d]) = Latest(recs[d])
      BY <1>1, <1>2, <1>3, <2>1 DEF SharedOK
    <2>3. QED
      BY <1>3, <2>2, StepIsStutter
  <1>7. CASE ~Present(recs[c], 1)
    <2>1. Latest(x) = r /\ Latest(recs[c]) = Absent
      BY <1>3, <1>4, <1>5, <1>7, LatestFirst
    <2> HIDE DEF x
    <2>2. Phase(Latest(recs[c]).state) \in {"free", "reserved"} /\ Phase(r.state) = "reserved"
      BY <1>4, <2>1 DEF Phase, Absent
    <2>3. Ledger!Move(c, {"free", "reserved"}, Phase(Latest(x).state), Latest(x).sig)
      BY <1>1, <1>2, <1>3, <2>2, MoveSimulated
    <2>4. Ledger!Reserve(c)
      BY <1>4, <2>1, <2>2, <2>3 DEF Ledger!Reserve
    <2>5. QED
      BY <1>2, <2>4 DEF Ledger!Next
  <1>8. QED
    BY <1>6, <1>7

LEMMA RootDropped ==
    ASSUME SharedOK, AllCompact, NEW c \in Challenges, Present(recs[c], 1),
           recs' = [recs EXCEPT ![c][0] = Absent], UNCHANGED <<sends, chain, receipts>>
    PROVE  UNCHANGED Ledger!vars
  <1>1. recs[c] \in Chains /\ Compact(recs[c])
    BY DEF SharedOK, AllCompact
  <1>2. Latest([recs[c] EXCEPT ![0] = Absent]) = Latest(recs[c])
    BY <1>1, LatestRoot
  <1>3. \A d \in Challenges : Latest(recs'[d]) = Latest(recs[d])
    BY <1>2 DEF SharedOK
  <1>4. QED
    BY <1>3, StepIsStutter

(***************************************************************************)
(* The appends of mark_pending, release_pending, mark_confirmed,           *)
(* confirm_pending and mark_failed are Pend, Withdraw, Confirm and Fail.   *)
(***************************************************************************)
LEMMA WriteSimulated ==
    ASSUME ChargeInv, ReceiptInv, AllCompact, NEW t \in Threads, pc[t] \in Ops, checked[t],
           CanAppend(Record(t), gen[t] + 1), Written(t), UNCHANGED <<sends, chain, receipts>>
    PROVE  Ledger!Next
  <1> DEFINE c == Chal(t)
             g == gen[t]
             s == Sig(t)
             old == recs[c][g]
             r == Successor(pc[t], old, s, now)
             x == [recs[c] EXCEPT ![g + 1] = r]
  <1>1. LocalsOK /\ SharedOK
    BY InvTypes
  <1>2. /\ c \in Challenges /\ s \in Signatures /\ g \in Generations
        /\ Owned(pc[t], old, s) /\ ExtendStep(c, g, r) /\ r \in Records
    BY WrittenExtends DEF Record
  <1>3. recs' = [recs EXCEPT ![c] = x]
    BY DEF Written, Append1
  <1>4. /\ g + 1 \in Generations /\ ~Present(recs[c], g + 1) /\ Present(recs[c], g)
        /\ r.state # "absent" /\ old.state \in {"reserved", "pending"}
    BY <1>2 DEF ExtendStep, State, Present
  <1>5. old \in Records /\ recs[c] \in Chains /\ Compact(recs[c])
    BY <1>1, <1>2 DEF SharedOK, Chains, AllCompact
  <1>6. Latest(x) = r /\ Latest(recs[c]) = old
    <2> HIDE DEF r, c, g
    <2>1. QED
      BY <1>2, <1>4, <1>5, LatestExtend
  <1>7. ASSUME NEW from, old.state \in from
        PROVE  Ledger!Move(c, from, r.state, r.sig)
    <2>1. Phase(old.state) = old.state /\ Phase(r.state) = r.state
      BY <1>4 DEF Phase
    <2> HIDE DEF x, r, old, c
    <2>2. Ledger!Move(c, from, Phase(Latest(x).state), Latest(x).sig)
      BY <1>1, <1>2, <1>3, <1>6, <1>7, <2>1, MoveSimulated
    <2>3. QED
      BY <1>6, <2>1, <2>2
  <1>8. ASSUME NEW e \in sends, e[1] = c
        PROVE  old.state = "pending" /\ old.sig = e[3] /\ e[2] = g
    <2>1. State(c, g) \in {"reserved", "pending"}
      BY <1>4 DEF State
    <2> HIDE DEF c, g
    <2>2. e[2] = g /\ State(c, g) = "pending" /\ recs[c][g].sig = e[3]
      BY <1>2, <1>4, <1>8, <2>1, ExposedAtTip
    <2>3. QED
      BY <2>2 DEF State
  <1>9. CASE pc[t] = "mark_pending"
    <2>1. r.state = "pending" /\ r.sig = s /\ old.state = "reserved"
      BY <1>2, <1>5, <1>9 DEF Successor, Terminal, Records, Owned
    <2> HIDE DEF r, c, s, old
    <2>2. Ledger!Pend(c, s)
      BY <1>7, <2>1 DEF Ledger!Pend
    <2>3. QED
      BY <1>2, <2>2 DEF Ledger!Next
  <1>10. CASE pc[t] = "release_pending"
    <2>1. r.state = "reserved" /\ r.sig = NoSig /\ old.state = "pending" /\ old.sig = s
      BY <1>2, <1>5, <1>10 DEF Successor, Reclaimable, Records, Owned
    <2>2. SendKey(t) \notin sends
      BY <1>10 DEF ChargeInv, FenceInv, NotHandedOver, Withdrawing
    <2>3. ASSUME NEW e \in sends, e[1] = c PROVE FALSE
      <3>1. e[1] = Chal(t) /\ e[2] = gen[t] /\ e[3] = Sig(t)
        BY <1>8, <2>1, <2>3
      <3>2. e = <<e[1], e[2], e[3]>>
        BY <1>1 DEF SharedOK
      <3>3. QED
        BY <2>2, <3>1, <3>2 DEF SendKey
    <2> HIDE DEF r, c, s, old
    <2>4. Ledger!Withdraw(c)
      BY <1>7, <2>1, <2>3 DEF Ledger!Withdraw
    <2>5. QED
      BY <1>2, <2>4 DEF Ledger!Next
  <1>11. CASE pc[t] \in {"mark_confirmed", "confirm_pending"}
    <2>1. /\ r.state = "confirmed" /\ r.sig = s
          /\ old.state = "pending" => old.sig = s
      BY <1>2, <1>5, <1>11 DEF Successor, Terminal, Records, Owned
    <2>2. chain[s] = "ok"
      BY <1>11 DEF ReceiptInv, ReceiptHandler, SawLanding
    <2>3. Phase(old.state) = old.state
      BY <1>4 DEF Phase
    <2> HIDE DEF r, c, s, old
    <2>4. Ledger!Confirm(c, s)
      BY <1>2, <1>4, <1>6, <1>7, <2>1, <2>2, <2>3 DEF Ledger!Confirm
    <2>5. QED
      BY <1>2, <2>4 DEF Ledger!Next
  <1>12. CASE pc[t] = "mark_failed"
    <2>1. r.state = "failed" /\ r.sig = NoSig
      BY <1>5, <1>12 DEF Successor, Terminal, Records
    <2>2. ASSUME NEW e \in sends, e[1] = c PROVE chain[old.sig] = "failed"
      <3>1. old.state = "pending" /\ old.sig = e[3] /\ e[2] = g
        BY <1>8, <2>2
      <3>2. chain[Sig(t)] = "failed" /\ Record(t)[gen[t]].sig = Sig(t)
        BY <1>12, <2>2, <3>1 DEF ChargeInv, FenceInv, FailureJustified, Record
      <3>3. QED
        BY <3>2 DEF Record
    <2> HIDE DEF r, c, old
    <2>3. Ledger!Fail(c)
      BY <1>2, <1>4, <1>6, <1>7, <2>1, <2>2 DEF Ledger!Fail
    <2>4. QED
      BY <1>2, <2>3 DEF Ledger!Next
  <1>13. QED
    BY <1>9, <1>10, <1>11, <1>12 DEF Ops

LEMMA SendSimulated ==
    ASSUME ChargeInv, NEW t \in Threads, pc[t] \in {"send", "send_unchecked"}, HandedOver(t),
           UNCHANGED <<recs, chain, receipts>>
    PROVE  Ledger!Next
  <1> DEFINE c == Chal(t)
             g == gen[t]
             s == Sig(t)
  <1>1. LocalsOK /\ SharedOK /\ NoGaps /\ TerminalEnds
    BY InvTypes DEF ChargeInv, ChainInv
  <1>2. c \in Challenges /\ g \in Generations /\ s \in Signatures
    BY <1>1, Subjects
  <1>3. Settled(c, g, s) /\ sends' = sends \cup {<<c, g, s>>}
    BY DEF ChargeInv, FenceInv, SendersSettled, Broadcasting, HandedOver
  <1> HIDE DEF c, g, s
  <1>4. {e[1] : e \in sends'} = {e[1] : e \in sends} \cup {c}
    <2>1. <<c, g, s>>[1] = c
      OBVIOUS
    <2>2. QED
      BY <1>3, <2>1, Zenon
  <1>5. \/ Phase(Latest(recs[c]).state) \in {"pending", "confirmed"}
        \/ Phase(Latest(recs[c]).state) = "failed" /\ chain[s] = "failed"
    <2>1. g \in Nat /\ MaxGenerations \in Nat /\ \A h \in Generations : h \in Nat /\ h <= MaxGenerations
      BY <1>2 DEF Generations
    <2>2. CASE g < MaxGenerations /\ Present(recs[c], g + 1)
      <3>1. g + 1 \in Generations
        BY <2>1, <2>2 DEF Generations
      <3>2. /\ State(c, g + 1) \in {"confirmed", "failed"}
            /\ State(c, g + 1) = "failed" => chain[s] = "failed"
        BY <1>3, <2>2 DEF Settled, Present, State
      <3>3. Ends(recs[c], g + 1)
        BY <1>1, <1>2, <2>2, <3>1, <3>2 DEF TerminalEnds, Ends, Present, State
      <3>4. Latest(recs[c]) = recs[c][g + 1]
        BY <3>1, <3>3, LatestEnds
      <3>5. QED
        BY <3>2, <3>4 DEF Phase, State
    <2>3. CASE ~(g < MaxGenerations /\ Present(recs[c], g + 1))
      <3>1. State(c, g) = "pending"
        BY <1>3 DEF Settled
      <3>2. ASSUME NEW h \in Generations, h > g, Present(recs[c], h) PROVE FALSE
        <4>1. g + 1 \in Generations /\ 1 <= g + 1 /\ g + 1 <= h /\ g < MaxGenerations
          BY <2>1, <3>2 DEF Generations
        <4>2. Present(recs[c], g + 1)
          BY <1>1, <1>2, <3>2, <4>1 DEF NoGaps
        <4>3. QED
          BY <2>3, <4>1, <4>2
      <3>3. Ends(recs[c], g)
        BY <3>1, <3>2 DEF Ends, Present, State
      <3>4. Latest(recs[c]) = recs[c][g]
        BY <1>2, <3>3, LatestEnds
      <3>5. QED
        BY <3>1, <3>4 DEF Phase, State
    <2>4. QED
      BY <2>2, <2>3
  <1>6. PICK d \in Challenges : d = c
    BY <1>2
  <1>7. Ledger!Expose(d)
    BY <1>2, <1>4, <1>5, <1>6 DEF Ledger!Expose
  <1>8. QED
    BY <1>7 DEF Ledger!Next

LEMMA GrantSimulated ==
    ASSUME PullIsUnshared, ChargeInv, ReceiptInv, NEW t \in Threads, Grant(t)
    PROVE  Ledger!Next
  <1> DEFINE n == Len(receipts) + 1
             bought == {<<receipts[i].chal, receipts[i].sig>> : i \in DOMAIN receipts}
  <1>1. LocalsOK /\ SharedOK
    BY InvTypes
  <1>2. pc[t] = "grant" /\ UNCHANGED <<recs, sends, chain>>
    BY DEF Grant, stored, outside
  <1>3. Chal(t) \in Challenges /\ Sig(t) \in Signatures /\ chain[Sig(t)] = "ok"
    BY <1>1, <1>2, Subjects DEF ReceiptInv, ReceiptHandler, SawLanding
  <1>4. \A i \in DOMAIN receipts : receipts[i].chal # Chal(t) /\ receipts[i].sig # Sig(t)
    BY <1>2, NotYetGranted
  <1>5. /\ DOMAIN receipts' = DOMAIN receipts \cup {n}
        /\ receipts'[n] = [chal |-> Chal(t), sig |-> Sig(t)]
        /\ \A i \in DOMAIN receipts : receipts'[i] = receipts[i]
    BY <1>1 DEF Grant, SharedOK
  <1> HIDE DEF n
  <1>6. {<<receipts'[i].chal, receipts'[i].sig>> : i \in DOMAIN receipts'}
          = bought \cup {<<Chal(t), Sig(t)>>}
    BY <1>5
  <1>7. \A p \in bought : p[1] # Chal(t) /\ p[2] # Sig(t)
    BY <1>4
  <1>8. PICK c \in Challenges, s \in Signatures : c = Chal(t) /\ s = Sig(t)
    BY <1>3
  <1>9. Ledger!Grant(c, s)
    BY <1>2, <1>3, <1>6, <1>7, <1>8 DEF Ledger!Grant
  <1>10. QED
    BY <1>9 DEF Ledger!Next

LEMMA LandSimulated ==
    ASSUME NEW s \in Signatures, Land(s)
    PROVE  Ledger!Next
  <1>1. UNCHANGED <<recs, sends, receipts>>
    BY DEF Land, stored
  <1>2. /\ {e[1] : e \in sends'} = {e[1] : e \in sends}
        /\ {<<receipts'[i].chal, receipts'[i].sig>> : i \in DOMAIN receipts'}
             = {<<receipts[i].chal, receipts[i].sig>> : i \in DOMAIN receipts}
    BY <1>1
  <1>3. /\ [c \in Challenges |-> Phase(Latest(recs'[c]).state)]
             = [c \in Challenges |-> Phase(Latest(recs[c]).state)]
        /\ [c \in Challenges |-> Latest(recs'[c]).sig] = [c \in Challenges |-> Latest(recs[c]).sig]
    BY <1>1
  <1>4. Ledger!Land(s)
    BY <1>2, <1>3, Zenon DEF Land, Ledger!Land
  <1>5. QED
    BY <1>4, Zenon DEF Ledger!Next

LEMMA StepSimulated ==
    ASSUME PullIsUnshared, ChargeInv, ReceiptInv, AllCompact, [Next]_vars
    PROVE  [Ledger!Next]_(Ledger!vars)
  <1>1. LocalsOK /\ SharedOK
    BY InvTypes
  <1>2. CASE UNCHANGED <<recs, sends, chain, receipts>>
    BY <1>2, StepIsStutter
  <1>3. ASSUME NEW t \in Threads, AppendRoot(t) \/ TakeOver(t)
        PROVE  [Ledger!Next]_(Ledger!vars)
    <2>1. CASE recs' = recs
      <3>1. UNCHANGED <<sends, chain, receipts>>
        BY <1>3 DEF AppendRoot, TakeOver, outside
      <3>2. QED
        BY <1>2, <2>1, <3>1
    <2>2. QED
      BY <1>3, <2>1, AppendRootSimulated, TakeOverSimulated
  <1>4. ASSUME NEW t \in Threads, DeleteRoot(t)
        PROVE  [Ledger!Next]_(Ledger!vars)
    <2>1. Chal(t) \in Challenges
      BY <1>1, <1>4, Subjects DEF DeleteRoot
    <2>2. /\ Present(recs[Chal(t)], 1) /\ UNCHANGED <<sends, chain, receipts>>
          /\ recs' = [recs EXCEPT ![Chal(t)][0] = Absent]
      BY <1>4 DEF DeleteRoot, ChargeInv, HandlerInv, DeletesOrphanOnly, Record, outside
    <2>3. QED
      BY <1>1, <2>1, <2>2, RootDropped
  <1>5. ASSUME NEW c \in Challenges, RootExpires(c)
        PROVE  [Ledger!Next]_(Ledger!vars)
    BY <1>1, <1>5, RootDropped DEF RootExpires, outside
  <1>6. ASSUME NEW t \in Threads, AppendNext(t)
        PROVE  [Ledger!Next]_(Ledger!vars)
    <2>1. UNCHANGED <<sends, chain, receipts>> /\ pc[t] \in Ops /\ checked[t]
      BY <1>6 DEF AppendNext, outside
    <2>2. UNCHANGED recs \/ (CanAppend(Record(t), gen[t] + 1) /\ Written(t))
      BY <1>6 DEF AppendNext
    <2>3. QED
      BY <1>2, <2>1, <2>2, WriteSimulated
  <1>7. ASSUME NEW t \in Threads, SendAccepted(t) \/ SendLost(t)
        PROVE  [Ledger!Next]_(Ledger!vars)
    <2>1. UNCHANGED <<recs, chain, receipts>> /\ pc[t] \in {"send", "send_unchecked"}
      BY <1>7 DEF SendAccepted, SendLost, stored
    <2>2. HandedOver(t) \/ UNCHANGED sends
      BY <1>7 DEF SendAccepted, SendLost
    <2>3. QED
      BY <1>2, <2>1, <2>2, SendSimulated
  <1>8. ASSUME NEW s \in Signatures, PayerSubmits(s) \/ Land(s)
        PROVE  [Ledger!Next]_(Ledger!vars)
    BY <1>2, <1>8, LandSimulated DEF PayerSubmits, stored
  <1>9. QED
    BY <1>2, <1>3, <1>4, <1>5, <1>6, <1>7, <1>8, GrantSimulated DEF Next, vars, Handler, Reserve,
       Settle, Resolve, VerifyBound, VerifyBoundExpired, CheckOrphan, RecheckOrphan, Classify,
       RefusePayload, SendRejected, AwaitConfirmation, VerifyPush, Reconcile, ReadTip, Crash,
       BeginClaim, BeginUnclaim, AbandonRelease, ConsumePush, Tick, outside, stored

(***************************************************************************)
(* The charge server implements the abstract ledger: every store call, RPC *)
(* call and crash is one step of a ledger that reserves, pends, withdraws, *)
(* exposes, confirms, fails and grants atomically, or changes nothing.     *)
(***************************************************************************)
THEOREM ChargeImplementsLedger ==
    ASSUME PullIsUnshared
    PROVE  Spec => ImplementsLedger
  <1>1. Init => Ledger!Init
    <2>1. SUFFICES ASSUME Init PROVE Ledger!Init
      OBVIOUS
    <2>2. \A c \in Challenges : Latest(recs[c]) = Absent
      <3>1. \A c \in Challenges : \A g \in Generations : ~Present(recs[c], g)
        BY <2>1 DEF Init, Absent, Present
      <3>2. QED
        BY <3>1, LatestNone
    <2>3. Absent.state = "absent" /\ Absent.sig = NoSig
      BY DEF Absent
    <2>4. QED
      BY <2>1, <2>2, <2>3 DEF Init, Ledger!Init, Phase
  <1>2. ASSUME ChargeInv, AllCompact, [Next]_vars PROVE AllCompact'
    BY <1>2, InvTypes, RecsSteps, CompactKept
  <1>3. ASSUME ChargeInv, ReceiptInv, AllCompact, [Next]_vars
        PROVE  [Ledger!Next]_(Ledger!vars)
    BY <1>3, StepSimulated
  <1>4. QED
    BY <1>1, <1>2, <1>3, CompactInit, ChargeInvariant, ReceiptInvariant, PTL
       DEF Spec, ImplementsLedger, Ledger!Spec

=============================================================================

------------------------ MODULE ChargeSettlementProofs ------------------------
(***************************************************************************)
(* Proofs about ChargeSettlement, for every number of handlers,            *)
(* challenges, credentials, generations and attempts, with store errors,   *)
(* crashes, expiring roots and payers that submit on their own.            *)
(***************************************************************************)
EXTENDS ChargeInvariants, TLAPS

USE NoneAssumption, BoundAssumption, CredentialAssumption, LimitAssumption

-----------------------------------------------------------------------------
(***************************************************************************)
(* Typing.                                                                 *)
(***************************************************************************)
LocalsOK ==
    /\ pc \in [Threads -> PCs]
    /\ cred \in [Threads -> Credentials \cup {NoCred}]
    /\ gen \in [Threads -> Generations]
    /\ since \in [Threads -> Nat]
    /\ attempt \in [Threads -> 0 .. MaxAttempts]
    /\ maybeSent \in [Threads -> BOOLEAN]
    /\ checked \in [Threads -> BOOLEAN]
    /\ \A t \in Threads : HoldsCredential(t)

SharedOK ==
    /\ recs \in [Challenges -> Chains]
    /\ ledger \in [Signatures -> {"free", "consumed"}]
    /\ now \in Nat
    /\ inflight \subseteq Signatures
    /\ chain \in [Signatures -> {"none", "ok", "failed"}]
    /\ crashes \in Nat
    /\ sends \subseteq Challenges \X Generations \X Signatures
    /\ receipts \in Seq([chal : Challenges, sig : Signatures])

LEMMA TypeSplit ==
    TypeOK /\ (\A t \in Threads : HoldsCredential(t)) <=> LocalsOK /\ SharedOK
  BY DEF TypeOK, LocalsOK, SharedOK

LEMMA RecordTypes ==
    /\ Absent \in Records
    /\ \A k \in Credentials \cup {NoCred}, n \in Nat : Fresh(k, n) \in Records
    /\ \A r \in Records, op \in Ops, s \in Signatures, n \in Nat :
         Successor(op, r, s, n) \in Records
  <1>1. Absent \in Records
    BY DEF Absent, Records, RecordStates
  <1>2. \A k \in Credentials \cup {NoCred}, n \in Nat : Fresh(k, n) \in Records
    BY DEF Fresh, Records, RecordStates
  <1>3. ASSUME NEW r \in Records, NEW op \in Ops, NEW s \in Signatures, NEW n \in Nat
        PROVE  Successor(op, r, s, n) \in Records
    BY <1>3 DEF Ops, Successor, Terminal, Reclaimable, Records, RecordStates
  <1>4. QED
    BY <1>1, <1>2, <1>3

LEMMA Labels ==
    ASSUME NEW op \in Ops, NEW k
    PROVE  /\ AfterTrue(op) \in {"send", "grant", "mark_failed", "idle"}
           /\ AfterFalse(op) \in {"unclaim", "mark_failed", "idle"}
           /\ AfterError(op, k) \in {"mark_failed", "grant", "idle"}
  BY DEF Ops, AfterTrue, AfterFalse, AfterError

(***************************************************************************)
(* Whoever is not idle works on a known challenge and signature.           *)
(***************************************************************************)
LEMMA Subjects ==
    ASSUME LocalsOK, NEW t \in Threads, pc[t] # "idle"
    PROVE  /\ cred[t] \in Credentials
           /\ Chal(t) \in Challenges
           /\ Sig(t) \in Signatures
           /\ gen[t] \in Generations
  BY DEF LocalsOK, HoldsCredential, Chal, Sig

LEMMA ReturnLocals ==
    ASSUME LocalsOK, NEW t \in Threads, Return(t)
    PROVE  LocalsOK'
  BY DEF LocalsOK, HoldsCredential, Return, PCs, Generations

LEMMA GotoLocals ==
    ASSUME LocalsOK, NEW t \in Threads, pc[t] # "idle", NEW label \in PCs,
           Goto(t, label), UNCHANGED locals
    PROVE  LocalsOK'
  <1>1. /\ pc' = [pc EXCEPT ![t] = label]
        /\ UNCHANGED <<cred, gen, since, attempt, maybeSent, checked>>
    BY DEF Goto, locals
  <1>2. QED
    BY <1>1 DEF LocalsOK, HoldsCredential

LEMMA ContinueLocals ==
    ASSUME LocalsOK, NEW t \in Threads, pc[t] # "idle",
           NEW label \in PCs, Continue(t, label)
    PROVE  LocalsOK'
  <1>1. CASE label = "idle"
    <2>1. Return(t)
      BY <1>1 DEF Continue
    <2>2. QED
      BY <2>1, ReturnLocals
  <1>2. CASE label # "idle"
    <2>1. /\ pc' = [pc EXCEPT ![t] = label]
          /\ checked' = [checked EXCEPT ![t] = FALSE]
          /\ UNCHANGED <<cred, gen, since, attempt, maybeSent>>
      BY <1>2 DEF Continue, Goto
    <2>2. QED
      BY <2>1 DEF LocalsOK, HoldsCredential
  <1>3. QED
    BY <1>1, <1>2

(***************************************************************************)
(* The shared variables keep their types.                                  *)
(***************************************************************************)
LEMMA SharedStep ==
    ASSUME LocalsOK, SharedOK, [Next]_vars
    PROVE  SharedOK'
  <1> USE DEF stored, outside
  <1>1. ASSUME NEW t \in Threads, NEW k \in Credentials,
               VerifyBound(t, k) \/ VerifyBoundExpired(t, k)
        PROVE  SharedOK'
    BY <1>1 DEF SharedOK, VerifyBound, VerifyBoundExpired
  <1>2. ASSUME NEW t \in Threads,
               \/ CheckOrphan(t) \/ RecheckOrphan(t) \/ Classify(t)
               \/ RefusePayload(t) \/ SendRejected(t) \/ AwaitConfirmation(t)
               \/ VerifyPush(t) \/ Reconcile(t) \/ ReadTip(t)
        PROVE  SharedOK'
    BY <1>2 DEF SharedOK, CheckOrphan, RecheckOrphan, Classify, RefusePayload, SendRejected, AwaitConfirmation, VerifyPush, Reconcile, ReadTip
  <1>3. ASSUME NEW t \in Threads, AppendRoot(t)
        PROVE  SharedOK'
    <2>1. Fresh(cred[t], since[t]) \in Records
      BY RecordTypes DEF LocalsOK
    <2>2. recs' \in [Challenges -> Chains]
      <3>1. CASE UNCHANGED recs
        BY <3>1 DEF SharedOK
      <3>2. CASE recs' = [recs EXCEPT ![Chal(t)] =
                            Append1(@, 0, Fresh(cred[t], since[t]))]
        BY <2>1, <3>2 DEF SharedOK, Append1, Chains
      <3>3. QED
        BY <1>3, <3>1, <3>2 DEF AppendRoot
    <2>3. QED
      BY <1>3, <2>2 DEF SharedOK, AppendRoot
  <1>4. ASSUME NEW t \in Threads, DeleteRoot(t)
        PROVE  SharedOK'
    <2>1. recs' \in [Challenges -> Chains]
      BY <1>4, RecordTypes DEF SharedOK, DeleteRoot, Chains
    <2>2. QED
      BY <1>4, <2>1 DEF SharedOK, DeleteRoot
  <1>5. ASSUME NEW t \in Threads, TakeOver(t)
        PROVE  SharedOK'
    <2>1. Fresh(cred[t], since[t]) \in Records
      BY RecordTypes DEF LocalsOK
    <2>2. recs' \in [Challenges -> Chains]
      <3>1. CASE UNCHANGED recs
        BY <3>1 DEF SharedOK
      <3>2. CASE recs' = [recs EXCEPT ![Chal(t)] =
                            Append1(@, gen[t] + 1, Fresh(cred[t], since[t]))]
        BY <2>1, <3>2 DEF SharedOK, Append1, Chains
      <3>3. QED
        BY <1>5, <3>1, <3>2 DEF TakeOver
    <2>3. QED
      BY <1>5, <2>2 DEF SharedOK, TakeOver
  <1>6. ASSUME NEW t \in Threads, BeginClaim(t) \/ ConsumePush(t)
        PROVE  SharedOK'
    <2>1. ledger' \in [Signatures -> {"free", "consumed"}]
      BY <1>6 DEF SharedOK, BeginClaim, ConsumePush, Claim
    <2>2. QED
      BY <1>6, <2>1 DEF SharedOK, BeginClaim, ConsumePush
  <1>7. ASSUME NEW t \in Threads, BeginUnclaim(t) \/ AbandonRelease(t)
        PROVE  SharedOK'
    <2>1. ledger' \in [Signatures -> {"free", "consumed"}]
      BY <1>7 DEF SharedOK, BeginUnclaim, AbandonRelease, Release
    <2>2. QED
      BY <1>7, <2>1 DEF SharedOK, BeginUnclaim, AbandonRelease
  <1>8. ASSUME NEW t \in Threads, SendAccepted(t) \/ SendLost(t)
        PROVE  SharedOK'
    <2>1. pc[t] # "idle"
      BY <1>8 DEF SendAccepted, SendLost
    <2>2. /\ Sig(t) \in Signatures
          /\ <<Chal(t), gen[t], Sig(t)>> \in Challenges \X Generations \X Signatures
      BY <2>1, Subjects
    <2>3. HandedOver(t) \/ UNCHANGED <<inflight, sends>>
      BY <1>8 DEF SendAccepted, SendLost
    <2>4. /\ inflight' \subseteq Signatures
          /\ sends' \subseteq Challenges \X Generations \X Signatures
      BY <2>2, <2>3 DEF SharedOK, HandedOver
    <2>5. QED
      BY <1>8, <2>4 DEF SharedOK, SendAccepted, SendLost
  <1>9. ASSUME NEW t \in Threads, AppendNext(t)
        PROVE  SharedOK'
    <2>1. pc[t] \in Ops /\ pc[t] # "idle"
      BY <1>9 DEF AppendNext, Ops
    <2>2. Successor(pc[t], Record(t)[gen[t]], Sig(t), now) \in Records
      BY <2>1, Subjects, RecordTypes DEF SharedOK, Chains, Record
    <2>3. recs' \in [Challenges -> Chains]
      <3>1. CASE Written(t)
        BY <2>2, <3>1 DEF SharedOK, Written, Append1, Chains, Record
      <3>2. CASE UNCHANGED recs
        BY <3>2 DEF SharedOK
      <3>3. QED
        BY <1>9, <3>1, <3>2 DEF AppendNext
    <2>4. QED
      BY <1>9, <2>3 DEF SharedOK, AppendNext
  <1>10. ASSUME NEW t \in Threads, Grant(t)
         PROVE  SharedOK'
    <2>1. [chal |-> Chal(t), sig |-> Sig(t)] \in [chal : Challenges, sig : Signatures]
      BY <1>10, Subjects DEF Grant
    <2>2. receipts' \in Seq([chal : Challenges, sig : Signatures])
      BY <1>10, <2>1 DEF SharedOK, Grant
    <2>3. QED
      BY <1>10, <2>2 DEF SharedOK, Grant
  <1>11. ASSUME NEW s \in Signatures, PayerSubmits(s) \/ Land(s)
         PROVE  SharedOK'
    BY <1>11 DEF SharedOK, PayerSubmits, Land
  <1>12. ASSUME NEW c \in Challenges, RootExpires(c)
         PROVE  SharedOK'
    <2>1. recs' \in [Challenges -> Chains]
      BY <1>12, RecordTypes DEF SharedOK, RootExpires, Chains
    <2>2. QED
      BY <1>12, <2>1 DEF SharedOK, RootExpires
  <1>13. CASE Tick \/ UNCHANGED vars
    BY <1>13 DEF SharedOK, Tick, vars
  <1>14. ASSUME NEW t \in Threads, Crash(t)
         PROVE  SharedOK'
    BY <1>14 DEF SharedOK, Crash
  <1>15. QED
    BY <1>1, <1>2, <1>3, <1>4, <1>5, <1>6, <1>7, <1>8, <1>9, <1>10, <1>11,
       <1>12, <1>13, <1>14
       DEF Next, Handler, Reserve, Settle, Resolve

(***************************************************************************)
(* The handlers' own variables keep their types.                           *)
(***************************************************************************)
LEMMA LocalsStep ==
    ASSUME LocalsOK, SharedOK, [Next]_vars
    PROVE  LocalsOK'
  <1>1. ASSUME NEW t \in Threads, NEW k \in Credentials, VerifyBound(t, k)
        PROVE  LocalsOK'
    BY <1>1 DEF LocalsOK, SharedOK, HoldsCredential, VerifyBound, Goto, PCs
  <1>2. ASSUME NEW t \in Threads, NEW k \in Credentials, VerifyBoundExpired(t, k)
        PROVE  LocalsOK'
    BY <1>2 DEF LocalsOK, HoldsCredential, VerifyBoundExpired, Goto, PCs
  <1>3. ASSUME NEW t \in Threads,
               CheckOrphan(t) \/ AwaitConfirmation(t) \/ Reconcile(t)
        PROVE  LocalsOK'
    <2>1. \/ Return(t)
          \/ /\ pc[t] # "idle" /\ UNCHANGED locals
             /\ \E label \in PCs : Goto(t, label)
      BY <1>3 DEF CheckOrphan, AwaitConfirmation, Reconcile, PCs, Ops
    <2>2. QED
      BY <2>1, ReturnLocals, GotoLocals
  <1>4. ASSUME NEW t \in Threads,
               \/ AppendRoot(t) \/ RecheckOrphan(t) \/ RefusePayload(t)
               \/ BeginClaim(t) \/ BeginUnclaim(t) \/ SendAccepted(t)
               \/ AbandonRelease(t) \/ VerifyPush(t) \/ ConsumePush(t)
        PROVE  LocalsOK'
    <2>1. /\ pc[t] # "idle" /\ UNCHANGED locals
          /\ \E label \in PCs : Goto(t, label)
      BY <1>4 DEF AppendRoot, RecheckOrphan, RefusePayload, BeginClaim, Claim,
                  BeginUnclaim, Release, SendAccepted, AbandonRelease,
                  VerifyPush, ConsumePush, PCs, Ops
    <2>2. QED
      BY <2>1, GotoLocals
  <1>5. ASSUME NEW t \in Threads, DeleteRoot(t) \/ Grant(t) \/ Crash(t)
        PROVE  LocalsOK'
    BY <1>5, ReturnLocals DEF DeleteRoot, Grant, Crash
  <1>6. ASSUME NEW t \in Threads, Classify(t)
        PROVE  LocalsOK'
    <2>1. CASE Return(t)
      BY <2>1, ReturnLocals
    <2>2. CASE ~Return(t)
      <3>1. PICK g \in Generations, label \in {"reconcile", "takeover"} :
              /\ pc' = [pc EXCEPT ![t] = label]
              /\ gen' = [gen EXCEPT ![t] = g]
              /\ UNCHANGED <<cred, since, attempt, maybeSent, checked>>
        BY <1>6, <2>2 DEF Classify, Goto
      <3>2. QED
        BY <1>6, <3>1 DEF LocalsOK, HoldsCredential, PCs, Classify
    <2>3. QED
      BY <2>1, <2>2
  <1>7. ASSUME NEW t \in Threads, TakeOver(t)
        PROVE  LocalsOK'
    <2>1. PICK g \in Generations, label \in {"settle", "classify"} :
            /\ pc' = [pc EXCEPT ![t] = label]
            /\ gen' = [gen EXCEPT ![t] = g]
            /\ UNCHANGED <<cred, since, attempt, maybeSent, checked>>
      BY <1>7 DEF TakeOver, Goto, CanAppend, LocalsOK
    <2>2. QED
      BY <1>7, <2>1 DEF LocalsOK, HoldsCredential, PCs, TakeOver
  <1>8. ASSUME NEW t \in Threads, SendRejected(t) \/ SendLost(t)
        PROVE  LocalsOK'
    <2>1. CASE Return(t)
      BY <2>1, ReturnLocals
    <2>2. CASE /\ pc[t] # "idle" /\ UNCHANGED locals
               /\ \E label \in PCs : Goto(t, label)
      BY <2>2, GotoLocals
    <2>3. CASE /\ attempt[t] # MaxAttempts
               /\ attempt' = [attempt EXCEPT ![t] = @ + 1]
               /\ maybeSent' \in {maybeSent, [maybeSent EXCEPT ![t] = TRUE]}
               /\ UNCHANGED <<pc, cred, gen, since, checked>>
      <3>1. attempt[t] + 1 \in 0 .. MaxAttempts
        BY <2>3 DEF LocalsOK
      <3>2. QED
        BY <2>3, <3>1 DEF LocalsOK, HoldsCredential
    <2>4. QED
      BY <1>8, <2>1, <2>2, <2>3 DEF SendRejected, SendLost, NextAttempt, PCs
  <1>9. ASSUME NEW t \in Threads, ReadTip(t)
        PROVE  LocalsOK'
    <2>1. pc[t] # "idle" /\ pc[t] \in Ops
      BY <1>9 DEF ReadTip, Ops
    <2>2. CASE \E label \in PCs : Continue(t, label)
      BY <2>1, <2>2, ContinueLocals
    <2>3. CASE /\ checked' = [checked EXCEPT ![t] = TRUE]
               /\ UNCHANGED <<pc, cred, gen, since, attempt, maybeSent>>
      BY <2>3 DEF LocalsOK, HoldsCredential
    <2>4. AfterFalse(pc[t]) \in PCs /\ AfterError(pc[t], cred[t]) \in PCs
      BY <2>1, Labels DEF PCs, Ops
    <2>5. QED
      BY <1>9, <2>2, <2>3, <2>4 DEF ReadTip
  <1>10. ASSUME NEW t \in Threads, AppendNext(t)
         PROVE  LocalsOK'
    <2>1. pc[t] # "idle" /\ pc[t] \in Ops
      BY <1>10 DEF AppendNext, Ops
    <2>2. /\ AfterFalse(pc[t]) \in PCs /\ AfterError(pc[t], cred[t]) \in PCs
          /\ AfterTrue(pc[t]) \in PCs
      BY <2>1, Labels DEF PCs, Ops
    <2>3. CASE \E label \in PCs : Continue(t, label)
      BY <2>1, <2>3, ContinueLocals
    <2>4. CASE Return(t)
      BY <2>4, ReturnLocals
    <2>5. CASE ~Return(t) /\ ~(\E label \in PCs : Continue(t, label))
      <3>1. /\ gen[t] + 1 \in Generations
            /\ pc' = [pc EXCEPT ![t] = AfterTrue(pc[t])]
            /\ gen' = [gen EXCEPT ![t] = @ + 1]
            /\ attempt' = [attempt EXCEPT ![t] =
                             IF pc[t] = "mark_pending" THEN 1 ELSE 0]
            /\ maybeSent' = [maybeSent EXCEPT ![t] = FALSE]
            /\ checked' = [checked EXCEPT ![t] = FALSE]
            /\ UNCHANGED <<cred, since>>
        BY <1>10, <2>2, <2>5 DEF AppendNext, CanAppend, Goto
      <3>2. QED
        BY <2>1, <2>2, <3>1 DEF LocalsOK, HoldsCredential
    <2>6. QED
      BY <2>3, <2>4, <2>5
  <1>11. CASE UNCHANGED <<pc, locals>>
    BY <1>11 DEF LocalsOK, HoldsCredential, locals
  <1>12. ASSUME NEW s \in Signatures, PayerSubmits(s) \/ Land(s)
         PROVE  LocalsOK'
    BY <1>11, <1>12 DEF PayerSubmits, Land
  <1>13. ASSUME NEW c \in Challenges, RootExpires(c)
         PROVE  LocalsOK'
    BY <1>11, <1>13 DEF RootExpires
  <1>14. CASE Tick \/ UNCHANGED vars
    BY <1>11, <1>14 DEF Tick, vars, locals
  <1>15. QED
    BY <1>1, <1>2, <1>3, <1>4, <1>5, <1>6, <1>7, <1>8, <1>9, <1>10,
       <1>12, <1>13, <1>14
       DEF Next, Handler, Reserve, Settle, Resolve

LEMMA InitTypes == Init => LocalsOK /\ SharedOK
  BY RecordTypes DEF Init, LocalsOK, SharedOK, HoldsCredential, PCs, Chains,
                     Generations

(***************************************************************************)
(* Every variable keeps its type: handlers work on known credentials, and  *)
(* no chain of generations grows past its bound.                           *)
(***************************************************************************)
THEOREM TypeCorrect == Spec => []TypeOK
  <1>1. Init => LocalsOK /\ SharedOK
    BY InitTypes
  <1>2. LocalsOK /\ SharedOK /\ [Next]_vars => LocalsOK' /\ SharedOK'
    BY LocalsStep, SharedStep
  <1>3. LocalsOK /\ SharedOK => TypeOK
    BY TypeSplit
  <1>4. QED
    BY <1>1, <1>2, <1>3, PTL DEF Spec

-----------------------------------------------------------------------------
(***************************************************************************)
(* How a step may change the chains: not at all, by writing or losing a    *)
(* root that later generations do not rely on, or by one more generation   *)
(* after an unresolved one.                                                *)
(***************************************************************************)
RootStep(c, r) ==
    /\ r \in Records /\ r.state \in {"absent", "reserved"}
    /\ Present(recs[c], 0) => Present(recs[c], 1)
    /\ recs' = [recs EXCEPT ![c][0] = r]

ExtendStep(c, g, r) ==
    /\ g + 1 \in Generations
    /\ ~Present(recs[c], g + 1)
    /\ State(c, g) \in {"reserved", "pending"}
    /\ r \in Records /\ r.state # "absent"
    /\ r.state = "pending" => /\ r.digest \in Credentials
                              /\ r.sig = SigOf[r.digest]
    /\ recs' = [recs EXCEPT ![c][g + 1] = r]

RecsStep ==
    \/ UNCHANGED recs
    \/ \E c \in Challenges, r \in Records : RootStep(c, r)
    \/ \E c \in Challenges, g \in Generations, r \in Records : ExtendStep(c, g, r)

(***************************************************************************)
(* What survives such a step: every later generation, and the root while   *)
(* nothing follows it.                                                     *)
(***************************************************************************)
RecsKept ==
    \A c \in Challenges :
        /\ \A g \in Generations :
             g > 0 /\ Present(recs[c], g) => recs'[c][g] = recs[c][g]
        /\ Present(recs[c], 0) /\ ~Present(recs[c], 1) => recs'[c][0] = recs[c][0]
        /\ recs'[c][0] # recs[c][0] => recs'[c][0].state \in {"absent", "reserved"}

LEMMA KeepsRecords ==
    ASSUME SharedOK, RecsStep
    PROVE  RecsKept
  <1>1. 0 \in Generations /\ 1 \in Generations
    BY DEF Generations
  <1>2. CASE UNCHANGED recs
    BY <1>2 DEF RecsKept
  <1>3. ASSUME NEW c \in Challenges, NEW r \in Records, RootStep(c, r)
        PROVE  RecsKept
    BY <1>1, <1>3 DEF RootStep, RecsKept, SharedOK, Chains, Present, Generations
  <1>4. ASSUME NEW c \in Challenges, NEW g \in Generations, NEW r \in Records,
               ExtendStep(c, g, r)
        PROVE  RecsKept
    BY <1>1, <1>4 DEF ExtendStep, RecsKept, SharedOK, Chains, Present, Generations
  <1>5. QED
    BY <1>2, <1>3, <1>4 DEF RecsStep

LEMMA ChainKept ==
    ASSUME SharedOK, ChainInv, RecsStep
    PROVE  ChainInv'
  <1>1. 0 \in Generations /\ 1 \in Generations /\ Generations \subseteq Nat
    BY DEF Generations
  <1>2. CASE UNCHANGED recs
    BY <1>2 DEF ChainInv, NoGaps, TerminalEnds, RootReserves,
                PendingNamesSignature, State
  <1>3. ASSUME NEW c \in Challenges, NEW r \in Records, RootStep(c, r)
        PROVE  ChainInv'
    <2>1. \A d \in Challenges : \A h \in Generations :
            recs'[d][h] = IF d = c /\ h = 0 THEN r ELSE recs[d][h]
      BY <1>1, <1>3 DEF RootStep, SharedOK, Chains
    <2>2. r.state \in {"absent", "reserved"}
      BY <1>3 DEF RootStep
    <2>3. NoGaps'
      BY <1>1, <2>1 DEF ChainInv, NoGaps, Present
    <2>4. TerminalEnds'
      BY <1>1, <2>1, <2>2 DEF ChainInv, TerminalEnds, State
    <2>5. RootReserves' /\ PendingNamesSignature'
      BY <1>1, <2>1, <2>2 DEF ChainInv, RootReserves, PendingNamesSignature, State
    <2>6. QED
      BY <2>3, <2>4, <2>5 DEF ChainInv
  <1>4. ASSUME NEW c \in Challenges, NEW g \in Generations, NEW r \in Records,
               ExtendStep(c, g, r)
        PROVE  ChainInv'
    <2>1. \A d \in Challenges : \A h \in Generations :
            recs'[d][h] = IF d = c /\ h = g + 1 THEN r ELSE recs[d][h]
      BY <1>1, <1>4 DEF ExtendStep, SharedOK, Chains
    <2>2. /\ r.state # "absent" /\ g + 1 \in Generations
          /\ ~Present(recs[c], g + 1) /\ Present(recs[c], g)
          /\ State(c, g) \notin {"confirmed", "failed"}
      BY <1>4 DEF ExtendStep, State, Present
    <2>3. NoGaps'
      <3>1. SUFFICES ASSUME NEW d \in Challenges, NEW a \in Generations,
                            NEW b \in Generations,
                            1 <= b, b <= a, recs'[d][a].state # "absent"
                     PROVE  recs'[d][b].state # "absent"
        BY DEF NoGaps, Present
      <3>2. CASE d = c /\ a = g + 1
        <4>1. b = g + 1 \/ b <= g
          BY <1>1, <3>1, <3>2
        <4>2. CASE b <= g
          <5>1. recs[c][g].state # "absent"
            BY <2>2 DEF Present
          <5>2. recs[c][b].state # "absent"
            BY <3>1, <4>2, <5>1 DEF ChainInv, NoGaps, Present
          <5>3. QED
            BY <2>1, <2>2, <3>2, <5>2
        <4>3. QED
          BY <2>1, <2>2, <3>2, <4>1, <4>2
      <3>3. CASE ~(d = c /\ a = g + 1)
        <4>1. recs[d][a].state # "absent"
          BY <2>1, <3>1, <3>3
        <4>2. recs[d][b].state # "absent"
          BY <3>1, <4>1 DEF ChainInv, NoGaps, Present
        <4>3. QED
          BY <2>1, <2>2, <4>2
      <3>4. QED
        BY <3>2, <3>3
    <2>4. \A h \in Generations : h > g + 1 => State(c, h) = "absent"
      BY <1>1, <2>2 DEF ChainInv, NoGaps, Present, State
    <2>5. \A h \in Generations : h <= g => State(c, h) \notin {"confirmed", "failed"}
      <3>1. SUFFICES ASSUME NEW h \in Generations, h <= g,
                            State(c, h) \in {"confirmed", "failed"}
                     PROVE  FALSE
        OBVIOUS
      <3>2. h < g
        BY <1>1, <2>2, <3>1
      <3>3. State(c, g) = "absent"
        BY <3>1, <3>2 DEF ChainInv, TerminalEnds
      <3>4. QED
        BY <2>2, <3>3 DEF State, Present
    <2>6. TerminalEnds'
      BY <1>1, <2>1, <2>2, <2>4, <2>5 DEF ChainInv, TerminalEnds, State
    <2>7. RootReserves' /\ PendingNamesSignature'
      BY <1>1, <1>4, <2>1 DEF ChainInv, RootReserves, PendingNamesSignature,
                              State, ExtendStep
    <2>8. QED
      BY <2>3, <2>6, <2>7 DEF ChainInv
  <1>5. QED
    BY <1>2, <1>3, <1>4 DEF RecsStep

LEMMA InvTypes == ASSUME ChargeInv PROVE LocalsOK /\ SharedOK
  BY TypeSplit DEF ChargeInv, HandlerInv

(***************************************************************************)
(* A written generation follows one the handler still owns.                *)
(***************************************************************************)
LEMMA WrittenExtends ==
    ASSUME ChargeInv, NEW t \in Threads, pc[t] \in Ops, checked[t],
           CanAppend(Record(t), gen[t] + 1), Written(t)
    PROVE  /\ Chal(t) \in Challenges /\ Sig(t) \in Signatures
           /\ gen[t] \in Generations
           /\ Owned(pc[t], Record(t)[gen[t]], Sig(t))
           /\ ExtendStep(Chal(t), gen[t],
                         Successor(pc[t], Record(t)[gen[t]], Sig(t), now))
           /\ Successor(pc[t], Record(t)[gen[t]], Sig(t), now) \in Records
  <1> DEFINE r == Successor(pc[t], Record(t)[gen[t]], Sig(t), now)
  <1>1. LocalsOK /\ SharedOK
    BY InvTypes
  <1>2. pc[t] # "idle"
    BY DEF Ops
  <1>3. /\ cred[t] \in Credentials /\ Chal(t) \in Challenges
        /\ Sig(t) \in Signatures /\ gen[t] \in Generations
    BY <1>1, <1>2, Subjects
  <1>4. gen[t] + 1 \in Generations /\ ~Present(recs[Chal(t)], gen[t] + 1)
    BY DEF CanAppend, Record
  <1>5. Owned(pc[t], Record(t)[gen[t]], Sig(t))
    BY <1>4 DEF ChargeInv, HandlerInv, CheckedIsOwned, Open, Record
  <1>6. State(Chal(t), gen[t]) \in {"reserved", "pending"}
    BY <1>5 DEF Owned, State, Record
  <1>7. Record(t)[gen[t]] \in Records
    BY <1>1, <1>3 DEF SharedOK, Chains, Record
  <1>8. r \in Records
    BY <1>1, <1>3, <1>7, RecordTypes DEF SharedOK
  <1>9. r.state # "absent"
    BY <1>7 DEF Ops, Successor, Terminal, Reclaimable, Records
  <1>10. ASSUME r.state = "pending"
         PROVE  r.digest \in Credentials /\ r.sig = SigOf[r.digest]
    <2>1. pc[t] = "mark_pending"
      BY <1>7, <1>10 DEF Ops, Successor, Terminal, Reclaimable, Records
    <2>2. Record(t)[gen[t]].digest = cred[t]
      BY <1>3, <1>4, <2>1 DEF ChargeInv, HandlerInv, ReservationHeld, Open,
                              Record, Generations
    <2>3. r.digest = cred[t] /\ r.sig = Sig(t)
      BY <1>7, <2>1, <2>2 DEF Successor, Terminal, Records
    <2>4. QED
      BY <1>3, <2>3 DEF Sig
  <1>11. recs' = [recs EXCEPT ![Chal(t)][gen[t] + 1] = r]
    BY DEF Written, Append1, Record
  <1>12. QED
    BY <1>3, <1>4, <1>5, <1>6, <1>8, <1>9, <1>10, <1>11 DEF ExtendStep

LEMMA RecsSteps ==
    ASSUME ChargeInv, [Next]_vars
    PROVE  RecsStep
  <1>1. LocalsOK /\ SharedOK
    BY InvTypes
  <1>2. ASSUME NEW t \in Threads, AppendRoot(t)
        PROVE  RecsStep
    <2>1. Chal(t) \in Challenges
      BY <1>1, <1>2, Subjects DEF AppendRoot
    <2>2. Fresh(cred[t], since[t]) \in Records
      BY <1>1, RecordTypes DEF LocalsOK
    <2>3. CASE UNCHANGED recs
      BY <2>3 DEF RecsStep
    <2>4. CASE /\ CanAppend(Record(t), 0)
               /\ recs' = [recs EXCEPT ![Chal(t)] =
                             Append1(@, 0, Fresh(cred[t], since[t]))]
      <3>1. RootStep(Chal(t), Fresh(cred[t], since[t]))
        <4>1. Fresh(cred[t], since[t]).state = "reserved"
          BY DEF Fresh
        <4>2. ~Present(recs[Chal(t)], 0)
          BY <2>4 DEF CanAppend, Record
        <4>3. recs' = [recs EXCEPT ![Chal(t)][0] = Fresh(cred[t], since[t])]
          BY <2>4 DEF Append1
        <4>4. QED
          BY <2>2, <4>1, <4>2, <4>3 DEF RootStep
      <3>2. QED
        BY <2>1, <2>2, <3>1 DEF RecsStep
    <2>5. QED
      BY <1>2, <2>3, <2>4 DEF AppendRoot
  <1>3. ASSUME NEW c \in Challenges, Present(recs[c], 1),
               recs' = [recs EXCEPT ![c][0] = Absent]
        PROVE  RecsStep
    <2>1. Absent.state = "absent"
      BY DEF Absent
    <2>2. RootStep(c, Absent)
      BY <1>3, <2>1, RecordTypes DEF RootStep
    <2>3. QED
      BY <2>2, RecordTypes DEF RecsStep
  <1>4. ASSUME NEW t \in Threads, DeleteRoot(t)
        PROVE  RecsStep
    <2>1. Chal(t) \in Challenges
      BY <1>1, <1>4, Subjects DEF DeleteRoot
    <2>2. Present(recs[Chal(t)], 1)
      BY <1>4 DEF DeleteRoot, ChargeInv, HandlerInv, DeletesOrphanOnly, Record
    <2>3. QED
      BY <1>3, <1>4, <2>1, <2>2 DEF DeleteRoot
  <1>5. ASSUME NEW c \in Challenges, RootExpires(c)
        PROVE  RecsStep
    BY <1>3, <1>5 DEF RootExpires
  <1>6. ASSUME NEW t \in Threads, TakeOver(t)
        PROVE  RecsStep
    <2>1. /\ Chal(t) \in Challenges /\ gen[t] \in Generations
          /\ Fresh(cred[t], since[t]) \in Records
      BY <1>1, <1>6, Subjects, RecordTypes DEF TakeOver, LocalsOK
    <2>2. CASE UNCHANGED recs
      BY <2>2 DEF RecsStep
    <2>3. CASE /\ CanAppend(Record(t), gen[t] + 1)
               /\ recs' = [recs EXCEPT ![Chal(t)] =
                             Append1(@, gen[t] + 1, Fresh(cred[t], since[t]))]
      <3>1. State(Chal(t), gen[t]) = "reserved"
        BY <1>6, <2>3 DEF TakeOver, CanAppend, ChargeInv, HandlerInv,
                          TakeOverOpen, Open, State, Record
      <3>2. Fresh(cred[t], since[t]).state = "reserved"
        BY DEF Fresh
      <3>3. recs' = [recs EXCEPT ![Chal(t)][gen[t] + 1] = Fresh(cred[t], since[t])]
        BY <2>3 DEF Append1
      <3>4. ExtendStep(Chal(t), gen[t], Fresh(cred[t], since[t]))
        BY <2>1, <2>3, <3>1, <3>2, <3>3 DEF ExtendStep, CanAppend, Record
      <3>5. QED
        BY <2>1, <3>4 DEF RecsStep
    <2>4. QED
      BY <1>6, <2>2, <2>3 DEF TakeOver
  <1>7. ASSUME NEW t \in Threads, AppendNext(t)
        PROVE  RecsStep
    <2>1. CASE UNCHANGED recs
      BY <2>1 DEF RecsStep
    <2>2. CASE CanAppend(Record(t), gen[t] + 1) /\ Written(t)
      BY <1>7, <2>2, WrittenExtends DEF AppendNext, RecsStep
    <2>3. QED
      BY <1>7, <2>1, <2>2 DEF AppendNext
  <1>8. CASE UNCHANGED recs
    BY <1>8 DEF RecsStep
  <1>9. ASSUME NEW t \in Threads, NEW k \in Credentials,
               VerifyBound(t, k) \/ VerifyBoundExpired(t, k)
        PROVE  RecsStep
    BY <1>8, <1>9 DEF VerifyBound, VerifyBoundExpired, stored
  <1>10. ASSUME NEW t \in Threads,
                \/ CheckOrphan(t) \/ RecheckOrphan(t) \/ Classify(t)
                \/ RefusePayload(t) \/ SendRejected(t) \/ AwaitConfirmation(t)
                \/ VerifyPush(t) \/ Reconcile(t) \/ ReadTip(t) \/ Crash(t)
                \/ BeginClaim(t) \/ BeginUnclaim(t) \/ AbandonRelease(t)
                \/ ConsumePush(t) \/ SendAccepted(t) \/ SendLost(t) \/ Grant(t)
         PROVE  RecsStep
    <2>1. UNCHANGED recs
      BY <1>10 DEF CheckOrphan, RecheckOrphan, Classify, RefusePayload,
         SendRejected, AwaitConfirmation, VerifyPush, Reconcile, ReadTip, Crash,
         BeginClaim, BeginUnclaim, AbandonRelease, ConsumePush, SendAccepted,
         SendLost, Grant, stored
    <2>2. QED
      BY <1>8, <2>1
  <1>11. ASSUME NEW s \in Signatures, PayerSubmits(s) \/ Land(s)
         PROVE  RecsStep
    BY <1>8, <1>11 DEF PayerSubmits, Land, stored
  <1>12. CASE Tick \/ UNCHANGED vars
    BY <1>8, <1>12 DEF Tick, vars, stored
  <1>13. QED
    BY <1>2, <1>4, <1>5, <1>6, <1>7, <1>9, <1>10, <1>11, <1>12
       DEF Next, Handler, Reserve, Settle, Resolve

-----------------------------------------------------------------------------
(***************************************************************************)
(* A step of somebody else does not disturb what a handler relies on.      *)
(***************************************************************************)
SameLocals(u) ==
    /\ pc'[u] = pc[u] /\ cred'[u] = cred[u] /\ gen'[u] = gen[u]
    /\ checked'[u] = checked[u] /\ maybeSent'[u] = maybeSent[u]

LEMMA HandlerFrame ==
    ASSUME ChargeInv, RecsKept, NEW u \in Threads, SameLocals(u)
    PROVE  HandlerInv(u)'
  <1>1. LocalsOK /\ SharedOK /\ HandlerInv(u) /\ ChainInv
    BY InvTypes DEF ChargeInv
  <1>2. CASE pc[u] = "idle"
    <2>1. gen[u] = 0 /\ checked[u] = FALSE
      BY <1>1, <1>2 DEF HandlerInv, StartsAtRoot, InRange, Ops, LocalsOK
    <2>2. QED
      BY <1>2, <2>1 DEF SameLocals, HandlerInv, HoldsCredential, StartsAtRoot,
         InRange, DeletesOrphanOnly, ReservationHeld, NothingPending,
         TakeOverOpen, CheckedIsOwned, PendingHeld, Broadcasting, Withdrawing
  <1>3. CASE pc[u] # "idle"
    <2> DEFINE c == Chal(u)
               g == gen[u]
    <2>1. c \in Challenges /\ g \in Generations /\ cred[u] \in Credentials
      BY <1>1, <1>3, Subjects
    <2>2. Chal(u)' = c /\ Sig(u)' = Sig(u) /\ Record(u)' = recs'[c]
      BY DEF SameLocals, Chal, Sig, Record
    <2>3. g > 0 => recs'[c][g] = recs[c][g] /\ Present(recs[c], g)
      BY <1>1, <2>1 DEF HandlerInv, InRange, Record, RecsKept
    <2>4. ASSUME g < MaxGenerations, ~Present(recs'[c], g + 1)
          PROVE  ~Present(recs[c], g + 1)
      BY <2>1, <2>4 DEF RecsKept, Generations, Present
    <2>5. ASSUME g < MaxGenerations, ~Present(recs[c], g + 1), Present(recs[c], g)
          PROVE  recs'[c][g] = recs[c][g]
      BY <2>1, <2>3, <2>5 DEF RecsKept, Generations
    <2>6. recs'[c][g] # recs[c][g] => recs'[c][g].state \in {"absent", "reserved"}
      BY <2>1, <2>3 DEF RecsKept, Generations
    <2>7. HoldsCredential(u)' /\ StartsAtRoot(u)'
      BY <1>1 DEF SameLocals, HandlerInv, HoldsCredential, StartsAtRoot
    <2>8. InRange(u)'
      <3>1. g > 0 => Present(recs'[c], g)
        BY <2>3 DEF Present
      <3>2. QED
        BY <1>1, <2>2, <3>1 DEF SameLocals, HandlerInv, InRange
    <2>9. DeletesOrphanOnly(u)'
      <3>1. Present(recs[c], 1) => Present(recs'[c], 1)
        BY <2>1 DEF RecsKept, Generations, Present
      <3>2. QED
        BY <1>1, <2>2, <3>1 DEF SameLocals, HandlerInv, DeletesOrphanOnly, Record
    <2>10. ReservationHeld(u)'
      <3>1. SUFFICES ASSUME pc[u] \in {"recheck", "settle", "mark_pending"},
                            g < MaxGenerations, ~Present(recs'[c], g + 1)
                     PROVE  /\ recs'[c][g].state = "reserved"
                            /\ recs'[c][g].digest = cred[u]
        BY <2>2 DEF SameLocals, ReservationHeld, Open
      <3>2. ~Present(recs[c], g + 1)
        BY <2>4, <3>1
      <3>3. recs[c][g].state = "reserved" /\ recs[c][g].digest = cred[u]
        BY <1>1, <3>1, <3>2 DEF HandlerInv, ReservationHeld, Open, Record
      <3>4. QED
        BY <2>5, <3>1, <3>2, <3>3 DEF Present
    <2>11. NothingPending(u)'
      BY <1>1, <2>2, <2>6 DEF SameLocals, HandlerInv, NothingPending, Record
    <2>12. TakeOverOpen(u)'
      <3>1. SUFFICES ASSUME pc[u] = "takeover", ~Present(recs'[c], g + 1)
                     PROVE  recs'[c][g].state = "reserved"
        BY <2>2 DEF SameLocals, TakeOverOpen, Open
      <3>2. g < MaxGenerations
        BY <1>1, <3>1 DEF HandlerInv, InRange
      <3>3. ~Present(recs[c], g + 1)
        BY <2>4, <3>1, <3>2
      <3>4. recs[c][g].state = "reserved"
        BY <1>1, <3>1, <3>3 DEF HandlerInv, TakeOverOpen, Open, Record
      <3>5. QED
        BY <2>5, <3>2, <3>3, <3>4 DEF Present
    <2>13. CheckedIsOwned(u)'
      <3>1. SUFFICES ASSUME checked[u], ~Present(recs'[c], g + 1)
                     PROVE  Owned(pc[u], recs'[c][g], Sig(u))
        BY <2>2 DEF SameLocals, CheckedIsOwned, Open
      <3>2. g < MaxGenerations
        BY <1>1, <3>1 DEF HandlerInv, InRange
      <3>3. ~Present(recs[c], g + 1)
        BY <2>4, <3>1, <3>2
      <3>4. Owned(pc[u], recs[c][g], Sig(u))
        BY <1>1, <3>1, <3>3 DEF HandlerInv, CheckedIsOwned, Open, Record
      <3>5. Present(recs[c], g)
        BY <3>4 DEF Owned, Present
      <3>6. QED
        BY <2>5, <3>2, <3>3, <3>4, <3>5
    <2>14. PendingHeld(u)'
      <3>1. SUFFICES ASSUME pc[u] \in Broadcasting \cup Withdrawing \cup {"reconcile"}
                     PROVE  recs'[c][g].state = "pending" /\ recs'[c][g].sig = Sig(u)
        BY <2>2 DEF SameLocals, PendingHeld
      <3>2. recs[c][g].state = "pending" /\ recs[c][g].sig = Sig(u)
        BY <1>1, <3>1 DEF HandlerInv, PendingHeld, Record
      <3>3. g > 0
        BY <1>1, <2>1, <3>2 DEF ChainInv, RootReserves, State, Generations
      <3>4. QED
        BY <2>3, <3>2, <3>3
    <2>15. QED
      BY <2>7, <2>8, <2>9, <2>10, <2>11, <2>12, <2>13, <2>14 DEF HandlerInv
  <1>4. QED
    BY <1>2, <1>3

(***************************************************************************)
(* A handler that returns relies on nothing any more.                      *)
(***************************************************************************)
LEMMA HandlerReturn ==
    ASSUME LocalsOK, NEW t \in Threads, Return(t)
    PROVE  HandlerInv(t)'
  <1>1. pc'[t] = "idle" /\ gen'[t] = 0 /\ checked'[t] = FALSE
    BY DEF LocalsOK, Return
  <1>2. QED
    BY <1>1 DEF HandlerInv, HoldsCredential, StartsAtRoot, InRange,
       DeletesOrphanOnly, ReservationHeld, NothingPending, TakeOverOpen,
       CheckedIsOwned, PendingHeld, Broadcasting, Withdrawing

(***************************************************************************)
(* A handler that only moves on, to a place where it relies on no more     *)
(* than it already knows.                                                  *)
(***************************************************************************)
LEMMA HandlerMove ==
    ASSUME ChargeInv, NEW t \in Threads, pc[t] # "idle", UNCHANGED recs,
           NEW label \in PCs \ {"idle", "check_orphan", "append_root",
                                "recheck", "takeover"},
           pc' = [pc EXCEPT ![t] = label], cred'[t] = cred[t],
           gen'[t] = gen[t], checked'[t] = FALSE,
           label = "delete_root" => pc[t] = "recheck" /\ Present(Record(t), 1),
           label \in {"settle", "mark_pending"} => pc[t] \in {"recheck", "settle"},
           label \in {"unclaim", "consume"} => pc[t] \in {"settle", "mark_pending"},
           label \in Broadcasting \cup Withdrawing \cup {"reconcile"}
             => pc[t] \in Broadcasting \cup Withdrawing \cup {"reconcile"}
    PROVE  HandlerInv(t)'
  <1>1. LocalsOK /\ SharedOK /\ HandlerInv(t) /\ ChainInv
    BY InvTypes DEF ChargeInv
  <1>2. /\ pc'[t] = label
        /\ Chal(t)' = Chal(t) /\ Sig(t)' = Sig(t) /\ Record(t)' = Record(t)
    BY <1>1 DEF LocalsOK, Chal, Sig, Record
  <1>3. /\ cred[t] \in Credentials /\ Chal(t) \in Challenges
        /\ gen[t] \in Generations
    BY <1>1, Subjects
  <1>4. HoldsCredential(t)'
    BY <1>3 DEF HoldsCredential
  <1>5. StartsAtRoot(t)' /\ DeletesOrphanOnly(t)'
    BY <1>1, <1>2 DEF HandlerInv, StartsAtRoot, DeletesOrphanOnly
  <1>6. InRange(t)'
    BY <1>1, <1>2 DEF HandlerInv, InRange
  <1>7. ReservationHeld(t)'
    BY <1>1, <1>2 DEF HandlerInv, ReservationHeld, Open
  <1>8. NothingPending(t)'
    <2>1. pc[t] = "recheck" => Record(t)[gen[t]].state # "pending"
      BY <1>1, <1>3 DEF HandlerInv, StartsAtRoot, ChainInv, RootReserves, State,
                        Record
    <2>2. QED
      BY <1>1, <1>2, <2>1 DEF HandlerInv, NothingPending
  <1>9. TakeOverOpen(t)' /\ CheckedIsOwned(t)'
    BY <1>2 DEF TakeOverOpen, CheckedIsOwned
  <1>10. PendingHeld(t)'
    BY <1>1, <1>2 DEF HandlerInv, PendingHeld
  <1>11. QED
    BY <1>4, <1>5, <1>6, <1>7, <1>8, <1>9, <1>10 DEF HandlerInv

LEMMA HandlerContinue ==
    ASSUME ChargeInv, NEW t \in Threads, pc[t] \in Ops, RecsKept,
           NEW label \in {"unclaim", "mark_failed", "grant", "idle"},
           Continue(t, label), label = "unclaim" => pc[t] = "mark_pending"
    PROVE  HandlerInv(t)'
  <1>1. LocalsOK /\ SharedOK /\ HandlerInv(t) /\ ChainInv
    BY InvTypes DEF ChargeInv
  <1>2. CASE label = "idle"
    <2>1. Return(t)
      BY <1>2 DEF Continue
    <2>2. QED
      BY <1>1, <2>1, HandlerReturn
  <1>3. CASE label # "idle"
    <2>1. /\ pc' = [pc EXCEPT ![t] = label]
          /\ checked' = [checked EXCEPT ![t] = FALSE]
          /\ UNCHANGED <<cred, gen>>
      BY <1>3 DEF Continue, Goto
    <2>2. /\ pc'[t] = label /\ checked'[t] = FALSE
          /\ cred'[t] = cred[t] /\ gen'[t] = gen[t]
          /\ Chal(t)' = Chal(t) /\ Record(t)' = recs'[Chal(t)]
      BY <1>1, <2>1 DEF LocalsOK, Chal, Record
    <2>3. /\ cred[t] \in Credentials /\ Chal(t) \in Challenges
          /\ gen[t] \in Generations
      BY <1>1, Subjects DEF Ops
    <2>4. InRange(t)'
      BY <1>1, <2>2, <2>3 DEF HandlerInv, InRange, RecsKept, Present, Record
    <2>5. NothingPending(t)'
      <3>1. label = "unclaim" => Record(t)[gen[t]].state # "pending"
        BY <1>1 DEF HandlerInv, NothingPending
      <3>2. label = "unclaim" => recs'[Chal(t)][gen[t]].state # "pending"
        BY <1>1, <2>3, <3>1 DEF HandlerInv, InRange, RecsKept, Record, Generations
      <3>3. QED
        BY <2>2, <3>2 DEF NothingPending
    <2>6. QED
      BY <1>3, <2>2, <2>3, <2>4, <2>5 DEF HandlerInv, HoldsCredential,
         StartsAtRoot, DeletesOrphanOnly, ReservationHeld, TakeOverOpen,
         CheckedIsOwned, PendingHeld, Broadcasting, Withdrawing
  <1>4. QED
    BY <1>2, <1>3

LEMMA OthersSame ==
    ASSUME LocalsOK, NEW t \in Threads, NEW u \in Threads, u # t,
           \/ \E k \in Credentials : VerifyBound(t, k) \/ VerifyBoundExpired(t, k)
           \/ Handler(t)
           \/ Crash(t)
    PROVE  SameLocals(u)
  <1>1. ASSUME NEW k \in Credentials, VerifyBound(t, k) \/ VerifyBoundExpired(t, k)
        PROVE  SameLocals(u)
    BY <1>1 DEF VerifyBound, VerifyBoundExpired, Goto, SameLocals, LocalsOK
  <1>2. CASE Reserve(t)
    BY <1>2 DEF Reserve, CheckOrphan, AppendRoot, RecheckOrphan, DeleteRoot,
       Classify, TakeOver, Return, Goto, locals, SameLocals, LocalsOK
  <1>3. CASE Settle(t)
    <2>1. CASE Return(t)
      BY <2>1 DEF Return, SameLocals, LocalsOK
    <2>2. CASE ~Return(t)
      BY <1>3, <2>2 DEF Settle, RefusePayload, BeginClaim, BeginUnclaim,
         SendAccepted, SendRejected, SendLost, AwaitConfirmation,
         AbandonRelease, VerifyPush, ConsumePush, Claim, Release, NextAttempt,
         Goto, locals, SameLocals, LocalsOK
    <2>3. QED
      BY <2>1, <2>2
  <1>4. CASE Resolve(t)
    <2>1. CASE Return(t)
      BY <2>1 DEF Return, SameLocals, LocalsOK
    <2>2. CASE ~Return(t)
      BY <1>4, <2>2 DEF Resolve, Reconcile, ReadTip, AppendNext, Grant, Continue,
         Goto, locals, SameLocals, LocalsOK
    <2>3. QED
      BY <2>1, <2>2
  <1>5. CASE Crash(t)
    BY <1>5 DEF Crash, Return, SameLocals, LocalsOK
  <1>6. QED
    BY <1>1, <1>2, <1>3, <1>4, <1>5 DEF Handler

LEMMA HandlerOwn ==
    ASSUME ChargeInv, RecsKept, NEW t \in Threads,
           \/ \E k \in Credentials : VerifyBound(t, k) \/ VerifyBoundExpired(t, k)
           \/ Handler(t)
           \/ Crash(t)
    PROVE  HandlerInv(t)'
  <1>1. LocalsOK /\ SharedOK /\ HandlerInv(t) /\ ChainInv
    BY InvTypes DEF ChargeInv
  <1>2. 0 \in Generations /\ 1 \in Generations /\ Generations \subseteq Nat
    BY DEF Generations
  <1>3. pc[t] # "idle" =>
          /\ cred[t] \in Credentials /\ Chal(t) \in Challenges
          /\ Sig(t) \in Signatures /\ gen[t] \in Generations
    BY <1>1, Subjects
  <1>4. pc[t] \notin Ops => checked[t] = FALSE
    BY <1>1 DEF HandlerInv, InRange, LocalsOK
  <1>5. ASSUME NEW k \in Credentials, VerifyBound(t, k)
        PROVE  HandlerInv(t)'
    <2>1. /\ pc'[t] = "check_orphan" /\ cred'[t] = k /\ gen'[t] = 0
          /\ checked'[t] = FALSE
      BY <1>1, <1>4, <1>5 DEF VerifyBound, Goto, LocalsOK, HandlerInv,
                              StartsAtRoot, Ops
    <2>2. QED
      BY <2>1 DEF HandlerInv, HoldsCredential, StartsAtRoot, InRange,
         DeletesOrphanOnly, ReservationHeld, NothingPending, TakeOverOpen,
         CheckedIsOwned, PendingHeld, Broadcasting, Withdrawing
  <1>6. ASSUME NEW k \in Credentials, VerifyBoundExpired(t, k)
        PROVE  HandlerInv(t)'
    <2>1. PICK g \in Generations :
            /\ ExpiredPending(ChallengeOf[k], k, g)
            /\ gen'[t] = g /\ pc'[t] = "reconcile" /\ cred'[t] = k
            /\ checked'[t] = FALSE /\ recs' = recs
      BY <1>1, <1>4, <1>6 DEF VerifyBoundExpired, Goto, LocalsOK, stored, Ops
    <2>2. /\ recs[ChallengeOf[k]][g].state = "pending"
          /\ recs[ChallengeOf[k]][g].digest = k
      BY <2>1 DEF ExpiredPending
    <2>3. recs[ChallengeOf[k]][g].sig = SigOf[k]
      BY <1>1, <2>2 DEF ChainInv, PendingNamesSignature, State
    <2>4. Record(t)' = recs[ChallengeOf[k]] /\ Sig(t)' = SigOf[k]
      BY <2>1 DEF Record, Chal, Sig
    <2>5. QED
      BY <2>1, <2>2, <2>3, <2>4 DEF HandlerInv, HoldsCredential, StartsAtRoot,
         InRange, DeletesOrphanOnly, ReservationHeld, NothingPending, Present,
         TakeOverOpen, CheckedIsOwned, PendingHeld, Broadcasting, Withdrawing, Ops
  <1>7. CASE Return(t)
    BY <1>1, <1>7, HandlerReturn
  <1>8. CASE CheckOrphan(t) /\ ~Return(t)
    <2>1. /\ pc[t] = "check_orphan" /\ pc'[t] = "append_root"
          /\ cred'[t] = cred[t] /\ gen'[t] = 0 /\ checked'[t] = FALSE
      BY <1>1, <1>4, <1>8 DEF CheckOrphan, Goto, locals, LocalsOK, Ops,
                              HandlerInv, StartsAtRoot
    <2>2. QED
      BY <1>3, <2>1 DEF HandlerInv, HoldsCredential, StartsAtRoot, InRange,
         DeletesOrphanOnly, ReservationHeld, NothingPending, TakeOverOpen,
         CheckedIsOwned, PendingHeld, Broadcasting, Withdrawing
  <1>9. CASE AppendRoot(t)
    <2>1. /\ pc[t] = "append_root" /\ pc'[t] \in {"recheck", "classify"}
          /\ cred'[t] = cred[t] /\ gen'[t] = 0 /\ checked'[t] = FALSE
      BY <1>1, <1>4, <1>9 DEF AppendRoot, Goto, locals, LocalsOK, Ops,
                              HandlerInv, StartsAtRoot
    <2>2. Record(t)' = recs'[Chal(t)]
      BY <2>1 DEF Record, Chal
    <2>3. ASSUME pc'[t] = "recheck"
          PROVE  recs'[Chal(t)][0] = Fresh(cred[t], since[t])
      BY <1>1, <1>2, <1>3, <1>9, <2>3 DEF AppendRoot, Append1, Goto, SharedOK,
                                          LocalsOK, Chains
    <2>4. ReservationHeld(t)'
      BY <2>1, <2>2, <2>3 DEF ReservationHeld, Fresh
    <2>5. QED
      BY <1>3, <2>1, <2>4 DEF HandlerInv, HoldsCredential, StartsAtRoot, InRange,
         DeletesOrphanOnly, NothingPending, TakeOverOpen,
         CheckedIsOwned, PendingHeld, Broadcasting, Withdrawing
  <1>10. CASE Classify(t) /\ ~Return(t)
    <2>1. PICK g \in Generations :
            /\ IsTip(Record(t), g) /\ Record(t)[g].digest = cred[t]
            /\ \/ Record(t)[g].state = "pending" /\ pc'[t] = "reconcile"
               \/ Record(t)[g].state = "reserved" /\ pc'[t] = "takeover"
            /\ gen'[t] = g /\ cred'[t] = cred[t] /\ checked'[t] = FALSE
            /\ recs' = recs /\ pc[t] = "classify"
      BY <1>1, <1>4, <1>10 DEF Classify, Goto, LocalsOK, stored, Ops
    <2>2. Record(t)' = Record(t) /\ Sig(t)' = Sig(t)
      BY <2>1 DEF Record, Chal, Sig
    <2>3. Record(t)[g].state = "pending" => Record(t)[g].sig = Sig(t)
      BY <1>1, <1>3, <2>1 DEF ChainInv, PendingNamesSignature, State, Record, Sig
    <2>4. g < MaxGenerations /\ Present(Record(t), g)
      BY <1>2, <2>1 DEF IsTip, Generations
    <2>5. QED
      BY <1>3, <2>1, <2>2, <2>3, <2>4 DEF HandlerInv, HoldsCredential,
         StartsAtRoot, InRange, DeletesOrphanOnly, ReservationHeld,
         NothingPending, TakeOverOpen, CheckedIsOwned, PendingHeld,
         Broadcasting, Withdrawing
  <1>11. CASE TakeOver(t)
    <2>1. /\ pc[t] = "takeover" /\ pc'[t] \in {"settle", "classify"}
          /\ cred'[t] = cred[t] /\ checked'[t] = FALSE
      BY <1>1, <1>4, <1>11 DEF TakeOver, Goto, LocalsOK, Ops
    <2>2. Record(t)' = recs'[Chal(t)]
      BY <2>1 DEF Record, Chal
    <2>3. CASE pc'[t] = "classify"
      <3>1. gen'[t] = gen[t] /\ recs' = recs
        BY <1>1, <1>11, <2>3 DEF TakeOver, Goto, LocalsOK
      <3>2. QED
        BY <1>1, <1>3, <2>1, <2>2, <2>3, <3>1 DEF HandlerInv, HoldsCredential,
           StartsAtRoot, InRange, DeletesOrphanOnly, ReservationHeld, Record,
           NothingPending, TakeOverOpen, CheckedIsOwned, PendingHeld,
           Broadcasting, Withdrawing
    <2>4. CASE pc'[t] = "settle"
      <3>1. /\ gen[t] + 1 \in Generations /\ gen'[t] = gen[t] + 1
            /\ recs' = [recs EXCEPT ![Chal(t)] =
                          Append1(@, gen[t] + 1, Fresh(cred[t], since[t]))]
        BY <1>1, <1>11, <2>4 DEF TakeOver, Goto, LocalsOK, CanAppend
      <3>2. recs'[Chal(t)][gen[t] + 1] = Fresh(cred[t], since[t])
        BY <1>1, <1>3, <2>1, <3>1 DEF SharedOK, Chains, Append1
      <3>3. QED
        BY <1>3, <2>1, <2>2, <2>4, <3>1, <3>2 DEF HandlerInv, HoldsCredential,
           StartsAtRoot, InRange, DeletesOrphanOnly, ReservationHeld, Present,
           NothingPending, TakeOverOpen, CheckedIsOwned, PendingHeld, Fresh,
           Broadcasting, Withdrawing, Ops
    <2>5. QED
      BY <2>1, <2>3, <2>4
  <1>12. CASE RecheckOrphan(t)
    <2>1. CASE Present(Record(t), 1)
      BY <1>1, <1>4, <1>12, <2>1, HandlerMove DEF RecheckOrphan, Goto, locals,
         stored, LocalsOK, PCs, Ops, Broadcasting, Withdrawing
    <2>2. CASE ~Present(Record(t), 1)
      BY <1>1, <1>4, <1>12, <2>2, HandlerMove DEF RecheckOrphan, Goto, locals,
         stored, LocalsOK, PCs, Ops, Broadcasting, Withdrawing
    <2>3. QED
      BY <2>1, <2>2
  <1>13. CASE /\ ~Return(t)
              /\ \/ RefusePayload(t) \/ BeginClaim(t) \/ BeginUnclaim(t)
                 \/ SendAccepted(t) \/ AwaitConfirmation(t)
                 \/ AbandonRelease(t) \/ VerifyPush(t) \/ ConsumePush(t)
                 \/ Reconcile(t) \/ SendRejected(t) \/ SendLost(t)
    <2>1. /\ pc[t] # "idle" /\ UNCHANGED recs
          /\ cred'[t] = cred[t] /\ gen'[t] = gen[t] /\ checked'[t] = checked[t]
          /\ \E label \in PCs : /\ pc' = [pc EXCEPT ![t] = label]
                                /\ <<pc[t], label>> \in
                                     {<<"settle", "mark_failed">>,
                                      <<"settle", "mark_pending">>,
                                      <<"settle", "consume">>,
                                      <<"unclaim", "mark_failed">>,
                                      <<"send", "send">>,
                                      <<"send", "send_unchecked">>,
                                      <<"send", "await">>,
                                      <<"send", "abandon">>,
                                      <<"send_unchecked", "await">>,
                                      <<"await", "mark_confirmed">>,
                                      <<"await", "mark_failed">>,
                                      <<"abandon", "release_pending">>,
                                      <<"consume", "mark_confirmed">>,
                                      <<"consume", "mark_failed">>,
                                      <<"reconcile", "confirm_pending">>,
                                      <<"reconcile", "mark_failed">>}
      BY <1>1, <1>13 DEF RefusePayload, BeginClaim, BeginUnclaim, SendAccepted,
         AwaitConfirmation, AbandonRelease, VerifyPush, ConsumePush, Reconcile,
         SendRejected, SendLost, Claim, Release, NextAttempt, Goto, locals,
         stored, LocalsOK, PCs, Ops
    <2>2. checked'[t] = FALSE
      BY <1>4, <2>1 DEF Ops
    <2>3. QED
      BY <2>1, <2>2, HandlerMove DEF PCs, Ops, Broadcasting, Withdrawing
  <1>14. CASE ReadTip(t)
    <2>1. pc[t] \in Ops /\ recs' = recs
      BY <1>14 DEF ReadTip, stored
    <2>2. CASE \/ Continue(t, AfterFalse(pc[t]))
               \/ Continue(t, AfterError(pc[t], cred[t]))
      <3>1. /\ AfterFalse(pc[t]) = "unclaim" => pc[t] = "mark_pending"
            /\ AfterError(pc[t], cred[t]) # "unclaim"
        BY <2>1, Labels DEF AfterFalse, Ops
      <3>2. QED
        BY <2>1, <2>2, <3>1, Labels, HandlerContinue
    <2>3. CASE /\ \E g \in Generations :
                    /\ IsTip(Record(t), g) /\ g = gen[t]
                    /\ Owned(pc[t], Record(t)[g], Sig(t))
               /\ checked' = [checked EXCEPT ![t] = TRUE]
               /\ UNCHANGED <<pc, cred, gen, since, attempt, maybeSent>>
      <3>1. /\ checked'[t] = TRUE /\ pc'[t] = pc[t] /\ cred'[t] = cred[t]
            /\ gen'[t] = gen[t] /\ gen[t] < MaxGenerations
            /\ Owned(pc[t], Record(t)[gen[t]], Sig(t))
        BY <1>1, <2>3 DEF LocalsOK, IsTip
      <3>2. Record(t)' = Record(t) /\ Sig(t)' = Sig(t)
        BY <2>1, <3>1 DEF Record, Chal, Sig
      <3>3. QED
        BY <1>1, <2>1, <3>1, <3>2 DEF HandlerInv, HoldsCredential, StartsAtRoot,
           InRange, DeletesOrphanOnly, ReservationHeld, NothingPending, Open,
           TakeOverOpen, CheckedIsOwned, PendingHeld
    <2>4. QED
      BY <1>14, <2>2, <2>3 DEF ReadTip
  <1>15. CASE AppendNext(t)
    <2>1. pc[t] \in Ops /\ pc[t] # "idle" /\ checked[t]
      BY <1>15 DEF AppendNext, Ops
    <2>2. CASE \/ Continue(t, AfterFalse(pc[t]))
               \/ Continue(t, AfterError(pc[t], cred[t]))
      <3>1. /\ AfterFalse(pc[t]) = "unclaim" => pc[t] = "mark_pending"
            /\ AfterError(pc[t], cred[t]) # "unclaim"
        BY <2>1, Labels DEF AfterFalse, Ops
      <3>2. QED
        BY <2>1, <2>2, <3>1, Labels, HandlerContinue
    <2>3. CASE /\ CanAppend(Record(t), gen[t] + 1) /\ Written(t)
               /\ AfterTrue(pc[t]) # "idle" /\ Goto(t, AfterTrue(pc[t]))
               /\ gen' = [gen EXCEPT ![t] = @ + 1]
               /\ checked' = [checked EXCEPT ![t] = FALSE]
               /\ UNCHANGED cred
      <3> DEFINE r == Successor(pc[t], Record(t)[gen[t]], Sig(t), now)
      <3>1. /\ pc'[t] = AfterTrue(pc[t]) /\ gen'[t] = gen[t] + 1
            /\ cred'[t] = cred[t] /\ checked'[t] = FALSE
        BY <1>1, <2>3 DEF LocalsOK, Goto
      <3>2. /\ ExtendStep(Chal(t), gen[t], r) /\ r \in Records
            /\ Record(t)[gen[t]] \in Records
        <4>1. ExtendStep(Chal(t), gen[t], r) /\ r \in Records
          BY <2>1, <2>3, WrittenExtends
        <4>2. Record(t)[gen[t]] \in Records
          BY <1>1, <1>3, <2>1 DEF SharedOK, Chains, Record
        <4>3. QED
          BY <4>1, <4>2
      <3>3. /\ gen[t] + 1 \in Generations /\ gen[t] + 1 > 0
            /\ recs'[Chal(t)][gen[t] + 1] = r /\ r.state # "absent"
        <4> HIDE DEF r
        <4>1. /\ gen[t] + 1 \in Generations /\ r.state # "absent"
              /\ recs' = [recs EXCEPT ![Chal(t)][gen[t] + 1] = r]
          BY <3>2 DEF ExtendStep
        <4>2. recs'[Chal(t)][gen[t] + 1] = r
          BY <1>1, <1>3, <2>1, <4>1 DEF SharedOK, Chains
        <4>3. QED
          BY <1>2, <1>3, <2>1, <4>1, <4>2
      <3>4. Record(t)' = recs'[Chal(t)] /\ Sig(t)' = Sig(t)
        BY <3>1 DEF Record, Chal, Sig
      <3>5. AfterTrue(pc[t]) \in {"send", "grant", "mark_failed"}
        BY <2>1, <2>3, Labels
      <3>6. AfterTrue(pc[t]) = "send" => r.state = "pending" /\ r.sig = Sig(t)
        BY <2>1, <3>2 DEF AfterTrue, Successor, Terminal, Records, Ops
      <3>7. QED
        BY <1>3, <2>1, <3>1, <3>3, <3>4, <3>5, <3>6 DEF HandlerInv,
           HoldsCredential, StartsAtRoot, InRange, DeletesOrphanOnly,
           ReservationHeld, NothingPending, TakeOverOpen, CheckedIsOwned,
           PendingHeld, Broadcasting, Withdrawing, Present
    <2>4. QED
      BY <1>7, <1>15, <2>2, <2>3 DEF AppendNext
  <1>16. QED
    BY <1>5, <1>6, <1>7, <1>8, <1>9, <1>10, <1>11, <1>12, <1>13, <1>14, <1>15
       DEF Handler, Reserve, Settle, Resolve, DeleteRoot, Grant, Crash

LEMMA HandlerStep ==
    ASSUME ChargeInv, [Next]_vars
    PROVE  \A u \in Threads : HandlerInv(u)'
  <1>1. LocalsOK /\ SharedOK /\ RecsKept
    BY InvTypes, RecsSteps, KeepsRecords
  <1>2. SUFFICES ASSUME NEW u \in Threads
                 PROVE  HandlerInv(u)'
    OBVIOUS
  <1>3. CASE UNCHANGED <<pc, locals>>
    BY <1>1, <1>3, HandlerFrame DEF locals, SameLocals
  <1>4. ASSUME NEW t \in Threads,
               \/ \E k \in Credentials : VerifyBound(t, k) \/ VerifyBoundExpired(t, k)
               \/ Handler(t)
               \/ Crash(t)
        PROVE  HandlerInv(u)'
    <2>1. CASE u = t
      BY <1>1, <1>4, <2>1, HandlerOwn
    <2>2. CASE u # t
      BY <1>1, <1>4, <2>2, OthersSame, HandlerFrame
    <2>3. QED
      BY <2>1, <2>2
  <1>5. QED
    BY <1>3, <1>4 DEF Next, PayerSubmits, Land, RootExpires, Tick, vars, locals

-----------------------------------------------------------------------------
(***************************************************************************)
(* The fence.  First the steps that hand nothing over and leave the later  *)
(* generations alone.                                                      *)
(***************************************************************************)
Fenced == Broadcasting \cup Withdrawing

(***************************************************************************)
(* Nobody sent, or is about to send, what a withdrawing handler withdraws. *)
(***************************************************************************)
LEMMA WithdrawnUnsent ==
    ASSUME ChargeInv, NEW t \in Threads, pc[t] \in Withdrawing
    PROVE  /\ \A e \in sends : ~(e[1] = Chal(t) /\ e[2] = gen[t])
           /\ \A u \in Threads :
                pc[u] \in Broadcasting /\ Chal(u) = Chal(t) => gen[u] # gen[t]
  <1>1. LocalsOK /\ SharedOK /\ HandlerInv(t) /\ FenceInv
    BY InvTypes DEF ChargeInv
  <1>2. ASSUME NEW e \in sends, e[1] = Chal(t), e[2] = gen[t]
        PROVE  FALSE
    <2>1. recs[e[1]][e[2]].sig = e[3]
      BY <1>1, <1>2 DEF FenceInv, SendsSettled, Settled
    <2>2. recs[e[1]][e[2]].sig = Sig(t)
      BY <1>1, <1>2 DEF HandlerInv, PendingHeld, Record
    <2>3. e = <<e[1], e[2], e[3]>>
      BY <1>1 DEF SharedOK
    <2>4. e = SendKey(t)
      BY <1>2, <2>1, <2>2, <2>3 DEF SendKey
    <2>5. SendKey(t) \notin sends
      BY <1>1 DEF FenceInv, NotHandedOver
    <2>6. QED
      BY <2>4, <2>5
  <1>3. ASSUME NEW u \in Threads, pc[u] \in Broadcasting, Chal(u) = Chal(t),
               gen[u] = gen[t]
        PROVE  FALSE
    <2>1. u = t
      BY <1>1, <1>3 DEF FenceInv, ExclusiveBroadcast
    <2>2. QED
      BY <1>3, <2>1 DEF Broadcasting, Withdrawing
  <1>4. QED
    BY <1>2, <1>3

QuietMove(u) ==
    /\ pc'[u] \in Fenced =>
         pc[u] \in Fenced /\ cred'[u] = cred[u] /\ gen'[u] = gen[u]
    /\ pc'[u] \in Broadcasting => pc[u] \in Broadcasting
    /\ pc'[u] = "send" /\ ~maybeSent'[u] => pc[u] = "send" /\ ~maybeSent[u]
    /\ pc'[u] \in Withdrawing =>
         pc[u] \in Withdrawing \/ (pc[u] = "send" /\ ~maybeSent[u])
    /\ pc'[u] = "mark_failed" =>
         /\ cred'[u] = cred[u] /\ gen'[u] = gen[u]
         /\ \/ pc[u] \in {"settle", "mark_pending", "unclaim", "consume",
                          "release_pending", "mark_failed"}
            \/ pc[u] \in {"await", "reconcile"} /\ chain[Sig(u)] = "failed"

LEMMA FenceQuiet ==
    ASSUME ChargeInv, ChainInv', LocalsOK',
           \A c \in Challenges : \A g \in Generations :
               g > 0 => recs'[c][g] = recs[c][g],
           \A s \in Signatures : chain[s] = "failed" => chain'[s] = "failed",
           UNCHANGED sends,
           \A u \in Threads : QuietMove(u)
    PROVE  FenceInv'
  <1>1. LocalsOK /\ SharedOK /\ ChainInv /\ FenceInv
        /\ \A u \in Threads : HandlerInv(u)
    BY InvTypes DEF ChargeInv
  <1>2. \A u \in Threads :
          pc'[u] \in Fenced =>
            /\ pc[u] \in Fenced /\ Chal(u)' = Chal(u) /\ Sig(u)' = Sig(u)
            /\ gen'[u] = gen[u] /\ SendKey(u)' = SendKey(u)
            /\ (pc'[u] \in Broadcasting => pc[u] \in Broadcasting)
    BY DEF QuietMove, Chal, Sig, SendKey
  <1>3. ASSUME NEW c \in Challenges, NEW g \in Generations, NEW s \in Signatures,
               Settled(c, g, s)
        PROVE  Settled(c, g, s)'
    <2>1. g > 0 /\ g \in Nat
      BY <1>1, <1>3 DEF Settled, ChainInv, RootReserves, State, Generations
    <2>2. recs'[c][g] = recs[c][g]
      BY <2>1
    <2>3. g < MaxGenerations => recs'[c][g + 1] = recs[c][g + 1]
      BY <2>1 DEF Generations
    <2>4. QED
      BY <1>3, <2>2, <2>3 DEF Settled, State
  <1>4. ExclusiveBroadcast'
    <2>1. SUFFICES ASSUME NEW u \in Threads, NEW v \in Threads,
                          pc'[u] \in Fenced, pc'[v] \in Fenced,
                          Chal(u)' = Chal(v)', gen'[u] = gen'[v]
                   PROVE  u = v
      BY DEF ExclusiveBroadcast, Fenced
    <2>2. QED
      BY <1>1, <1>2, <2>1 DEF FenceInv, ExclusiveBroadcast, Fenced
  <1>5. NotHandedOver'
    <2>1. SUFFICES ASSUME NEW u \in Threads,
                          \/ pc'[u] = "send" /\ ~maybeSent'[u]
                          \/ pc'[u] \in Withdrawing
                   PROVE  SendKey(u)' \notin sends
      BY DEF NotHandedOver
    <2>2. SendKey(u)' = SendKey(u)
      BY <1>2, <2>1 DEF Fenced, Broadcasting
    <2>3. \/ pc[u] = "send" /\ ~maybeSent[u]
          \/ pc[u] \in Withdrawing
      BY <2>1 DEF QuietMove
    <2>4. QED
      BY <1>1, <2>2, <2>3 DEF FenceInv, NotHandedOver
  <1>6. SendsSettled'
    <2>1. SUFFICES ASSUME NEW e \in sends
                   PROVE  Settled(e[1], e[2], e[3])'
      BY DEF SendsSettled
    <2>2. e[1] \in Challenges /\ e[2] \in Generations /\ e[3] \in Signatures
      BY <1>1 DEF SharedOK
    <2>3. Settled(e[1], e[2], e[3])
      BY <1>1 DEF FenceInv, SendsSettled
    <2>4. QED
      BY <1>3, <2>2, <2>3
  <1>7. SendersSettled'
    <2>1. SUFFICES ASSUME NEW u \in Threads, pc'[u] \in Broadcasting
                   PROVE  Settled(Chal(u), gen[u], Sig(u))'
      BY DEF SendersSettled
    <2>2. /\ pc[u] \in Broadcasting /\ Chal(u)' = Chal(u) /\ Sig(u)' = Sig(u)
          /\ gen'[u] = gen[u]
      BY <1>2, <2>1 DEF Fenced
    <2>3. Chal(u) \in Challenges /\ gen[u] \in Generations /\ Sig(u) \in Signatures
      BY <1>1, <2>2, Subjects DEF Broadcasting
    <2>4. Settled(Chal(u), gen[u], Sig(u))
      BY <1>1, <2>2 DEF FenceInv, SendersSettled
    <2>5. Settled(Chal(u), gen[u], Sig(u))' <=>
            /\ State(Chal(u), gen[u])' = "pending"
            /\ recs'[Chal(u)][gen[u]].sig = Sig(u)
            /\ gen[u] < MaxGenerations =>
                 /\ State(Chal(u), gen[u] + 1)' \in {"absent", "confirmed", "failed"}
                 /\ State(Chal(u), gen[u] + 1)' = "failed" => chain'[Sig(u)] = "failed"
      BY <2>2 DEF Settled, State
    <2>6. gen[u] > 0 /\ gen[u] \in Nat
      BY <1>1, <2>3, <2>4 DEF Settled, ChainInv, RootReserves, State, Generations
    <2>7. /\ recs'[Chal(u)][gen[u]] = recs[Chal(u)][gen[u]]
          /\ gen[u] < MaxGenerations =>
               recs'[Chal(u)][gen[u] + 1] = recs[Chal(u)][gen[u] + 1]
      BY <2>3, <2>6 DEF Generations
    <2>8. QED
      BY <2>2, <2>3, <2>4, <2>5, <2>7 DEF Settled, State
  <1>8. FailureJustified'
    <2>1. SUFFICES ASSUME NEW u \in Threads, pc'[u] = "mark_failed",
                          Record(u)'[gen'[u]].state = "pending"
                   PROVE  \/ chain'[Sig(u)'] = "failed"
                             /\ Record(u)'[gen'[u]].sig = Sig(u)'
                          \/ /\ \A e \in sends : ~(e[1] = Chal(u)' /\ e[2] = gen'[u])
                             /\ \A v \in Threads :
                                  pc'[v] \in Broadcasting /\ Chal(v)' = Chal(u)'
                                    => gen'[v] # gen'[u]
      BY DEF FailureJustified
    <2>2. /\ cred'[u] = cred[u] /\ gen'[u] = gen[u] /\ Chal(u)' = Chal(u)
          /\ Sig(u)' = Sig(u) /\ Record(u)' = recs'[Chal(u)]
      BY <2>1 DEF QuietMove, Chal, Sig, Record
    <2>3. cred[u] \in Credentials
      BY <2>1, <2>2 DEF LocalsOK, HoldsCredential
    <2>4. Chal(u) \in Challenges /\ Sig(u) \in Signatures /\ gen[u] \in Generations
      BY <1>1, <2>3 DEF Chal, Sig, LocalsOK
    <2>5. gen[u] > 0
      BY <2>1, <2>2, <2>4 DEF ChainInv, RootReserves, State, Generations
    <2>6. Record(u)[gen[u]] = Record(u)'[gen'[u]]
      BY <2>2, <2>4, <2>5 DEF Record
    <2>7. SUFFICES \/ chain[Sig(u)] = "failed" /\ Record(u)[gen[u]].sig = Sig(u)
                   \/ /\ \A e \in sends : ~(e[1] = Chal(u) /\ e[2] = gen[u])
                      /\ \A v \in Threads :
                           pc[v] \in Broadcasting /\ Chal(v) = Chal(u)
                             => gen[v] # gen[u]
      <3>1. ASSUME NEW v \in Threads, pc'[v] \in Broadcasting
            PROVE  pc[v] \in Broadcasting /\ Chal(v)' = Chal(v) /\ gen'[v] = gen[v]
        BY <1>2, <3>1 DEF Fenced
      <3>2. QED
        BY <2>2, <2>4, <2>6, <3>1
    <2>8. CASE pc[u] = "mark_failed"
      BY <1>1, <2>1, <2>6, <2>8 DEF FenceInv, FailureJustified
    <2>9. CASE pc[u] \in {"settle", "mark_pending", "unclaim", "consume"}
      BY <1>1, <2>1, <2>6, <2>9 DEF HandlerInv, NothingPending
    <2>10. CASE pc[u] = "release_pending"
      BY <2>10, WithdrawnUnsent DEF Withdrawing
    <2>11. CASE pc[u] \in {"await", "reconcile"} /\ chain[Sig(u)] = "failed"
      BY <1>1, <2>11 DEF HandlerInv, PendingHeld, Broadcasting
    <2>12. QED
      BY <2>1, <2>8, <2>9, <2>10, <2>11 DEF QuietMove
  <1>9. QED
    BY <1>4, <1>5, <1>6, <1>7, <1>8 DEF FenceInv

(***************************************************************************)
(* Then the steps that write a generation.  Settled after the step, for a  *)
(* key named before it.                                                    *)
(***************************************************************************)
SettledAfter(d, h, s) ==
    /\ recs'[d][h].state = "pending" /\ recs'[d][h].sig = s
    /\ h < MaxGenerations =>
         /\ recs'[d][h + 1].state \in {"absent", "confirmed", "failed"}
         /\ recs'[d][h + 1].state = "failed" => chain'[s] = "failed"

LEMMA SettledKept ==
    ASSUME SharedOK, UNCHANGED chain, NEW c \in Challenges, NEW g \in Generations,
           NEW r, ExtendStep(c, g, r),
           NEW d \in Challenges, NEW h \in Generations, NEW s, Settled(d, h, s),
           d = c /\ h = g => /\ r.state \in {"confirmed", "failed"}
                             /\ r.state = "failed" => chain[s] = "failed"
    PROVE  SettledAfter(d, h, s)
  <1>1. /\ g \in Nat /\ h \in Nat /\ g + 1 \in Generations
        /\ h < MaxGenerations => h + 1 \in Generations
    BY DEF Generations, ExtendStep
  <1>2. \A x \in Challenges : \A y \in Generations :
          recs'[x][y] = IF x = c /\ y = g + 1 THEN r ELSE recs[x][y]
    BY <1>1 DEF ExtendStep, SharedOK, Chains
  <1>3. ~(d = c /\ h = g + 1)
    BY DEF ExtendStep, Settled, State, Present
  <1>4. recs'[d][h] = recs[d][h]
    BY <1>2, <1>3
  <1>5. CASE d = c /\ h = g
    BY <1>1, <1>2, <1>4, <1>5 DEF Settled, State, SettledAfter
  <1>6. CASE ~(d = c /\ h = g)
    <2>1. h < MaxGenerations => recs'[d][h + 1] = recs[d][h + 1]
      BY <1>1, <1>2, <1>6
    <2>2. QED
      BY <1>4, <2>1 DEF Settled, State, SettledAfter
  <1>7. QED
    BY <1>5, <1>6

(***************************************************************************)
(* Some handler was or may still be handing generation g of c to a node.   *)
(***************************************************************************)
Exposed(c, g) ==
    \/ \E e \in sends : e[1] = c /\ e[2] = g
    \/ \E u \in Threads : pc[u] \in Broadcasting /\ Chal(u) = c /\ gen[u] = g

LEMMA FenceExtend ==
    ASSUME ChargeInv, NEW t \in Threads, pc[t] # "idle", LocalsOK', NEW r,
           ExtendStep(Chal(t), gen[t], r), UNCHANGED <<chain, sends>>,
           \A u \in Threads : u # t => SameLocals(u),
           Exposed(Chal(t), gen[t]) =>
               /\ r.state \in {"confirmed", "failed"}
               /\ r.state = "failed" => chain[recs[Chal(t)][gen[t]].sig] = "failed",
           pc'[t] \in Fenced =>
               /\ pc'[t] = "send" /\ cred'[t] = cred[t] /\ gen'[t] = gen[t] + 1
               /\ r.state = "pending" /\ r.sig = Sig(t),
           pc'[t] = "mark_failed" =>
               /\ cred'[t] = cred[t]
               /\ \/ gen'[t] = gen[t] + 1 /\ r.state # "pending"
                  \/ gen'[t] = gen[t] /\ Record(t)[gen[t]].state # "pending"
                  \/ gen'[t] = gen[t] /\ ~Exposed(Chal(t), gen[t])
    PROVE  FenceInv'
  <1> DEFINE c == Chal(t)
             g == gen[t]
  <1>1. LocalsOK /\ SharedOK /\ ChainInv /\ FenceInv
        /\ \A u \in Threads : HandlerInv(u)
    BY InvTypes DEF ChargeInv
  <1>2. /\ c \in Challenges /\ g \in Generations /\ Sig(t) \in Signatures
        /\ g \in Nat /\ g + 1 \in Generations /\ g + 1 > 0
        /\ ~Present(recs[c], g + 1)
    BY <1>1, Subjects DEF ExtendStep, Generations
  <1>3. \A x \in Challenges : \A y \in Generations :
          recs'[x][y] = IF x = c /\ y = g + 1 THEN r ELSE recs[x][y]
    BY <1>1, <1>2 DEF ExtendStep, SharedOK, Chains
  <1>4. \A u \in Threads : u # t =>
          /\ pc'[u] = pc[u] /\ gen'[u] = gen[u] /\ Chal(u)' = Chal(u)
          /\ Sig(u)' = Sig(u) /\ SendKey(u)' = SendKey(u)
          /\ maybeSent'[u] = maybeSent[u]
    BY DEF SameLocals, Chal, Sig, SendKey
  <1>5. pc'[t] \in Fenced =>
          /\ pc'[t] = "send" /\ Chal(t)' = c /\ Sig(t)' = Sig(t)
          /\ gen'[t] = g + 1 /\ SendKey(t)' = <<c, g + 1, Sig(t)>>
    BY DEF Chal, Sig, SendKey
  <1>6. \A u \in Threads : pc[u] # "idle" =>
          /\ Chal(u) \in Challenges /\ gen[u] \in Generations
          /\ (gen[u] > 0 => Present(recs[Chal(u)], gen[u]))
    BY <1>1, Subjects DEF HandlerInv, InRange, Record
  <1>7. \A u \in Threads : pc[u] # "idle" => ~(Chal(u) = c /\ gen[u] = g + 1)
    BY <1>2, <1>6
  <1>8. \A e \in sends : /\ e[1] \in Challenges /\ e[2] \in Generations
                         /\ e[3] \in Signatures /\ Settled(e[1], e[2], e[3])
    BY <1>1 DEF SharedOK, FenceInv, SendsSettled
  <1> HIDE DEF c, g
  <1>9. ExclusiveBroadcast'
    <2>1. SUFFICES ASSUME NEW u \in Threads, NEW v \in Threads,
                          pc'[u] \in Fenced, pc'[v] \in Fenced,
                          Chal(u)' = Chal(v)', gen'[u] = gen'[v]
                   PROVE  u = v
      BY DEF ExclusiveBroadcast, Fenced
    <2>2. CASE u # t /\ v # t
      BY <1>1, <1>4, <2>1, <2>2 DEF FenceInv, ExclusiveBroadcast, Fenced
    <2>3. CASE u = t /\ v # t
      BY <1>4, <1>5, <1>7, <2>1, <2>3 DEF Fenced, Broadcasting, Withdrawing
    <2>4. CASE u # t /\ v = t
      BY <1>4, <1>5, <1>7, <2>1, <2>4 DEF Fenced, Broadcasting, Withdrawing
    <2>5. QED
      BY <2>2, <2>3, <2>4
  <1>10. NotHandedOver'
    <2>1. SUFFICES ASSUME NEW u \in Threads,
                          \/ pc'[u] = "send" /\ ~maybeSent'[u]
                          \/ pc'[u] \in Withdrawing
                   PROVE  SendKey(u)' \notin sends
      BY DEF NotHandedOver
    <2>2. CASE u # t
      BY <1>1, <1>4, <2>1, <2>2 DEF FenceInv, NotHandedOver
    <2>3. CASE u = t
      <3>1. SendKey(u)' = <<c, g + 1, Sig(t)>>
        BY <1>5, <2>1, <2>3 DEF Fenced, Broadcasting
      <3>2. ASSUME <<c, g + 1, Sig(t)>> \in sends
            PROVE  FALSE
        <4>1. Settled(c, g + 1, Sig(t))
          BY <1>8, <3>2
        <4>2. QED
          BY <1>2, <4>1 DEF Settled, State, Present
      <3>3. QED
        BY <3>1, <3>2
    <2>4. QED
      BY <2>2, <2>3
  <1>11. SendsSettled'
    <2>1. SUFFICES ASSUME NEW e \in sends
                   PROVE  Settled(e[1], e[2], e[3])'
      BY DEF SendsSettled
    <2>2. e[1] = c /\ e[2] = g =>
            /\ r.state \in {"confirmed", "failed"}
            /\ r.state = "failed" => chain[e[3]] = "failed"
      BY <1>8 DEF Exposed, Settled, c, g
    <2>3. SettledAfter(e[1], e[2], e[3])
      BY <1>1, <1>2, <1>8, <2>2, SettledKept DEF c, g
    <2>4. QED
      BY <2>3 DEF Settled, SettledAfter, State
  <1>12. SendersSettled'
    <2>1. SUFFICES ASSUME NEW u \in Threads, pc'[u] \in Broadcasting
                   PROVE  Settled(Chal(u), gen[u], Sig(u))'
      BY DEF SendersSettled
    <2>2. CASE u # t
      <3>1. /\ pc[u] \in Broadcasting /\ pc[u] # "idle"
            /\ Settled(Chal(u), gen[u], Sig(u))
        BY <1>1, <1>4, <2>1, <2>2 DEF FenceInv, SendersSettled, Broadcasting
      <3>2. Chal(u) = c /\ gen[u] = g =>
              /\ r.state \in {"confirmed", "failed"}
              /\ r.state = "failed" => chain[Sig(u)] = "failed"
        BY <3>1 DEF Exposed, Settled, c, g
      <3>3. SettledAfter(Chal(u), gen[u], Sig(u))
        BY <1>1, <1>2, <1>6, <3>1, <3>2, SettledKept DEF c, g
      <3>4. QED
        BY <1>4, <2>2, <3>3 DEF Settled, SettledAfter, State
    <2>3. CASE u = t
      <3>1. /\ pc'[t] \in Fenced /\ Chal(t)' = c /\ Sig(t)' = Sig(t)
            /\ gen'[t] = g + 1 /\ r.state = "pending" /\ r.sig = Sig(t)
        BY <1>5, <2>1, <2>3 DEF Fenced
      <3>2. recs'[c][g + 1] = r
        BY <1>2, <1>3
      <3>3. ASSUME g + 1 < MaxGenerations
            PROVE  recs'[c][g + 2].state = "absent"
        <4>1. g + 2 \in Generations /\ g + 2 # g + 1 /\ 1 <= g + 1 /\ g + 1 <= g + 2
          BY <1>2, <3>3 DEF Generations
        <4>2. recs[c][g + 2].state = "absent"
          BY <1>1, <1>2, <4>1 DEF ChainInv, NoGaps, Present
        <4>3. QED
          BY <1>2, <1>3, <4>1, <4>2
      <3>4. SettledAfter(c, g + 1, Sig(t))
        BY <1>2, <3>1, <3>2, <3>3 DEF SettledAfter
      <3>5. QED
        BY <2>3, <3>1, <3>4 DEF Settled, SettledAfter, State
    <2>4. QED
      BY <2>2, <2>3
  <1>13. FailureJustified'
    <2>1. SUFFICES ASSUME NEW u \in Threads, pc'[u] = "mark_failed",
                          Record(u)'[gen'[u]].state = "pending"
                   PROVE  \/ chain[Sig(u)'] = "failed"
                             /\ Record(u)'[gen'[u]].sig = Sig(u)'
                          \/ /\ \A e \in sends : ~(e[1] = Chal(u)' /\ e[2] = gen'[u])
                             /\ \A v \in Threads :
                                  pc'[v] \in Broadcasting /\ Chal(v)' = Chal(u)'
                                    => gen'[v] # gen'[u]
      BY DEF FailureJustified
    <2>2. CASE u # t
      <3>1. /\ pc[u] = "mark_failed" /\ pc[u] # "idle" /\ Chal(u)' = Chal(u)
            /\ Sig(u)' = Sig(u) /\ gen'[u] = gen[u]
        BY <1>4, <2>1, <2>2
      <3>2. Record(u)'[gen'[u]] = Record(u)[gen[u]]
        BY <1>3, <1>6, <1>7, <3>1 DEF Record
      <3>3. \/ chain[Sig(u)] = "failed" /\ Record(u)[gen[u]].sig = Sig(u)
            \/ /\ \A e \in sends : ~(e[1] = Chal(u) /\ e[2] = gen[u])
               /\ \A v \in Threads :
                    pc[v] \in Broadcasting /\ Chal(v) = Chal(u) => gen[v] # gen[u]
        BY <1>1, <2>1, <3>1, <3>2 DEF FenceInv, FailureJustified
      <3>4. ASSUME NEW v \in Threads, pc'[v] \in Broadcasting,
                   Chal(v)' = Chal(u), gen'[v] = gen[u]
            PROVE  pc[v] \in Broadcasting /\ Chal(v) = Chal(u) /\ gen[v] = gen[u]
        BY <1>4, <1>5, <1>7, <3>1, <3>4 DEF Fenced
      <3>5. QED
        BY <3>1, <3>2, <3>3, <3>4
    <2>3. CASE u = t
      <3>1. /\ Chal(t)' = c /\ Record(t)' = recs'[c]
            /\ \/ gen'[t] = g + 1 /\ r.state # "pending"
               \/ gen'[t] = g /\ recs[c][g].state # "pending"
               \/ gen'[t] = g /\ ~Exposed(c, g)
        BY <2>1, <2>3 DEF Chal, Record, c, g
      <3>2. recs'[c][g + 1] = r /\ recs'[c][g] = recs[c][g]
        BY <1>2, <1>3
      <3>3. gen'[t] = g /\ ~Exposed(c, g)
        BY <2>1, <2>3, <3>1, <3>2
      <3>4. ASSUME NEW v \in Threads, pc'[v] \in Broadcasting, Chal(v)' = c
            PROVE  gen'[v] # g
        BY <1>2, <1>4, <1>5, <3>3, <3>4 DEF Exposed, Fenced
      <3>5. QED
        BY <2>3, <3>1, <3>3, <3>4 DEF Exposed
    <2>4. QED
      BY <2>2, <2>3
  <1>14. QED
    BY <1>9, <1>10, <1>11, <1>12, <1>13 DEF FenceInv

(***************************************************************************)
(* The steps that hand a transaction to a node.                            *)
(***************************************************************************)
LEMMA FenceSend ==
    ASSUME ChargeInv, NEW t \in Threads, SendAccepted(t) \/ SendLost(t)
    PROVE  FenceInv'
  <1>1. LocalsOK /\ SharedOK /\ FenceInv
    BY InvTypes DEF ChargeInv
  <1>2. \A u \in Threads : u # t =>
          /\ pc'[u] = pc[u] /\ gen'[u] = gen[u] /\ Chal(u)' = Chal(u)
          /\ Sig(u)' = Sig(u) /\ SendKey(u)' = SendKey(u)
          /\ maybeSent'[u] = maybeSent[u]
    BY <1>1, OthersSame DEF Handler, Settle, SameLocals, Chal, Sig, SendKey
  <1>3. /\ UNCHANGED <<recs, chain>>
        /\ sends' \in {sends, sends \cup {SendKey(t)}}
        /\ pc[t] \in Broadcasting
        /\ pc'[t] \in {"await", "send", "idle"}
        /\ pc'[t] = "send" => maybeSent'[t]
        /\ pc'[t] # "idle" => cred'[t] = cred[t] /\ gen'[t] = gen[t]
    <2>1. CASE SendAccepted(t)
      BY <1>1, <2>1 DEF SendAccepted, HandedOver, Goto, locals, stored, LocalsOK,
         Broadcasting, SendKey
    <2>2. CASE SendLost(t)
      <3>1. /\ UNCHANGED <<recs, chain>> /\ pc[t] \in Broadcasting
            /\ sends' \in {sends, sends \cup {SendKey(t)}}
        BY <2>2 DEF SendLost, HandedOver, stored, Broadcasting, SendKey
      <3>2. CASE Return(t)
        BY <1>1, <3>1, <3>2 DEF Return, LocalsOK
      <3>3. CASE ~Return(t)
        BY <1>1, <2>2, <3>1, <3>3 DEF SendLost, NextAttempt, LocalsOK
      <3>4. QED
        BY <3>2, <3>3
    <2>3. QED
      BY <2>1, <2>2
  <1>4. pc'[t] # "idle" => /\ Chal(t)' = Chal(t) /\ Sig(t)' = Sig(t)
                           /\ gen'[t] = gen[t]
    BY <1>3 DEF Chal, Sig
  <1>5. \A u \in Threads : pc'[u] \in Fenced =>
          /\ pc[u] \in Fenced /\ Chal(u)' = Chal(u) /\ Sig(u)' = Sig(u)
          /\ gen'[u] = gen[u] /\ (pc'[u] \in Broadcasting => pc[u] \in Broadcasting)
    BY <1>2, <1>3, <1>4 DEF Fenced, Broadcasting, Withdrawing
  <1>6. Settled(Chal(t), gen[t], Sig(t))
    BY <1>1, <1>3 DEF FenceInv, SendersSettled
  <1>7. ExclusiveBroadcast'
    <2>1. SUFFICES ASSUME NEW u \in Threads, NEW v \in Threads,
                          pc'[u] \in Fenced, pc'[v] \in Fenced,
                          Chal(u)' = Chal(v)', gen'[u] = gen'[v]
                   PROVE  u = v
      BY DEF ExclusiveBroadcast, Fenced
    <2>2. QED
      BY <1>1, <1>5, <2>1 DEF FenceInv, ExclusiveBroadcast, Fenced
  <1>8. NotHandedOver'
    <2>1. SUFFICES ASSUME NEW u \in Threads,
                          \/ pc'[u] = "send" /\ ~maybeSent'[u]
                          \/ pc'[u] \in Withdrawing
                   PROVE  SendKey(u)' \notin sends'
      BY DEF NotHandedOver
    <2>2. u # t
      BY <1>3, <2>1 DEF Withdrawing
    <2>3. /\ SendKey(u)' = SendKey(u) /\ SendKey(u) \notin sends
          /\ pc[u] \in Fenced
      BY <1>1, <1>2, <2>1, <2>2 DEF FenceInv, NotHandedOver, Fenced, Broadcasting
    <2>4. ~(Chal(u) = Chal(t) /\ gen[u] = gen[t])
      BY <1>1, <1>3, <2>2, <2>3 DEF FenceInv, ExclusiveBroadcast, Fenced
    <2>5. SendKey(u) # SendKey(t)
      BY <2>4 DEF SendKey
    <2>6. QED
      BY <1>3, <2>3, <2>5
  <1>9. SendsSettled'
    <2>1. SUFFICES ASSUME NEW e \in sends'
                   PROVE  Settled(e[1], e[2], e[3])'
      BY DEF SendsSettled
    <2>2. Settled(e[1], e[2], e[3])
      BY <1>1, <1>3, <1>6 DEF FenceInv, SendsSettled, SendKey
    <2>3. QED
      BY <1>3, <2>2 DEF Settled, State
  <1>10. SendersSettled'
    <2>1. SUFFICES ASSUME NEW u \in Threads, pc'[u] \in Broadcasting
                   PROVE  Settled(Chal(u), gen[u], Sig(u))'
      BY DEF SendersSettled
    <2>2. /\ pc[u] \in Broadcasting /\ Chal(u)' = Chal(u)
          /\ Sig(u)' = Sig(u) /\ gen'[u] = gen[u]
      BY <1>5, <2>1 DEF Fenced
    <2>3. Settled(Chal(u), gen[u], Sig(u))
      BY <1>1, <2>2 DEF FenceInv, SendersSettled
    <2>4. QED
      BY <1>3, <2>2, <2>3 DEF Settled, State
  <1>11. FailureJustified'
    <2>1. SUFFICES ASSUME NEW u \in Threads, pc'[u] = "mark_failed",
                          Record(u)'[gen'[u]].state = "pending"
                   PROVE  \/ chain'[Sig(u)'] = "failed"
                             /\ Record(u)'[gen'[u]].sig = Sig(u)'
                          \/ /\ \A e \in sends' : ~(e[1] = Chal(u)' /\ e[2] = gen'[u])
                             /\ \A v \in Threads :
                                  pc'[v] \in Broadcasting /\ Chal(v)' = Chal(u)'
                                    => gen'[v] # gen'[u]
      BY DEF FailureJustified
    <2>2. u # t
      BY <1>3, <2>1
    <2>3. /\ pc[u] = "mark_failed" /\ Chal(u)' = Chal(u) /\ Sig(u)' = Sig(u)
          /\ gen'[u] = gen[u] /\ Record(u)' = Record(u)
      BY <1>2, <1>3, <2>1, <2>2 DEF Record
    <2>4. \/ chain[Sig(u)] = "failed" /\ Record(u)[gen[u]].sig = Sig(u)
          \/ /\ \A e \in sends : ~(e[1] = Chal(u) /\ e[2] = gen[u])
             /\ \A v \in Threads :
                  pc[v] \in Broadcasting /\ Chal(v) = Chal(u) => gen[v] # gen[u]
      BY <1>1, <2>1, <2>3 DEF FenceInv, FailureJustified
    <2>5. CASE chain[Sig(u)] = "failed" /\ Record(u)[gen[u]].sig = Sig(u)
      BY <1>3, <2>3, <2>5
    <2>6. CASE /\ \A e \in sends : ~(e[1] = Chal(u) /\ e[2] = gen[u])
               /\ \A v \in Threads :
                    pc[v] \in Broadcasting /\ Chal(v) = Chal(u) => gen[v] # gen[u]
      <3>1. \A e \in sends' : ~(e[1] = Chal(u) /\ e[2] = gen[u])
        BY <1>3, <2>6 DEF SendKey
      <3>2. \A v \in Threads : pc'[v] \in Broadcasting /\ Chal(v)' = Chal(u)
              => gen'[v] # gen[u]
        BY <1>5, <2>6 DEF Fenced
      <3>3. QED
        BY <2>3, <3>1, <3>2
    <2>7. QED
      BY <2>4, <2>5, <2>6
  <1>12. QED
    BY <1>7, <1>8, <1>9, <1>10, <1>11 DEF FenceInv

(***************************************************************************)
(* What each handler step is to the fence: quiet, a send, or a write.      *)
(***************************************************************************)
QuietStep(t) ==
    \/ \E k \in Credentials : VerifyBound(t, k) \/ VerifyBoundExpired(t, k)
    \/ CheckOrphan(t) \/ AppendRoot(t) \/ RecheckOrphan(t) \/ DeleteRoot(t)
    \/ Classify(t) \/ RefusePayload(t) \/ BeginClaim(t) \/ BeginUnclaim(t)
    \/ SendRejected(t) \/ AwaitConfirmation(t) \/ AbandonRelease(t)
    \/ VerifyPush(t) \/ ConsumePush(t) \/ Reconcile(t) \/ ReadTip(t)
    \/ Grant(t) \/ Crash(t)
    \/ (TakeOver(t) \/ AppendNext(t)) /\ UNCHANGED recs

LEMMA ContinueQuiet ==
    ASSUME LocalsOK, NEW t \in Threads, pc[t] \in Ops,
           \/ Continue(t, AfterFalse(pc[t]))
           \/ Continue(t, AfterError(pc[t], cred[t]))
    PROVE  QuietMove(t)
  <1>1. PICK label \in {"unclaim", "mark_failed", "grant", "idle"} :
          /\ Continue(t, label)
          /\ label = "mark_failed" =>
               pc[t] \in {"mark_pending", "release_pending"}
    BY DEF AfterFalse, AfterError, Ops
  <1>2. CASE label = "idle"
    <2>1. pc'[t] = "idle"
      BY <1>1, <1>2 DEF Continue, Return, LocalsOK
    <2>2. QED
      BY <2>1 DEF QuietMove, Fenced, Broadcasting, Withdrawing
  <1>3. CASE label # "idle"
    <2>1. pc'[t] = label /\ cred'[t] = cred[t] /\ gen'[t] = gen[t]
      BY <1>1, <1>3 DEF Continue, Goto, LocalsOK
    <2>2. QED
      BY <1>1, <2>1 DEF QuietMove, Fenced, Broadcasting, Withdrawing
  <1>4. QED
    BY <1>2, <1>3

LEMMA QuietSelf ==
    ASSUME ChargeInv, NEW t \in Threads, QuietStep(t)
    PROVE  QuietMove(t)
  <1>1. LocalsOK /\ SharedOK
    BY InvTypes
  <1>2. CASE Return(t)
    <2>1. pc'[t] = "idle"
      BY <1>1, <1>2 DEF Return, LocalsOK
    <2>2. QED
      BY <2>1 DEF QuietMove, Fenced, Broadcasting, Withdrawing
  <1>3. CASE \/ \E k \in Credentials : VerifyBound(t, k) \/ VerifyBoundExpired(t, k)
             \/ ~Return(t) /\ (CheckOrphan(t) \/ Classify(t))
             \/ AppendRoot(t) \/ RecheckOrphan(t) \/ TakeOver(t)
    <2>1. pc'[t] \in {"check_orphan", "reconcile", "append_root", "takeover",
                      "recheck", "classify", "delete_root", "settle"}
      BY <1>1, <1>3 DEF VerifyBound, VerifyBoundExpired, CheckOrphan, Classify,
         AppendRoot, RecheckOrphan, TakeOver, Goto, LocalsOK
    <2>2. QED
      BY <2>1 DEF QuietMove, Fenced, Broadcasting, Withdrawing
  <1>4. CASE \/ RefusePayload(t) \/ BeginClaim(t) \/ BeginUnclaim(t)
             \/ VerifyPush(t) \/ ConsumePush(t) \/ AbandonRelease(t)
    <2>1. /\ cred'[t] = cred[t] /\ gen'[t] = gen[t]
          /\ \/ /\ pc[t] \in {"settle", "unclaim", "consume"}
                /\ pc'[t] \in {"mark_failed", "mark_pending", "mark_confirmed",
                               "consume"}
             \/ pc[t] = "abandon" /\ pc'[t] = "release_pending"
      BY <1>1, <1>4 DEF RefusePayload, BeginClaim, BeginUnclaim, VerifyPush,
         ConsumePush, AbandonRelease, Claim, Release, Goto, locals, LocalsOK
    <2>2. QED
      BY <2>1 DEF QuietMove, Fenced, Broadcasting, Withdrawing
  <1>5. CASE ~Return(t) /\ SendRejected(t)
    <2>1. /\ pc[t] = "send" /\ cred'[t] = cred[t] /\ gen'[t] = gen[t]
          /\ maybeSent'[t] = maybeSent[t]
          /\ \/ pc'[t] \in {"send", "send_unchecked"}
             \/ pc'[t] = "abandon" /\ ~maybeSent[t]
      BY <1>1, <1>5 DEF SendRejected, NextAttempt, Goto, locals, LocalsOK
    <2>2. QED
      BY <2>1 DEF QuietMove, Fenced, Broadcasting, Withdrawing
  <1>6. CASE ~Return(t) /\ (AwaitConfirmation(t) \/ Reconcile(t))
    <2>1. /\ pc[t] \in {"await", "reconcile"}
          /\ cred'[t] = cred[t] /\ gen'[t] = gen[t]
          /\ \/ pc'[t] \in {"mark_confirmed", "confirm_pending"}
             \/ pc'[t] = "mark_failed" /\ chain[Sig(t)] = "failed"
      BY <1>1, <1>6 DEF AwaitConfirmation, Reconcile, Goto, locals, LocalsOK
    <2>2. QED
      BY <2>1 DEF QuietMove, Fenced, Broadcasting, Withdrawing
  <1>7. CASE ReadTip(t)
    <2>1. CASE /\ checked' = [checked EXCEPT ![t] = TRUE]
               /\ UNCHANGED <<pc, cred, gen, since, attempt, maybeSent>>
      <3>1. /\ pc'[t] = pc[t] /\ cred'[t] = cred[t] /\ gen'[t] = gen[t]
            /\ maybeSent'[t] = maybeSent[t]
        BY <2>1
      <3>2. QED
        BY <3>1 DEF QuietMove, Fenced, Broadcasting, Withdrawing
    <2>2. CASE \/ Continue(t, AfterFalse(pc[t]))
               \/ Continue(t, AfterError(pc[t], cred[t]))
      BY <1>1, <1>7, <2>2, ContinueQuiet DEF ReadTip
    <2>3. QED
      BY <1>7, <2>1, <2>2 DEF ReadTip
  <1>8. CASE AppendNext(t) /\ UNCHANGED recs
    <2>1. pc[t] \in Ops
      BY <1>8 DEF AppendNext
    <2>2. ASSUME CanAppend(Record(t), gen[t] + 1), Written(t), checked[t]
          PROVE  FALSE
      <3>1. /\ Chal(t) \in Challenges /\ gen[t] + 1 \in Generations
            /\ \E r \in Records : ExtendStep(Chal(t), gen[t], r)
        BY <2>1, <2>2, WrittenExtends DEF ExtendStep
      <3>2. PICK r \in Records : ExtendStep(Chal(t), gen[t], r)
        BY <3>1
      <3>3. recs'[Chal(t)][gen[t] + 1] = r /\ r.state # "absent"
        BY <1>1, <3>1, <3>2 DEF ExtendStep, SharedOK, Chains
      <3>4. QED
        BY <1>8, <3>2, <3>3 DEF ExtendStep, Present
    <2>3. \/ Continue(t, AfterFalse(pc[t]))
          \/ Continue(t, AfterError(pc[t], cred[t]))
      BY <1>8, <2>2 DEF AppendNext
    <2>4. QED
      BY <1>1, <2>1, <2>3, ContinueQuiet
  <1>9. QED
    BY <1>2, <1>3, <1>4, <1>5, <1>6, <1>7, <1>8
       DEF QuietStep, DeleteRoot, Grant, Crash

LEMMA ExposedPending ==
    ASSUME ChargeInv, NEW c, NEW g, Exposed(c, g)
    PROVE  State(c, g) = "pending"
  BY DEF ChargeInv, FenceInv, SendsSettled, SendersSettled, Settled, Exposed

LEMMA FenceWrite ==
    ASSUME ChargeInv, LocalsOK', NEW t \in Threads, AppendNext(t),
           CanAppend(Record(t), gen[t] + 1), Written(t)
    PROVE  FenceInv'
  <1> DEFINE q == Record(t)[gen[t]]
             r == Successor(pc[t], q, Sig(t), now)
  <1>1. LocalsOK /\ SharedOK /\ FenceInv /\ HandlerInv(t)
    BY InvTypes DEF ChargeInv
  <1>2. /\ pc[t] \in Ops /\ checked[t] /\ pc[t] # "idle"
        /\ UNCHANGED <<chain, sends>>
    BY DEF AppendNext, outside, Ops
  <1>3. /\ Owned(pc[t], q, Sig(t)) /\ ExtendStep(Chal(t), gen[t], r)
        /\ Chal(t) \in Challenges /\ gen[t] \in Generations
    BY <1>2, WrittenExtends
  <1>4. q \in Records /\ q = recs[Chal(t)][gen[t]]
    BY <1>1, <1>3 DEF SharedOK, Chains, Record
  <1>5. /\ pc[t] = "mark_pending" => r.state = "pending" /\ r.sig = Sig(t)
        /\ pc[t] = "release_pending" => r.state = "reserved"
        /\ pc[t] = "mark_failed" => r.state = "failed"
        /\ pc[t] \in {"mark_confirmed", "confirm_pending"} => r.state = "confirmed"
    BY <1>4 DEF Successor, Terminal, Reclaimable, Records
  <1> HIDE DEF r
  <1>6. pc[t] = "release_pending" => ~Exposed(Chal(t), gen[t])
    BY WithdrawnUnsent DEF Exposed, Withdrawing
  <1>7. pc[t] = "mark_pending" => q.state # "pending" /\ ~Exposed(Chal(t), gen[t])
    <2>1. pc[t] = "mark_pending" => q.state # "pending"
      BY <1>1 DEF HandlerInv, NothingPending
    <2>2. QED
      BY <2>1, <1>4, ExposedPending DEF State
  <1>8. pc[t] = "mark_failed" /\ Exposed(Chal(t), gen[t]) => chain[q.sig] = "failed"
    <2>1. SUFFICES ASSUME pc[t] = "mark_failed", Exposed(Chal(t), gen[t])
                   PROVE  chain[q.sig] = "failed"
      OBVIOUS
    <2>2. q.state = "pending"
      BY <1>4, <2>1, ExposedPending DEF State
    <2>3. QED
      BY <1>1, <2>1, <2>2 DEF FenceInv, FailureJustified, Exposed
  <1>9. Exposed(Chal(t), gen[t]) =>
          /\ r.state \in {"confirmed", "failed"}
          /\ r.state = "failed" => chain[recs[Chal(t)][gen[t]].sig] = "failed"
    BY <1>2, <1>4, <1>5, <1>6, <1>7, <1>8 DEF Ops
  <1>10. \A u \in Threads : u # t => SameLocals(u)
    BY <1>1, OthersSame DEF Handler, Resolve
  <1>11. CASE \/ Continue(t, AfterFalse(pc[t]))
              \/ Continue(t, AfterError(pc[t], cred[t]))
    <2>1. PICK label \in {"unclaim", "mark_failed", "grant", "idle"} :
            /\ Continue(t, label)
            /\ label = "mark_failed" =>
                 pc[t] \in {"mark_pending", "release_pending"}
      BY <1>2, <1>11 DEF AfterFalse, AfterError, Ops
    <2>2. /\ pc'[t] = label
          /\ label # "idle" => cred'[t] = cred[t] /\ gen'[t] = gen[t]
      BY <1>1, <2>1 DEF Continue, Return, Goto, LocalsOK
    <2>3. /\ pc'[t] \notin Fenced
          /\ pc'[t] = "mark_failed" =>
               /\ cred'[t] = cred[t] /\ gen'[t] = gen[t]
               /\ Record(t)[gen[t]].state # "pending" \/ ~Exposed(Chal(t), gen[t])
      BY <1>6, <1>7, <2>1, <2>2 DEF Fenced, Broadcasting, Withdrawing
    <2>4. QED
      BY <1>2, <1>3, <1>9, <1>10, <2>3, FenceExtend
  <1>12. CASE AfterTrue(pc[t]) = "idle" /\ Return(t)
    <2>1. pc'[t] \notin Fenced /\ pc'[t] # "mark_failed"
      BY <1>1, <1>12 DEF Return, LocalsOK, Fenced, Broadcasting, Withdrawing
    <2>2. QED
      BY <1>2, <1>3, <1>9, <1>10, <2>1, FenceExtend
  <1>13. CASE /\ AfterTrue(pc[t]) # "idle" /\ Goto(t, AfterTrue(pc[t]))
              /\ gen' = [gen EXCEPT ![t] = @ + 1]
              /\ UNCHANGED cred
    <2>1. /\ pc'[t] = AfterTrue(pc[t]) /\ gen'[t] = gen[t] + 1
          /\ cred'[t] = cred[t]
      BY <1>1, <1>13 DEF Goto, LocalsOK
    <2>2. /\ AfterTrue(pc[t]) \in {"send", "grant", "mark_failed"}
          /\ AfterTrue(pc[t]) = "send" => pc[t] = "mark_pending"
          /\ AfterTrue(pc[t]) = "mark_failed" => pc[t] = "release_pending"
      BY <1>2, <1>13 DEF AfterTrue, Ops
    <2>3. /\ pc'[t] \in Fenced =>
               /\ pc'[t] = "send" /\ cred'[t] = cred[t] /\ gen'[t] = gen[t] + 1
               /\ r.state = "pending" /\ r.sig = Sig(t)
          /\ pc'[t] = "mark_failed" =>
               /\ cred'[t] = cred[t]
               /\ gen'[t] = gen[t] + 1 /\ r.state # "pending"
      BY <1>5, <2>1, <2>2 DEF Fenced, Broadcasting, Withdrawing
    <2>4. QED
      BY <1>2, <1>3, <1>9, <1>10, <2>3, FenceExtend
  <1>14. QED
    BY <1>11, <1>12, <1>13 DEF AppendNext

LEMMA FenceTakeOver ==
    ASSUME ChargeInv, LocalsOK', NEW t \in Threads, TakeOver(t), recs' # recs
    PROVE  FenceInv'
  <1> DEFINE r == Fresh(cred[t], since[t])
  <1>1. LocalsOK /\ SharedOK /\ HandlerInv(t)
    BY InvTypes DEF ChargeInv
  <1>2. /\ pc[t] = "takeover" /\ CanAppend(Record(t), gen[t] + 1)
        /\ recs' = [recs EXCEPT ![Chal(t)] = Append1(@, gen[t] + 1, r)]
        /\ pc'[t] = "settle" /\ UNCHANGED <<chain, sends>>
    BY <1>1 DEF TakeOver, Goto, LocalsOK, outside
  <1>3. r \in Records /\ r.state = "reserved"
    BY <1>1, RecordTypes DEF LocalsOK, Fresh
  <1> HIDE DEF r
  <1>4. State(Chal(t), gen[t]) = "reserved"
    BY <1>1, <1>2 DEF CanAppend, HandlerInv, TakeOverOpen, Open, State, Record
  <1>5. ExtendStep(Chal(t), gen[t], r)
    BY <1>2, <1>3, <1>4 DEF ExtendStep, CanAppend, Record, Append1
  <1>6. ~Exposed(Chal(t), gen[t])
    BY <1>4, ExposedPending
  <1>7. \A u \in Threads : u # t => SameLocals(u)
    BY <1>1, OthersSame DEF Handler, Reserve
  <1>8. pc'[t] \notin Fenced
    BY <1>2 DEF Fenced, Broadcasting, Withdrawing
  <1>9. QED
    BY <1>2, <1>5, <1>6, <1>7, <1>8, FenceExtend

LEMMA FenceStep ==
    ASSUME ChargeInv, [Next]_vars
    PROVE  FenceInv'
  <1>1. /\ LocalsOK /\ SharedOK /\ LocalsOK' /\ SharedOK'
        /\ ChainInv /\ ChainInv' /\ RecsStep
    BY InvTypes, LocalsStep, SharedStep, RecsSteps, ChainKept DEF ChargeInv
  <1>2. ASSUME NEW u, SameLocals(u)
        PROVE  QuietMove(u)
    BY <1>2 DEF SameLocals, QuietMove
  <1>3. ASSUME NEW c \in Challenges, NEW r, recs' = [recs EXCEPT ![c][0] = r]
        PROVE  \A d \in Challenges : \A g \in Generations :
                 g > 0 => recs'[d][g] = recs[d][g]
    BY <1>1, <1>3 DEF SharedOK, Chains, Generations
  <1>4. ASSUME NEW t \in Threads, QuietStep(t)
        PROVE  FenceInv'
    <2>1. \A u \in Threads : u # t => SameLocals(u)
      BY <1>1, <1>4, OthersSame DEF QuietStep, Handler, Reserve, Settle, Resolve
    <2>2. \A u \in Threads : QuietMove(u)
      BY <1>2, <1>4, <2>1, QuietSelf
    <2>3. UNCHANGED <<chain, sends>>
      BY <1>4 DEF QuietStep, VerifyBound, VerifyBoundExpired, CheckOrphan,
         AppendRoot, RecheckOrphan, DeleteRoot, Classify, RefusePayload,
         BeginClaim, BeginUnclaim, SendRejected, AwaitConfirmation,
         AbandonRelease, VerifyPush, ConsumePush, Reconcile, ReadTip, Grant,
         Crash, TakeOver, AppendNext, outside
    <2>4. pc[t] # "idle" => Chal(t) \in Challenges
      BY <1>1, Subjects
    <2>5. \/ UNCHANGED recs
          \/ \E c \in Challenges : \E r : recs' = [recs EXCEPT ![c][0] = r]
      <3>1. CASE AppendRoot(t) \/ DeleteRoot(t)
        BY <2>4, <3>1 DEF AppendRoot, DeleteRoot, Append1
      <3>2. CASE ~(AppendRoot(t) \/ DeleteRoot(t))
        BY <1>4, <3>2 DEF QuietStep, VerifyBound, VerifyBoundExpired,
           CheckOrphan, RecheckOrphan, Classify, RefusePayload, BeginClaim,
           BeginUnclaim, SendRejected, AwaitConfirmation, AbandonRelease,
           VerifyPush, ConsumePush, Reconcile, ReadTip, Grant, Crash, stored
      <3>3. QED
        BY <3>1, <3>2
    <2>6. \A d \in Challenges : \A g \in Generations :
            g > 0 => recs'[d][g] = recs[d][g]
      BY <1>3, <2>5
    <2>7. QED
      BY <1>1, <2>2, <2>3, <2>6, FenceQuiet
  <1>5. ASSUME \A u \in Threads : SameLocals(u), UNCHANGED sends,
               \A d \in Challenges : \A g \in Generations :
                 g > 0 => recs'[d][g] = recs[d][g],
               \A s \in Signatures : chain[s] = "failed" => chain'[s] = "failed"
        PROVE  FenceInv'
    BY <1>1, <1>2, <1>5, FenceQuiet
  <1>6. ASSUME NEW s \in Signatures, PayerSubmits(s) \/ Land(s)
        PROVE  FenceInv'
    <2>1. /\ UNCHANGED <<recs, sends>> /\ \A u \in Threads : SameLocals(u)
          /\ \A x \in Signatures : chain[x] = "failed" => chain'[x] = "failed"
      BY <1>1, <1>6 DEF PayerSubmits, Land, SharedOK, stored, locals, SameLocals
    <2>2. QED
      BY <1>5, <2>1
  <1>7. ASSUME NEW c \in Challenges, RootExpires(c)
        PROVE  FenceInv'
    <2>1. /\ UNCHANGED <<chain, sends>> /\ \A u \in Threads : SameLocals(u)
          /\ recs' = [recs EXCEPT ![c][0] = Absent]
      BY <1>7 DEF RootExpires, outside, locals, SameLocals
    <2>2. QED
      BY <1>3, <1>5, <2>1
  <1>8. CASE Tick \/ UNCHANGED vars
    <2>1. /\ UNCHANGED <<recs, chain, sends>> /\ \A u \in Threads : SameLocals(u)
      BY <1>8 DEF Tick, vars, stored, outside, locals, SameLocals
    <2>2. QED
      BY <1>5, <2>1
  <1>9. ASSUME NEW t \in Threads, AppendNext(t)
        PROVE  FenceInv'
    BY <1>1, <1>4, <1>9, FenceWrite DEF AppendNext, QuietStep
  <1>10. ASSUME NEW t \in Threads, TakeOver(t)
         PROVE  FenceInv'
    BY <1>1, <1>4, <1>10, FenceTakeOver DEF QuietStep
  <1>11. QED
    BY <1>4, <1>6, <1>7, <1>8, <1>9, <1>10, FenceSend
       DEF Next, Handler, Reserve, Settle, Resolve, QuietStep

-----------------------------------------------------------------------------
LEMMA InitInv == Init => ChargeInv
  <1>1. SUFFICES ASSUME Init PROVE ChargeInv
    OBVIOUS
  <1>2. LocalsOK /\ SharedOK /\ TypeOK
    BY <1>1, InitTypes, TypeSplit
  <1>3. /\ \A c \in Challenges : \A g \in Generations : recs[c][g].state = "absent"
        /\ \A t \in Threads : pc[t] = "idle" /\ gen[t] = 0 /\ checked[t] = FALSE
        /\ sends = {} /\ 0 \in Generations
    BY <1>1 DEF Init, Absent, Generations
  <1>4. ChainInv
    BY <1>3 DEF ChainInv, NoGaps, TerminalEnds, RootReserves,
       PendingNamesSignature, State, Present
  <1>5. \A t \in Threads : HandlerInv(t)
    BY <1>3 DEF HandlerInv, HoldsCredential, StartsAtRoot, InRange,
       DeletesOrphanOnly, ReservationHeld, NothingPending, TakeOverOpen,
       CheckedIsOwned, PendingHeld, Broadcasting, Withdrawing
  <1>6. FenceInv
    BY <1>3 DEF FenceInv, ExclusiveBroadcast, NotHandedOver, SendsSettled,
       SendersSettled, FailureJustified, Broadcasting, Withdrawing
  <1>7. QED
    BY <1>2, <1>4, <1>5, <1>6 DEF ChargeInv

LEMMA InvStep == ChargeInv /\ [Next]_vars => ChargeInv'
  <1>1. SUFFICES ASSUME ChargeInv, [Next]_vars PROVE ChargeInv'
    OBVIOUS
  <1>2. LocalsOK' /\ SharedOK'
    BY <1>1, InvTypes, LocalsStep, SharedStep
  <1>3. TypeOK'
    BY <1>2, TypeSplit DEF TypeOK, LocalsOK, SharedOK
  <1>4. ChainInv'
    BY <1>1, InvTypes, RecsSteps, ChainKept DEF ChargeInv
  <1>5. \A t \in Threads : HandlerInv(t)'
    BY <1>1, HandlerStep
  <1>6. FenceInv'
    BY <1>1, FenceStep
  <1>7. QED
    BY <1>3, <1>4, <1>5, <1>6 DEF ChargeInv

(***************************************************************************)
(* The inductive invariant: the shape of the record chains, what each      *)
(* handler may rely on at each await point, and the broadcast fence.       *)
(***************************************************************************)
THEOREM ChargeInvariant == Spec => []ChargeInv
  BY InitInv, InvStep, PTL DEF Spec

(***************************************************************************)
(* Two transmissions of one challenge belong to one generation.            *)
(***************************************************************************)
LEMMA OneFence ==
    ASSUME ChargeInv, NEW e \in sends, NEW f \in sends, e[1] = f[1]
    PROVE  ~(e[2] < f[2])
  <1>1. /\ e[1] \in Challenges /\ e[2] \in Generations /\ f[2] \in Generations
        /\ Settled(e[1], e[2], e[3]) /\ Settled(e[1], f[2], f[3])
        /\ NoGaps /\ TerminalEnds
    BY InvTypes DEF SharedOK, ChargeInv, FenceInv, SendsSettled, ChainInv
  <1>2. SUFFICES ASSUME e[2] < f[2] PROVE FALSE
    OBVIOUS
  <1>3. /\ e[2] \in Nat /\ f[2] \in Nat /\ e[2] < MaxGenerations
        /\ e[2] + 1 \in Generations /\ 1 <= e[2] + 1 /\ e[2] + 1 <= f[2]
    BY <1>1, <1>2 DEF Generations
  <1>4. State(e[1], f[2]) = "pending"
    BY <1>1 DEF Settled
  <1>5. State(e[1], e[2] + 1) # "absent"
    BY <1>1, <1>3, <1>4 DEF NoGaps, Present, State
  <1>6. State(e[1], e[2] + 1) \in {"confirmed", "failed"}
    BY <1>1, <1>3, <1>5 DEF Settled
  <1>7. e[2] + 1 # f[2]
    BY <1>4, <1>6
  <1>8. State(e[1], f[2]) = "absent"
    BY <1>1, <1>3, <1>6, <1>7 DEF TerminalEnds
  <1>9. QED
    BY <1>4, <1>8

(***************************************************************************)
(* BroadcastFence does its work: a challenge is broadcast under one        *)
(* generation, its pending record, which nothing but an outcome follows.   *)
(***************************************************************************)
THEOREM FenceHolds == Spec => []BroadcastIsFenced
  <1>1. ChargeInv => BroadcastIsFenced
    <2>1. SUFFICES ASSUME ChargeInv, NEW e \in sends
                   PROVE  /\ \A f \in sends : f[1] = e[1] => f[2] = e[2]
                          /\ Settled(e[1], e[2], e[3])
      BY DEF BroadcastIsFenced, Settled, State
    <2>2. \A f \in sends : f[2] \in Nat
      BY <2>1, InvTypes DEF SharedOK, Generations
    <2>3. \A f \in sends : f[1] = e[1] => f[2] = e[2]
      BY <2>1, <2>2, OneFence
    <2>4. Settled(e[1], e[2], e[3])
      BY <2>1 DEF ChargeInv, FenceInv, SendsSettled
    <2>5. QED
      BY <2>3, <2>4
  <1>2. QED
    BY <1>1, ChargeInvariant, PTL

(***************************************************************************)
(* A charge recorded as failed, which tells the payer to pay again, has no *)
(* broadcast transaction that succeeded or still can.                      *)
(***************************************************************************)
THEOREM FailureHolds == Spec => []FailureIsFinal
  <1>1. ChargeInv => FailureIsFinal
    <2>1. SUFFICES ASSUME ChargeInv, NEW e \in sends, NEW g \in Generations,
                          State(e[1], g) = "failed"
                   PROVE  chain[e[3]] = "failed"
      BY DEF FailureIsFinal, State
    <2>2. /\ e[1] \in Challenges /\ e[2] \in Generations
          /\ Settled(e[1], e[2], e[3]) /\ NoGaps /\ TerminalEnds /\ RootReserves
      BY <2>1, InvTypes DEF SharedOK, ChargeInv, FenceInv, SendsSettled, ChainInv
    <2>3. State(e[1], e[2]) = "pending"
      BY <2>2 DEF Settled
    <2>4. g \in Nat /\ e[2] \in Nat /\ g <= MaxGenerations
      BY <2>1, <2>2 DEF Generations
    <2>5. e[2] < g
      BY <2>1, <2>2, <2>3, <2>4 DEF TerminalEnds
    <2>6. e[2] + 1 \in Generations /\ e[2] < MaxGenerations
      BY <2>4, <2>5 DEF Generations
    <2>7. State(e[1], e[2] + 1) # "absent"
      BY <2>1, <2>2, <2>4, <2>5, <2>6 DEF NoGaps, Present, State
    <2>8. State(e[1], e[2] + 1) \in {"confirmed", "failed"}
      BY <2>2, <2>6, <2>7 DEF Settled
    <2>9. g = e[2] + 1
      BY <2>1, <2>2, <2>4, <2>5, <2>6, <2>8 DEF TerminalEnds
    <2>10. QED
      BY <2>1, <2>2, <2>6, <2>9 DEF Settled
  <1>2. QED
    BY <1>1, ChargeInvariant, PTL

(***************************************************************************)
(* A confirmed or failed record is final: no step of any handler replaces  *)
(* it or appends after it.                                                 *)
(***************************************************************************)
THEOREM TerminalHolds == Spec => TerminalIsSticky
  <1>1. ChargeInv /\ [Next]_vars =>
          \A c \in Challenges : \A g \in Generations :
            IsLatest(c, g) /\ recs[c][g].state \in {"confirmed", "failed"}
              => IsLatest(c, g)' /\ (g > 0 => recs'[c][g] = recs[c][g])
    <2>1. SUFFICES ASSUME ChargeInv, [Next]_vars,
                          NEW c \in Challenges, NEW g \in Generations,
                          IsLatest(c, g),
                          recs[c][g].state \in {"confirmed", "failed"}
                   PROVE  IsLatest(c, g)' /\ (g > 0 => recs'[c][g] = recs[c][g])
      OBVIOUS
    <2>2. SharedOK /\ ChainInv /\ ChainInv' /\ RecsKept
      BY <2>1, InvTypes, RecsSteps, KeepsRecords, ChainKept DEF ChargeInv
    <2>3. g > 0
      BY <2>1, <2>2 DEF ChainInv, RootReserves, State, Generations
    <2>4. recs'[c][g] = recs[c][g]
      BY <2>1, <2>2, <2>3 DEF RecsKept, Present
    <2>5. \A h \in Generations : h > g => recs'[c][h].state = "absent"
      BY <2>1, <2>2, <2>4 DEF ChainInv, TerminalEnds, State, Generations
    <2>6. QED
      BY <2>1, <2>4, <2>5 DEF IsLatest, Present
  <1>2. QED
    BY <1>1, ChargeInvariant, PTL DEF Spec, TerminalIsSticky

=============================================================================

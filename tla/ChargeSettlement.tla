--------------------------- MODULE ChargeSettlement ---------------------------
(***************************************************************************)
(* How an MPP server settles a charge (mpp/server/charge.rs): concurrent   *)
(* request handlers run verify_bound against the charge records and the    *)
(* consumed-signature ledger of a shared Store, and against a Solana RPC   *)
(* node that may lose answers, lag, or land a transaction late.            *)
(*                                                                         *)
(* One step is one store call, one RPC call, or the local code between two *)
(* of them.  A handler may stop anywhere (crash, dropped connection,       *)
(* cancelled future); whatever it wrote stays written.                     *)
(***************************************************************************)
EXTENDS ChargeRecords, Sequences

CONSTANTS
    Threads,        \* concurrent request handlers, over all replicas
    Challenges,     \* issued challenge ids
    ChallengeOf,    \* the challenge each credential answers
    SigOf,          \* the final signature of each credential's transaction
    Pull,           \* the credentials of type "transaction"; the rest are push
    SelfSubmit,     \* signatures the payer can put on chain without the server
    ExpiresAt,      \* when each challenge expires
    MaxAttempts,    \* SIMULATION_MAX_ATTEMPTS
    MaxTime,        \* bound on the clock
    MaxCrashes,     \* bound on how often a handler stops half way
    StoreMayFail,   \* store calls may return an error
    RootMayExpire   \* the store expires a record's keys one by one

ASSUME CredentialAssumption ==
    /\ ChallengeOf \in [Credentials -> Challenges]
    /\ SigOf \in [Credentials -> Signatures]
    /\ Pull \subseteq Credentials
    /\ SelfSubmit \subseteq Signatures
    /\ ExpiresAt \in [Challenges -> Nat]

ASSUME LimitAssumption ==
    /\ MaxAttempts \in Nat \ {0} /\ MaxTime \in Nat /\ MaxCrashes \in Nat
    /\ StoreMayFail \in BOOLEAN /\ RootMayExpire \in BOOLEAN

VARIABLES
    recs,        \* charge records: a chain of generations per challenge
    ledger,      \* consumed-signature ledger: "free" or "consumed"
    now,         \* the server clock
    inflight,    \* signatures some node has accepted
    chain,       \* what landed: "none", "ok" or "failed" for each signature
    pc,          \* where each handler is in verify_bound
    cred,        \* the credential it is verifying
    gen,         \* the generation it owns or is resolving
    since,       \* the clock value reserve read
    attempt,     \* broadcast attempt, 0 outside the send loop
    maybeSent,   \* maybe_sent of broadcast_pull
    checked,     \* the tip was read and found owned; the append is next
    crashes,     \* handlers stopped so far
    sends,       \* history: <<challenge, generation, signature>> handed to a node
    receipts     \* history: the receipts granted, in order

stored == <<recs, ledger>>
outside == <<inflight, chain, sends>>
locals == <<cred, gen, since, attempt, maybeSent, checked>>
vars == <<recs, ledger, now, inflight, chain, pc, cred, gen, since, attempt,
          maybeSent, checked, crashes, sends, receipts>>

-----------------------------------------------------------------------------

PCs == {"idle", "check_orphan", "append_root", "recheck", "delete_root",
        "classify", "takeover", "settle", "unclaim", "send", "send_unchecked",
        "await", "abandon", "consume", "reconcile", "grant"} \cup Ops

TypeOK ==
    /\ recs \in [Challenges -> Chains]
    /\ ledger \in [Signatures -> {"free", "consumed"}]
    /\ now \in Nat
    /\ inflight \subseteq Signatures
    /\ chain \in [Signatures -> {"none", "ok", "failed"}]
    /\ pc \in [Threads -> PCs]
    /\ cred \in [Threads -> Credentials \cup {NoCred}]
    /\ gen \in [Threads -> Generations]
    /\ since \in [Threads -> Nat]
    /\ attempt \in [Threads -> 0 .. MaxAttempts]
    /\ maybeSent \in [Threads -> BOOLEAN]
    /\ checked \in [Threads -> BOOLEAN]
    /\ crashes \in Nat
    /\ sends \subseteq Challenges \X Generations \X Signatures
    /\ receipts \in Seq([chal : Challenges, sig : Signatures])

Init ==
    /\ recs = [c \in Challenges |-> [g \in Generations |-> Absent]]
    /\ ledger = [s \in Signatures |-> "free"]
    /\ now = 0
    /\ inflight = {}
    /\ chain = [s \in Signatures |-> "none"]
    /\ pc = [t \in Threads |-> "idle"]
    /\ cred = [t \in Threads |-> NoCred]
    /\ gen = [t \in Threads |-> 0]
    /\ since = [t \in Threads |-> 0]
    /\ attempt = [t \in Threads |-> 0]
    /\ maybeSent = [t \in Threads |-> FALSE]
    /\ checked = [t \in Threads |-> FALSE]
    /\ crashes = 0
    /\ sends = {}
    /\ receipts = << >>

(***************************************************************************)
(* Abbreviations for the handler t is running.                             *)
(***************************************************************************)
Chal(t) == ChallengeOf[cred[t]]
Sig(t) == SigOf[cred[t]]
Record(t) == recs[Chal(t)]

Goto(t, label) == pc' = [pc EXCEPT ![t] = label]

(***************************************************************************)
(* Return from verify_bound: the handler's locals go out of scope.         *)
(***************************************************************************)
Return(t) ==
    /\ pc' = [pc EXCEPT ![t] = "idle"]
    /\ cred' = [cred EXCEPT ![t] = NoCred]
    /\ gen' = [gen EXCEPT ![t] = 0]
    /\ since' = [since EXCEPT ![t] = 0]
    /\ attempt' = [attempt EXCEPT ![t] = 0]
    /\ maybeSent' = [maybeSent EXCEPT ![t] = FALSE]
    /\ checked' = [checked EXCEPT ![t] = FALSE]

-----------------------------------------------------------------------------
(***************************************************************************)
(* verify_bound up to reserve.  Before the challenge expires the handler   *)
(* goes on to reserve, which reads the clock.  Afterwards only a broadcast *)
(* already pending for this very credential is taken any further.          *)
(***************************************************************************)
VerifyBound(t, k) ==
    /\ pc[t] = "idle"
    /\ now < ExpiresAt[ChallengeOf[k]]
    /\ Goto(t, "check_orphan")
    /\ cred' = [cred EXCEPT ![t] = k]
    /\ since' = [since EXCEPT ![t] = now]
    /\ UNCHANGED <<stored, now, outside, gen, attempt, maybeSent, checked,
                   crashes, receipts>>

ExpiredNever(chal, k, g) == FALSE   \* mutant: expiry cuts off reconciliation

ExpiredPending(chal, k, g) ==
    /\ IsTip(recs[chal], g)
    /\ recs[chal][g].state = "pending"
    /\ recs[chal][g].digest = k

VerifyBoundExpired(t, k) ==
    /\ pc[t] = "idle"
    /\ now >= ExpiresAt[ChallengeOf[k]]
    /\ \E g \in Generations :
         /\ ExpiredPending(ChallengeOf[k], k, g)
         /\ gen' = [gen EXCEPT ![t] = g]
    /\ cred' = [cred EXCEPT ![t] = k]
    /\ Goto(t, "reconcile")
    /\ UNCHANGED <<stored, now, outside, since, attempt, maybeSent, checked,
                   crashes, receipts>>

(***************************************************************************)
(* reserve.  The root is refused while a later generation outlives it, and *)
(* that is checked both before and after the root is claimed.  The first   *)
(* check reads two keys, of which the later generation never disappears,   *)
(* so it takes effect at its last read.                                    *)
(***************************************************************************)
CheckOrphan(t) ==
    /\ pc[t] = "check_orphan"
    /\ \/ Orphaned(Record(t)) /\ Return(t)
       \/ ~Orphaned(Record(t)) /\ Goto(t, "append_root") /\ UNCHANGED locals
    /\ UNCHANGED <<stored, now, outside, crashes, receipts>>

AppendRoot(t) ==
    /\ pc[t] = "append_root"
    /\ \/ /\ CanAppend(Record(t), 0)
          /\ recs' = [recs EXCEPT ![Chal(t)] =
                        Append1(@, 0, Fresh(cred[t], since[t]))]
          /\ Goto(t, "recheck")
       \/ ~CanAppend(Record(t), 0) /\ Goto(t, "classify") /\ UNCHANGED recs
    /\ UNCHANGED <<ledger, now, outside, locals, crashes, receipts>>

RecheckOrphan(t) ==
    /\ pc[t] = "recheck"
    /\ Goto(t, IF Present(Record(t), 1) THEN "delete_root" ELSE "settle")
    /\ UNCHANGED <<stored, now, outside, locals, crashes, receipts>>

DeleteRoot(t) ==
    /\ pc[t] = "delete_root"
    /\ recs' = [recs EXCEPT ![Chal(t)][0] = Absent]
    /\ Return(t)
    /\ UNCHANGED <<ledger, now, outside, crashes, receipts>>

(***************************************************************************)
(* reserve's loop: classify the tip, and take over an expired lease.       *)
(***************************************************************************)
LeaseExpired(record, time) == record.expires <= time

Classify(t) ==
    /\ pc[t] = "classify"
    /\ \/ NoTip(Record(t)) /\ Return(t)
       \/ \E g \in Generations :
            LET record == Record(t)[g] IN
            /\ IsTip(Record(t), g)
            /\ \/ /\ \/ record.digest # cred[t]
                     \/ record.state \in {"confirmed", "failed"}
                     \/ /\ record.state = "reserved"
                        /\ ~LeaseExpired(record, since[t])
                  /\ Return(t)
               \/ /\ record.digest = cred[t]
                  /\ \/ record.state = "pending" /\ Goto(t, "reconcile")
                     \/ /\ record.state = "reserved"
                        /\ LeaseExpired(record, since[t])
                        /\ Goto(t, "takeover")
                  /\ gen' = [gen EXCEPT ![t] = g]
                  /\ UNCHANGED <<cred, since, attempt, maybeSent, checked>>
    /\ UNCHANGED <<stored, now, outside, crashes, receipts>>

TakeOver(t) ==
    /\ pc[t] = "takeover"
    /\ \/ /\ CanAppend(Record(t), gen[t] + 1)
          /\ recs' = [recs EXCEPT ![Chal(t)] =
                        Append1(@, gen[t] + 1, Fresh(cred[t], since[t]))]
          /\ gen' = [gen EXCEPT ![t] = @ + 1]
          /\ Goto(t, "settle")
       \/ /\ ~CanAppend(Record(t), gen[t] + 1)
          /\ Goto(t, "classify")
          /\ UNCHANGED <<recs, gen>>
    /\ UNCHANGED <<ledger, now, outside, cred, since, attempt, maybeSent,
                   checked, crashes, receipts>>

-----------------------------------------------------------------------------
(***************************************************************************)
(* The consumed-signature ledger.  A claim either takes a free signature   *)
(* or is refused; on a store error the caller cannot tell, and it goes on  *)
(* as if refused.  A release hands the signature back, or fails silently.  *)
(***************************************************************************)
ClaimBlind(t, held, refused) ==   \* mutant: a consumed signature is taken again
    /\ ledger' = [ledger EXCEPT ![Sig(t)] = "consumed"]
    /\ Goto(t, held)

Claim(t, held, refused) ==
    \/ /\ ledger[Sig(t)] = "free"
       /\ ledger' = [ledger EXCEPT ![Sig(t)] = "consumed"]
       /\ Goto(t, held)
    \/ /\ ledger[Sig(t)] = "consumed"
       /\ Goto(t, refused)
       /\ UNCHANGED ledger
    \/ /\ StoreMayFail
       /\ ledger' \in {ledger, [ledger EXCEPT ![Sig(t)] = "consumed"]}
       /\ Goto(t, refused)

Release(t, label) ==
    /\ \/ ledger' = [ledger EXCEPT ![Sig(t)] = "free"]
       \/ StoreMayFail /\ UNCHANGED ledger
    /\ Goto(t, label)

(***************************************************************************)
(* settle_payload refuses the credential before anything leaves the        *)
(* server: malformed or mismatched transaction, wrong network, a signer    *)
(* that does not answer, push mode disabled.                               *)
(***************************************************************************)
RefusePayload(t) ==
    /\ pc[t] = "settle"
    /\ Goto(t, "mark_failed")
    /\ UNCHANGED <<stored, now, outside, locals, crashes, receipts>>

(***************************************************************************)
(* BroadcastFence::begin: claim the signature, then record it as pending.  *)
(* If the record is no longer ours the claim is handed back.               *)
(***************************************************************************)
BeginClaim(t) ==
    /\ pc[t] = "settle"
    /\ cred[t] \in Pull
    /\ Claim(t, "mark_pending", "mark_failed")
    /\ UNCHANGED <<recs, now, outside, locals, crashes, receipts>>

BeginUnclaim(t) ==
    /\ pc[t] = "unclaim"
    /\ Release(t, "mark_failed")
    /\ UNCHANGED <<recs, now, outside, locals, crashes, receipts>>

(***************************************************************************)
(* broadcast_pull's send loop.  A preflight rejection proves that this     *)
(* attempt was not forwarded; any other error leaves it unknown.           *)
(***************************************************************************)
HandedOver(t) ==
    /\ inflight' = inflight \cup {Sig(t)}
    /\ sends' = sends \cup {<<Chal(t), gen[t], Sig(t)>>}

NextAttempt(t) == attempt' = [attempt EXCEPT ![t] = @ + 1]

SendAccepted(t) ==
    /\ pc[t] \in {"send", "send_unchecked"}
    /\ HandedOver(t)
    /\ Goto(t, "await")
    /\ UNCHANGED <<stored, now, chain, locals, crashes, receipts>>

SendRejectedAbandons(t) ==   \* mutant: maybe_sent is not consulted
    /\ pc[t] = "send"
    /\ \/ /\ attempt[t] < MaxAttempts
          /\ NextAttempt(t)
          /\ UNCHANGED <<pc, cred, gen, since, maybeSent, checked>>
       \/ attempt[t] = MaxAttempts /\ Goto(t, "abandon") /\ UNCHANGED locals
    /\ UNCHANGED <<stored, now, outside, crashes, receipts>>

SendRejected(t) ==
    /\ pc[t] = "send"
    /\ \/ /\ attempt[t] < MaxAttempts
          /\ NextAttempt(t)
          /\ UNCHANGED <<pc, cred, gen, since, maybeSent, checked>>
       \/ /\ attempt[t] = MaxAttempts
          /\ Goto(t, "send_unchecked")     \* the blockhash is not known yet
          /\ UNCHANGED locals
       \/ /\ attempt[t] = MaxAttempts
          /\ maybeSent[t]
          /\ Return(t)
       \/ /\ attempt[t] = MaxAttempts
          /\ ~maybeSent[t]
          /\ Goto(t, "abandon")
          /\ UNCHANGED locals
    /\ UNCHANGED <<stored, now, outside, crashes, receipts>>

SendLost(t) ==
    /\ pc[t] \in {"send", "send_unchecked"}
    /\ HandedOver(t) \/ UNCHANGED <<inflight, sends>>
    /\ \/ /\ pc[t] = "send" /\ attempt[t] < MaxAttempts
          /\ NextAttempt(t)
          /\ maybeSent' = [maybeSent EXCEPT ![t] = TRUE]
          /\ UNCHANGED <<pc, cred, gen, since, checked>>
       \/ /\ pc[t] = "send_unchecked" \/ attempt[t] = MaxAttempts
          /\ Return(t)
    /\ UNCHANGED <<stored, now, chain, crashes, receipts>>

(***************************************************************************)
(* await_pull_confirmation: confirmed, landed and failed, or still unknown *)
(* after the last poll.  Unknown leaves the record pending.                *)
(***************************************************************************)
AwaitGivesUp(t) ==   \* mutant: a confirmation timeout is taken for a failure
    /\ pc[t] = "await"
    /\ Goto(t, IF chain[Sig(t)] = "ok" THEN "mark_confirmed" ELSE "mark_failed")
    /\ UNCHANGED <<stored, now, outside, locals, crashes, receipts>>

AwaitConfirmation(t) ==
    /\ pc[t] = "await"
    /\ \/ chain[Sig(t)] = "ok" /\ Goto(t, "mark_confirmed") /\ UNCHANGED locals
       \/ chain[Sig(t)] = "failed" /\ Goto(t, "mark_failed") /\ UNCHANGED locals
       \/ Return(t)
    /\ UNCHANGED <<stored, now, outside, crashes, receipts>>

(***************************************************************************)
(* BroadcastFence::abandon: the signature is released first, then the      *)
(* pending record (op release_pending).                                    *)
(***************************************************************************)
AbandonRelease(t) ==
    /\ pc[t] = "abandon"
    /\ Release(t, "release_pending")
    /\ UNCHANGED <<recs, now, outside, locals, crashes, receipts>>

(***************************************************************************)
(* The push arm of settle_payload: the transaction must have landed before *)
(* its signature is claimed.  Every refusal, an RPC error included, is a   *)
(* terminal failure of the challenge.                                      *)
(***************************************************************************)
VerifyPushBlind(t) ==   \* mutant: a push signature is accepted unseen
    /\ pc[t] = "settle"
    /\ cred[t] \notin Pull
    /\ Goto(t, "consume")
    /\ UNCHANGED <<stored, now, outside, locals, crashes, receipts>>

VerifyPush(t) ==
    /\ pc[t] = "settle"
    /\ cred[t] \notin Pull
    /\ chain[Sig(t)] = "ok"
    /\ Goto(t, "consume")
    /\ UNCHANGED <<stored, now, outside, locals, crashes, receipts>>

ConsumePush(t) ==
    /\ pc[t] = "consume"
    /\ Claim(t, "mark_confirmed", "mark_failed")
    /\ UNCHANGED <<recs, now, outside, locals, crashes, receipts>>

(***************************************************************************)
(* reconcile_pending_charge: only an explicit outcome resolves the record. *)
(***************************************************************************)
Reconcile(t) ==
    /\ pc[t] = "reconcile"
    /\ \/ chain[Sig(t)] = "ok" /\ Goto(t, "confirm_pending") /\ UNCHANGED locals
       \/ chain[Sig(t)] = "failed" /\ Goto(t, "mark_failed") /\ UNCHANGED locals
       \/ Return(t)
    /\ UNCHANGED <<stored, now, outside, crashes, receipts>>

-----------------------------------------------------------------------------
(***************************************************************************)
(* The operations of ChargeReplayStore that resolve a generation: read the *)
(* tip, then append.  What the caller does next depends on the operation   *)
(* and on its result: written, not current any more, or a store error.     *)
(***************************************************************************)
AfterTrue(op) ==
    CASE op = "mark_pending" -> "send"
      [] op \in {"mark_confirmed", "confirm_pending"} -> "grant"
      [] op = "release_pending" -> "mark_failed"
      [] op = "mark_failed" -> "idle"

AfterFalseGrants(op) ==   \* mutant: Ok(false) of mark_confirmed is ignored
    CASE op = "mark_pending" -> "unclaim"
      [] op = "release_pending" -> "mark_failed"
      [] op = "mark_confirmed" -> "grant"
      [] op \in {"confirm_pending", "mark_failed"} -> "idle"

AfterFalseRetries(op) ==   \* mutant: mark_confirmed is retried until it succeeds
    CASE op = "mark_pending" -> "unclaim"
      [] op = "release_pending" -> "mark_failed"
      [] op = "mark_confirmed" -> "mark_confirmed"
      [] op \in {"confirm_pending", "mark_failed"} -> "idle"

AfterFalse(op) ==
    CASE op = "mark_pending" -> "unclaim"
      [] op = "release_pending" -> "mark_failed"
      [] op \in {"mark_confirmed", "confirm_pending", "mark_failed"} -> "idle"

AfterError(op, k) ==
    CASE op \in {"mark_pending", "release_pending"} -> "mark_failed"
      [] op = "mark_confirmed" /\ k \notin Pull -> "grant"
      [] op = "mark_confirmed" /\ k \in Pull -> "idle"
      [] op \in {"confirm_pending", "mark_failed"} -> "idle"

Continue(t, label) ==
    \/ label = "idle" /\ Return(t)
    \/ /\ label # "idle"
       /\ Goto(t, label)
       /\ checked' = [checked EXCEPT ![t] = FALSE]
       /\ UNCHANGED <<cred, gen, since, attempt, maybeSent>>

ReadTip(t) ==
    /\ pc[t] \in Ops /\ ~checked[t]
    /\ \/ \E g \in Generations :
            /\ IsTip(Record(t), g)
            /\ \/ /\ g = gen[t] /\ Owned(pc[t], Record(t)[g], Sig(t))
                  /\ checked' = [checked EXCEPT ![t] = TRUE]
                  /\ UNCHANGED <<pc, cred, gen, since, attempt, maybeSent>>
               \/ /\ ~(g = gen[t] /\ Owned(pc[t], Record(t)[g], Sig(t)))
                  /\ Continue(t, AfterFalse(pc[t]))
       \/ /\ NoTip(Record(t)) \/ StoreMayFail
          /\ Continue(t, AfterError(pc[t], cred[t]))
    /\ UNCHANGED <<stored, now, outside, crashes, receipts>>

(***************************************************************************)
(* The append.  The fence moves to the new generation after mark_pending   *)
(* and release_pending, the two operations its owner goes on from.         *)
(***************************************************************************)
Written(t) ==
    recs' = [recs EXCEPT ![Chal(t)] =
               Append1(@, gen[t] + 1, Successor(pc[t], @[gen[t]], Sig(t), now))]

AppendNext(t) ==
    /\ pc[t] \in Ops /\ checked[t]
    /\ \/ /\ CanAppend(Record(t), gen[t] + 1)
          /\ Written(t)
          /\ \/ /\ AfterTrue(pc[t]) = "idle" /\ Return(t)
             \/ /\ AfterTrue(pc[t]) # "idle"
                /\ Goto(t, AfterTrue(pc[t]))
                /\ gen' = [gen EXCEPT ![t] = @ + 1]
                /\ attempt' = [attempt EXCEPT ![t] =
                                 IF pc[t] = "mark_pending" THEN 1 ELSE 0]
                /\ maybeSent' = [maybeSent EXCEPT ![t] = FALSE]
                /\ checked' = [checked EXCEPT ![t] = FALSE]
                /\ UNCHANGED <<cred, since>>
       \/ /\ ~CanAppend(Record(t), gen[t] + 1)
          /\ Continue(t, AfterFalse(pc[t]))
          /\ UNCHANGED recs
       \/ /\ StoreMayFail
          /\ \/ CanAppend(Record(t), gen[t] + 1) /\ Written(t)
             \/ UNCHANGED recs
          /\ Continue(t, AfterError(pc[t], cred[t]))
    /\ UNCHANGED <<ledger, now, outside, crashes, receipts>>

(***************************************************************************)
(* The receipt is returned to the client.                                  *)
(***************************************************************************)
Grant(t) ==
    /\ pc[t] = "grant"
    /\ receipts' = Append(receipts, [chal |-> Chal(t), sig |-> Sig(t)])
    /\ Return(t)
    /\ UNCHANGED <<stored, now, outside, crashes>>

-----------------------------------------------------------------------------
(***************************************************************************)
(* The rest of the world: time, handlers that stop, the payer submitting   *)
(* its own transaction, the cluster, and a store that expires the root of  *)
(* a record before its later generations.  A handler that stops is also    *)
(* what a store error inside reserve amounts to: it returns at once.       *)
(***************************************************************************)
Tick ==
    /\ now < MaxTime
    /\ now' = now + 1
    /\ UNCHANGED <<stored, outside, pc, locals, crashes, receipts>>

Crash(t) ==
    /\ crashes < MaxCrashes
    /\ pc[t] # "idle"
    /\ crashes' = crashes + 1
    /\ Return(t)
    /\ UNCHANGED <<stored, now, outside, receipts>>

PayerSubmits(s) ==
    /\ s \in SelfSubmit \ inflight
    /\ inflight' = inflight \cup {s}
    /\ UNCHANGED <<stored, now, chain, sends, pc, locals, crashes, receipts>>

Land(s) ==
    /\ s \in inflight
    /\ chain[s] = "none"
    /\ \E outcome \in {"ok", "failed"} : chain' = [chain EXCEPT ![s] = outcome]
    /\ UNCHANGED <<stored, now, inflight, sends, pc, locals, crashes, receipts>>

RootExpires(c) ==
    /\ RootMayExpire
    /\ Present(recs[c], 0) /\ Present(recs[c], 1)
    /\ recs' = [recs EXCEPT ![c][0] = Absent]
    /\ UNCHANGED <<ledger, now, outside, pc, locals, crashes, receipts>>

Reserve(t) ==
    \/ CheckOrphan(t) \/ AppendRoot(t) \/ RecheckOrphan(t) \/ DeleteRoot(t)
    \/ Classify(t) \/ TakeOver(t)

Settle(t) ==
    \/ RefusePayload(t) \/ BeginClaim(t) \/ BeginUnclaim(t)
    \/ SendAccepted(t) \/ SendRejected(t) \/ SendLost(t)
    \/ AwaitConfirmation(t) \/ AbandonRelease(t)
    \/ VerifyPush(t) \/ ConsumePush(t)

Resolve(t) == Reconcile(t) \/ ReadTip(t) \/ AppendNext(t) \/ Grant(t)

Handler(t) == Reserve(t) \/ Settle(t) \/ Resolve(t)

Next ==
    \/ \E t \in Threads :
         \/ \E k \in Credentials : VerifyBound(t, k) \/ VerifyBoundExpired(t, k)
         \/ Handler(t)
         \/ Crash(t)
    \/ \E s \in Signatures : PayerSubmits(s) \/ Land(s)
    \/ \E c \in Challenges : RootExpires(c)
    \/ Tick

Spec == Init /\ [][Next]_vars

-----------------------------------------------------------------------------
(***************************************************************************)
(* The generation a challenge has reached, whether or not the root is      *)
(* still there: the last one that was written.                             *)
(***************************************************************************)
IsLatest(c, g) ==
    Present(recs[c], g) /\ \A h \in Generations : h > g => ~Present(recs[c], h)

(***************************************************************************)
(* One receipt per charge.  However the handlers of one challenge          *)
(* interleave, crash, time out or lose store answers, the challenge is     *)
(* granted at most one receipt (verify_bound, "one receipt per payment").  *)
(***************************************************************************)
OneReceiptPerChallenge ==
    \A i, j \in DOMAIN receipts :
        receipts[i].chal = receipts[j].chal => i = j

(***************************************************************************)
(* One receipt per signature: a transaction never pays for two charges     *)
(* (ConsumedSignatures::claim, BroadcastFence::begin).                     *)
(***************************************************************************)
OneReceiptPerSignature ==
    \A i, j \in DOMAIN receipts :
        receipts[i].sig = receipts[j].sig => i = j

(***************************************************************************)
(* A receipt is backed by a transaction that landed and by a signature the *)
(* ledger will refuse from now on.                                         *)
(***************************************************************************)
ReceiptIsBacked ==
    \A i \in DOMAIN receipts :
        /\ chain[receipts[i].sig] = "ok"
        /\ ledger[receipts[i].sig] = "consumed"

(***************************************************************************)
(* BroadcastFence: a challenge's transaction is handed to a node under one *)
(* generation only, that generation is its pending record, and the record  *)
(* is never reclaimed into a reservation someone else could settle.        *)
(***************************************************************************)
BroadcastIsFenced ==
    \A e \in sends :
        /\ \A f \in sends : f[1] = e[1] => f[2] = e[2]
        /\ recs[e[1]][e[2]].state = "pending"
        /\ recs[e[1]][e[2]].sig = e[3]
        /\ e[2] < MaxGenerations =>
             recs[e[1]][e[2] + 1].state \in {"absent", "confirmed", "failed"}

(***************************************************************************)
(* A recorded failure tells the payer to pay again (reserve's              *)
(* AlreadyFailed), so nothing the server broadcast for that challenge may  *)
(* have succeeded or still be able to.                                     *)
(***************************************************************************)
FailureIsFinal ==
    \A e \in sends : \A g \in Generations :
        recs[e[1]][g].state = "failed" => chain[e[3]] = "failed"

(***************************************************************************)
(* A terminal record ends its chain: no step appends after it or changes   *)
(* it (the chain is append-only and mark_* refuse a terminal tip).         *)
(***************************************************************************)
TerminalIsSticky ==
    [][\A c \in Challenges : \A g \in Generations :
         IsLatest(c, g) /\ recs[c][g].state \in {"confirmed", "failed"}
           => IsLatest(c, g)' /\ (g > 0 => recs'[c][g] = recs[c][g])]_vars

=============================================================================

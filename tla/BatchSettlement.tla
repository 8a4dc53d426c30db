--------------------------- MODULE BatchSettlement ---------------------------
(***************************************************************************)
(* An x402 batch-settlement channel at work: paid requests on any replica  *)
(* reserve, serve and charge vouchers (paid_batch of gate.rs and           *)
(* verify_and_reserve_payment, finish_commit of batch_settlement.rs),      *)
(* while lifecycle workers claim the accepted voucher, cooperative closes  *)
(* fence and seal the channel, and finalizers seal a close the payer       *)
(* forced.  They meet in the channel record, whose transitions are atomic, *)
(* and on chain, where transactions land late or not at all.               *)
(***************************************************************************)
EXTENDS BatchChannel

CONSTANTS
    Requests,       \* handlers of paid requests, over all replicas
    Finalizers,     \* workers running finalize_close
    Claimers,       \* workers running claim
    Closers,        \* handlers of cooperative refunds
    Grace,          \* withdraw_delay, the channel's grace period
    Attempts,       \* COMMIT_ATTEMPTS
    StoreMayFail,   \* store calls may return an error
    MaxLag,         \* how far behind the cluster a node may answer
    MaxCrashes,     \* bound on handlers and workers stopped half way
    MaxReservations, \* bound on the reservations a run takes
    MaxClock        \* bound on the clock

Processes == Requests \cup Finalizers \cup Claimers \cup Closers

(***************************************************************************)
(* with_store refuses a configuration whose admission window does not fit  *)
(* the grace period.                                                       *)
(***************************************************************************)
ASSUME SettlementAssumption ==
    /\ Grace \in Nat /\ SnapshotAge + Lease < Grace
    /\ Attempts \in Nat \ {0}
    /\ StoreMayFail \in BOOLEAN
    /\ MaxLag \in Nat /\ MaxCrashes \in Nat /\ MaxReservations \in Nat /\ MaxClock \in Nat
    /\ Requests \cap (Finalizers \cup Claimers \cup Closers) = {}
    /\ Finalizers \cap (Claimers \cup Closers) = {} /\ Claimers \cap Closers = {}

VARIABLES
    ch,         \* the channel record in the store
    chain,      \* the channel account: status, settled, closed, by
    txs,        \* transactions handed to a node that may land
    done,       \* transactions that landed
    clock,
    pc,         \* where each process is
    pay,        \* the payment a request presents
    tok,        \* the sequence of its reservation token
    tries,      \* commit attempts made
    seen,       \* what a process last read of the chain
    crashes,
    served,     \* history: handler executions that took effect, per voucher
    charged     \* history: the vouchers charged

record == <<ch, charged>>
world == <<chain, txs, done, clock>>
locals == <<pay, tok, tries, seen>>
vars == <<ch, chain, txs, done, clock, pc, pay, tok, tries, seen, crashes, served, charged>>

Statuses == {"open", "closing", "sealed", "distributed"}

Kinds == {"settle", "apply", "close", "close_bare", "seal", "distribute"}

Txs == [kind : Kinds, cum : Vouchers]

NoPay == [cum |-> 1, amt |-> 1, replay |-> FALSE]

Nothing == [status |-> "open", settled |-> 0, slot |-> 0, at |-> 0, cum |-> 1,
            kind |-> "settle", rebuilt |-> FALSE]

Phases == {"idle", "reconcile", "fetch", "observe", "reserve", "handler", "release",
           "mark", "commit", "plan", "wait", "record", "fence", "check"}

TypeOK ==
    /\ ch \in ChannelStates
    /\ chain \in [status : Statuses, settled : Vouchers \cup {0}, closed : Nat,
                  by : {"nobody", "voucher", "deadline"}]
    /\ txs \subseteq Txs /\ done \subseteq Txs
    /\ clock \in 0..MaxClock
    /\ pc \in [Processes -> Phases]
    /\ pay \in [Requests -> [cum : Vouchers, amt : Amounts, replay : BOOLEAN]]
    /\ tok \in [Requests -> Nat] /\ tries \in [Requests -> 0..Attempts]
    /\ seen \in [Processes -> [status : Statuses, settled : Vouchers \cup {0}, slot : Nat,
                               at : Nat, cum : Vouchers, kind : Kinds, rebuilt : BOOLEAN]]
    /\ crashes \in 0..MaxCrashes
    /\ served \in [Vouchers -> Nat] /\ charged \subseteq Vouchers

Init ==
    /\ ch = Opened
    /\ chain = [status |-> "open", settled |-> 0, closed |-> 0, by |-> "nobody"]
    /\ txs = {} /\ done = {} /\ clock = 0
    /\ pc = [p \in Processes |-> "idle"]
    /\ pay = [r \in Requests |-> NoPay]
    /\ tok = [r \in Requests |-> 0] /\ tries = [r \in Requests |-> 0]
    /\ seen = [p \in Processes |-> Nothing]
    /\ crashes = 0
    /\ served = [v \in Vouchers |-> IF v = 1 THEN 1 ELSE 0] /\ charged = {1}

-----------------------------------------------------------------------------
To(p, phase) == pc' = [pc EXCEPT ![p] = phase]

Sees(p, reading) == seen' = [seen EXCEPT ![p] = reading]

(***************************************************************************)
(* A request that is over forgets its locals.                              *)
(***************************************************************************)
Finish(r) ==
    /\ To(r, "idle") /\ Sees(r, Nothing)
    /\ pay' = [pay EXCEPT ![r] = NoPay]
    /\ tok' = [tok EXCEPT ![r] = 0] /\ tries' = [tries EXCEPT ![r] = 0]

Goes(r, phase) == To(r, phase) /\ UNCHANGED locals

Payment(r) == [cum |-> pay[r].cum, amt |-> pay[r].amt]

(***************************************************************************)
(* verify_payment of a voucher: the channel accepts charges, and the       *)
(* voucher repeats the watermark or steps it by the price of the route.    *)
(***************************************************************************)
Verify(r, p) ==
    /\ pc[r] = "idle" /\ ~ch.sealed /\ ~ch.closing
    /\ p.cum = ch.cum \/ ch.cum + p.amt = p.cum
    /\ pay' = [pay EXCEPT ![r] =
                 IF p.cum = ch.cum THEN [NoPay EXCEPT !.replay = TRUE]
                 ELSE [cum |-> p.cum, amt |-> p.amt, replay |-> FALSE]]
    /\ To(r, "reconcile")
    /\ UNCHANGED <<record, world, tok, tries, seen, crashes, served>>

(***************************************************************************)
(* reconcile_channel: an observation younger than the snapshot age stands  *)
(* in for a read of the chain.                                             *)
(***************************************************************************)
Admitted(r) ==
    IF pay[r].replay THEN Finish(r)
    ELSE To(r, "reserve") /\ Sees(r, Nothing) /\ UNCHANGED <<pay, tok, tries>>

Reconcile(r) ==
    /\ pc[r] = "reconcile"
    /\ \/ clock - ch.seenAt < SnapshotAge /\ Admitted(r)
       \/ /\ clock - ch.seenAt >= SnapshotAge
          /\ Sees(r, [Nothing EXCEPT !.at = clock, !.slot = ch.seenSlot])
          /\ To(r, "fetch") /\ UNCHANGED <<pay, tok, tries>>
    /\ UNCHANGED <<record, world, crashes, served>>

(***************************************************************************)
(* rpc_observe_channel: a node answers from a slot at or after the one     *)
(* asked for; before the close that slot still shows the channel open.     *)
(***************************************************************************)
Shown(slot) == IF slot < chain.closed THEN "open" ELSE chain.status

Fetch(r) ==
    /\ pc[r] = "fetch"
    /\ \/ \E slot \in (clock - MaxLag)..clock :
            /\ slot >= seen[r].slot
            /\ Sees(r, [seen[r] EXCEPT !.slot = slot, !.status = Shown(slot),
                                       !.settled = chain.settled])
            /\ To(r, "observe") /\ UNCHANGED <<pay, tok, tries>>
       \/ Finish(r)
    /\ UNCHANGED <<record, world, crashes, served>>

Observe(r) ==
    /\ pc[r] = "observe"
    /\ ch' = Claimed(Observed(ch, seen[r].status, seen[r].slot, seen[r].at), seen[r].settled)
    /\ IF seen[r].status # "open" \/ Behind(ch, seen[r].slot) THEN Finish(r) ELSE Admitted(r)
    /\ UNCHANGED <<charged, world, crashes, served>>

(***************************************************************************)
(* reserve: one atomic transition of the record.  A store error reported   *)
(* after it took effect leaves a reservation nobody serves.                *)
(***************************************************************************)
Reserve(r) ==
    /\ pc[r] = "reserve"
    /\ LET outcome == Reservation(ch, Payment(r), clock) IN
       \/ /\ outcome = "reserved" /\ clock + Lease <= MaxClock /\ ch.seq < MaxReservations
          /\ ch' \in Reserved(ch, Payment(r), clock)
          /\ \/ /\ tok' = [tok EXCEPT ![r] = ch.seq + 1] /\ To(r, "handler")
                /\ UNCHANGED <<pay, tries, seen>>
             \/ StoreMayFail /\ Finish(r)
       \/ /\ outcome = "succeeded"
          /\ \E p \in Of(ch.pending, pay[r].cum) : tok' = [tok EXCEPT ![r] = p.seq]
          /\ tries' = [tries EXCEPT ![r] = Attempts - 1]
          /\ To(r, "commit") /\ UNCHANGED <<ch, pay, seen>>
       \/ outcome \notin {"reserved", "succeeded"} /\ Finish(r) /\ UNCHANGED ch
    /\ UNCHANGED <<charged, world, crashes, served>>

(***************************************************************************)
(* The resource handler takes effect, or declares it consumed nothing.     *)
(***************************************************************************)
Serve(r) ==
    /\ pc[r] = "handler" /\ Goes(r, "mark")
    /\ served' = [served EXCEPT ![pay[r].cum] = @ + 1]
    /\ UNCHANGED <<record, world, crashes>>

Decline(r) ==
    /\ pc[r] = "handler" /\ Goes(r, "release")
    /\ UNCHANGED <<record, world, crashes, served>>

ReleaseAuthorization(r) ==
    /\ pc[r] = "release" /\ Finish(r)
    /\ ch' = Released(ch, Payment(r)) \/ (StoreMayFail /\ UNCHANGED ch)
    /\ UNCHANGED <<charged, world, crashes, served>>

(***************************************************************************)
(* A mark that fails is logged and the charge is attempted all the same.   *)
(***************************************************************************)
MarkHandlerSucceeded(r) ==
    /\ pc[r] = "mark" /\ Goes(r, "commit")
    /\ ch' = Marked(ch, Payment(r), tok[r]) \/ (StoreMayFail /\ UNCHANGED ch)
    /\ UNCHANGED <<charged, world, crashes, served>>

(***************************************************************************)
(* finish_commit, tried COMMIT_ATTEMPTS times after a served handler and   *)
(* once by a request that resumes one.                                     *)
(***************************************************************************)
Charge(r) ==
    /\ CommitAllowed(ch, Payment(r), tok[r])
    /\ ch' \in Committed(ch, Payment(r))
    /\ charged' = charged \cup {pay[r].cum}

CommitFails(r) ==
    IF tries[r] + 1 < Attempts
    THEN /\ tries' = [tries EXCEPT ![r] = @ + 1]
         /\ UNCHANGED <<pc, pay, tok, seen>>
    ELSE Finish(r)

FinishCommit(r) ==
    /\ pc[r] = "commit"
    /\ \/ Charge(r) /\ Finish(r)
       \/ Payment(r) \in ch.committed /\ Finish(r) /\ UNCHANGED record
       \/ /\ ~CommitAllowed(ch, Payment(r), tok[r]) /\ Payment(r) \notin ch.committed
          /\ CommitFails(r) /\ UNCHANGED record
       \/ StoreMayFail /\ CommitFails(r) /\ (Charge(r) \/ UNCHANGED record)
    /\ UNCHANGED <<world, crashes, served>>

Request(r) ==
    \/ \E p \in Payments : Verify(r, p)
    \/ Reconcile(r) \/ Fetch(r) \/ Observe(r) \/ Reserve(r)
    \/ Serve(r) \/ Decline(r) \/ ReleaseAuthorization(r)
    \/ MarkHandlerSucceeded(r) \/ FinishCommit(r)

-----------------------------------------------------------------------------
(***************************************************************************)
(* Workers submit a transaction and wait for it; one they give up on may   *)
(* still land.                                                             *)
(***************************************************************************)
Tx(p) == [kind |-> seen[p].kind, cum |-> seen[p].cum]

Submits(p, reading) ==
    /\ txs' = txs \cup {[kind |-> reading.kind, cum |-> reading.cum]}
    /\ Sees(p, reading) /\ To(p, "wait")
    /\ UNCHANGED <<chain, done, clock>>

Rests(p) == To(p, "idle") /\ Sees(p, Nothing)

requestLocals == <<pay, tok, tries>>
quiet == <<requestLocals, crashes, served, charged>>

(***************************************************************************)
(* finalize_close: read the channel, plan on the record, submit, record.   *)
(***************************************************************************)
Lookup(f) ==
    /\ pc[f] = "idle"
    /\ LET reading == [Nothing EXCEPT !.settled = chain.settled, !.at = clock] IN
       \/ /\ chain.status = "closing"
          /\ Sees(f, reading) /\ To(f, "plan") /\ UNCHANGED world
       \/ chain.status = "sealed" /\ Submits(f, [Nothing EXCEPT !.kind = "distribute"])
       \/ /\ chain.status = "distributed" /\ ~ch.sealed
          /\ Sees(f, [Nothing EXCEPT !.kind = "distribute"])
          /\ To(f, "record") /\ UNCHANGED world
    /\ UNCHANGED <<ch, quiet>>

PlanClose(f) ==
    /\ pc[f] = "plan"
    /\ LET s == seen[f]
           past == s.at >= chain.closed + Grace
           plan == Plan(ch, s.settled, past, s.at)
       IN /\ ch' = Planned(ch, s.settled, past, s.at)
          /\ \/ plan = "apply" /\ Submits(f, [Nothing EXCEPT !.kind = "apply", !.cum = ch.cum])
             \/ plan = "frozen" /\ Submits(f, [Nothing EXCEPT !.kind = "seal"])
             \/ plan \in {"in_flight", "nothing"} /\ Rests(f) /\ UNCHANGED world
    /\ UNCHANGED quiet

AwaitSeal(f) ==
    /\ pc[f] = "wait"
    /\ \/ Tx(f) \in done /\ To(f, "record") /\ UNCHANGED seen
       \/ Rests(f)
    /\ UNCHANGED <<ch, world, quiet>>

RecordSeal(f) ==
    /\ pc[f] = "record" /\ Rests(f)
    /\ ch' = [Claimed(ch, IF seen[f].kind = "apply" THEN seen[f].cum ELSE 0)
                EXCEPT !.sealed = TRUE]
    /\ UNCHANGED <<world, quiet>>

Finalizer(f) == Lookup(f) \/ PlanClose(f) \/ AwaitSeal(f) \/ RecordSeal(f)

(***************************************************************************)
(* claim: advance the onchain watermark to the accepted one.               *)
(***************************************************************************)
Claim(q) ==
    /\ pc[q] = "idle" /\ chain.status = "open"
    /\ ch' = Claimed(ch, chain.settled)
    /\ IF ch.cum > ch'.claimed THEN Submits(q, [Nothing EXCEPT !.cum = ch.cum])
       ELSE UNCHANGED <<world, pc, seen>>
    /\ UNCHANGED quiet

AwaitClaimRecords(q) ==   \* mutant: records a claim nobody confirmed
    /\ pc[q] = "wait"
    /\ ch' = Claimed(ch, seen[q].cum)
    /\ Rests(q)
    /\ UNCHANGED <<world, quiet>>

AwaitClaim(q) ==
    /\ pc[q] = "wait"
    /\ \/ Tx(q) \in done /\ ch' = Claimed(ch, seen[q].cum)
       \/ UNCHANGED ch
    /\ Rests(q)
    /\ UNCHANGED <<world, quiet>>

Claimer(q) == Claim(q) \/ AwaitClaim(q)

(***************************************************************************)
(* cooperative_close at the accepted watermark.                            *)
(***************************************************************************)
Refund(k) ==
    /\ pc[k] = "idle" /\ ch.closedAt = 0
    /\ \/ /\ chain.status = "closing" /\ ch' = [ch EXCEPT !.closing = TRUE]
          /\ UNCHANGED <<pc, seen>>
       \/ /\ chain.status = "open" /\ chain.settled <= ch.cum
          /\ Sees(k, [Nothing EXCEPT !.settled = chain.settled, !.cum = ch.cum])
          /\ To(k, "fence") /\ UNCHANGED ch
    /\ UNCHANGED <<world, quiet>>

Closing(k, settled, rebuilt) ==
    Submits(k, [seen[k] EXCEPT !.settled = settled, !.rebuilt = rebuilt,
                  !.kind = IF settled < seen[k].cum THEN "close" ELSE "close_bare"])

FenceCooperativeClose(k) ==
    /\ pc[k] = "fence"
    /\ \/ /\ ~Blocking(ch, clock) /\ ch.cum = seen[k].cum
          /\ ch.final \in {NoFence, seen[k].cum}
          /\ ch' = [ch EXCEPT !.closing = TRUE, !.final = seen[k].cum]
          /\ Closing(k, seen[k].settled, FALSE)
       \/ /\ Blocking(ch, clock) \/ ch.cum # seen[k].cum \/ ch.final \notin {NoFence, seen[k].cum}
          /\ Rests(k) /\ UNCHANGED <<ch, world>>
    /\ UNCHANGED quiet

(***************************************************************************)
(* A failed submission reads the channel again: a claim that overtook it   *)
(* is rebuilt upon once, a distributed channel counts as closed.           *)
(***************************************************************************)
AwaitClose(k) ==
    /\ pc[k] = "wait"
    /\ \/ Tx(k) \in done /\ To(k, "check") /\ UNCHANGED <<seen, world>>
       \/ chain.status = "distributed" /\ To(k, "check") /\ UNCHANGED <<seen, world>>
       \/ /\ chain.status = "open" /\ ~seen[k].rebuilt
          /\ chain.settled # seen[k].settled /\ chain.settled <= seen[k].cum
          /\ Closing(k, chain.settled, TRUE)
       \/ Rests(k) /\ UNCHANGED world
    /\ UNCHANGED <<ch, quiet>>

CheckClose(k) ==
    /\ pc[k] = "check"
    /\ IF chain.status = "distributed" THEN To(k, "record") /\ UNCHANGED seen ELSE Rests(k)
    /\ UNCHANGED <<ch, world, quiet>>

RecordClose(k) ==
    /\ pc[k] = "record" /\ Rests(k)
    /\ ch' = [Claimed(ch, seen[k].cum) EXCEPT !.sealed = TRUE, !.closedAt = seen[k].cum]
    /\ UNCHANGED <<world, quiet>>

Closer(k) ==
    Refund(k) \/ FenceCooperativeClose(k) \/ AwaitClose(k) \/ CheckClose(k) \/ RecordClose(k)

Crash(p) ==
    /\ crashes < MaxCrashes /\ pc[p] # "idle"
    /\ crashes' = crashes + 1
    /\ IF p \in Requests THEN Finish(p) ELSE Rests(p) /\ UNCHANGED requestLocals
    /\ UNCHANGED <<record, world, served>>

-----------------------------------------------------------------------------
(***************************************************************************)
(* The payment-channel program, the payer and the clock.                   *)
(***************************************************************************)
server == <<ch, pc, locals, crashes, served, charged>>

InGrace == chain.status = "closing" /\ clock < chain.closed + Grace

PastGrace == chain.status = "closing" /\ clock >= chain.closed + Grace

Seals(status, settled, by) ==
    chain' = [chain EXCEPT !.status = status, !.settled = settled, !.by = by,
                           !.closed = IF chain.status = "open" THEN clock ELSE @]

Land(t) ==
    /\ t \in txs /\ done' = done \cup {t}
    /\ \/ /\ t.kind = "settle" /\ chain.status = "open" /\ t.cum > chain.settled
          /\ chain' = [chain EXCEPT !.settled = t.cum]
       \/ /\ t.kind = "apply" /\ InGrace /\ t.cum > chain.settled
          /\ \E s \in {"sealed", "distributed"} : Seals(s, t.cum, "voucher")
       \/ /\ t.kind = "close" /\ (chain.status = "open" \/ InGrace) /\ t.cum > chain.settled
          /\ Seals("distributed", t.cum, "voucher")
       \/ /\ t.kind = "close_bare" /\ (chain.status = "open" \/ InGrace)
          /\ Seals("distributed", chain.settled, "voucher")
       \/ /\ t.kind = "seal" /\ PastGrace
          /\ \E s \in {"sealed", "distributed"} : Seals(s, chain.settled, "deadline")
       \/ /\ t.kind = "distribute" /\ chain.status = "sealed"
          /\ chain' = [chain EXCEPT !.status = "distributed"]
    /\ UNCHANGED <<server, txs, clock>>

RequestClose ==
    /\ chain.status = "open" /\ clock + Grace <= MaxClock
    /\ chain' = [chain EXCEPT !.status = "closing", !.closed = clock]
    /\ UNCHANGED <<server, txs, done, clock>>

Crank ==
    /\ \/ PastGrace /\ Seals("sealed", chain.settled, "deadline")
       \/ chain.status = "sealed" /\ chain' = [chain EXCEPT !.status = "distributed"]
    /\ UNCHANGED <<server, txs, done, clock>>

Tick ==
    /\ clock < MaxClock /\ clock' = clock + 1
    /\ UNCHANGED <<server, chain, txs, done>>

Next ==
    \/ \E r \in Requests : Request(r)
    \/ \E f \in Finalizers : Finalizer(f)
    \/ \E q \in Claimers : Claimer(q)
    \/ \E k \in Closers : Closer(k)
    \/ \E p \in Processes : Crash(p)
    \/ \E t \in txs : Land(t)
    \/ RequestClose \/ Crank \/ Tick

Spec == Init /\ [][Next]_vars

-----------------------------------------------------------------------------
(***************************************************************************)
(* Safety                                                                  *)
(***************************************************************************)

(***************************************************************************)
(* One voucher runs the resource handler at most once, through retries,    *)
(* lost store answers, crashes and expired leases: reserve_authorization   *)
(* never hands out an authorization that may have been served.             *)
(***************************************************************************)
HandlerRunsOnce == \A v \in Vouchers : served[v] <= 1

(***************************************************************************)
(* What the handler served is charged, or its reservation is still on      *)
(* record and steps from the watermark, so that a retry can charge it,     *)
(* unless a close fenced the channel: no release, commit or prune loses    *)
(* it and no other voucher steps past it.                                  *)
(***************************************************************************)
ServedIsAccounted ==
    \A v \in Vouchers :
        served[v] > 0 => \/ v \in charged
                         \/ \E p \in Of(ch.pending, v) : ch.cum + p.amt = v
                         \/ ch.final # NoFence \/ ch.sealed

(***************************************************************************)
(* What with_store says of its admission window: "A voucher admitted on a  *)
(* snapshot that predates a payer's close must still commit and be sealed  *)
(* before that close's grace period ends" (batch_settlement.rs:758-759).   *)
(* It may commit while its lease lives and the finalizer waits for live    *)
(* leases, so the lease has to end within the grace period.                *)
(***************************************************************************)
LeaseFitsGrace ==
    \A p \in ch.pending :
        Live(p, clock) /\ chain.status # "open" => p.exp < chain.closed + Grace

(***************************************************************************)
(* A channel this server sealed with a voucher was sealed at everything it *)
(* charged: no delayed commit slips in behind plan_close's choice or       *)
(* behind the fence of a cooperative close.                                *)
(***************************************************************************)
SealRedeemsCharges == chain.by = "voucher" => chain.settled = ch.cum

(***************************************************************************)
(* Nothing is settled on chain that no request was charged for, and what   *)
(* the record shows as settled was settled: settled_on_chain runs ahead of *)
(* the onchain watermark only where a cooperative close was recorded       *)
(* although the deadline sealed the channel.  A recorded close never       *)
(* reports a larger refund than the one paid, and reports exactly that one *)
(* when the channel was sealed with a voucher.                             *)
(***************************************************************************)
RecordedIsSettled ==
    /\ chain.settled = 0 \/ chain.settled \in charged
    /\ ch.claimed > chain.settled => ch.closedAt # 0 /\ chain.by = "deadline"
    /\ ch.closedAt # 0 =>
         /\ chain.status = "distributed" /\ chain.settled <= ch.closedAt
         /\ chain.by = "voucher" => chain.settled = ch.closedAt

-----------------------------------------------------------------------------
(***************************************************************************)
(* Fairness.  The clock advances, the finalizer keeps being rescheduled,   *)
(* and a transaction that stays valid and is in a node's hand lands.       *)
(* Nobody outside the server is assumed to crank the channel.  A payer     *)
(* keeps presenting the payment an earlier request was served for, and     *)
(* the chain read of such a retry does not fail for ever.                  *)
(***************************************************************************)
Retries(r) == \E p \in ch.pending : p.ok /\ Verify(r, [cum |-> p.cum, amt |-> p.amt])

Retrying(r) == \E p \in Of(ch.pending, pay[r].cum) : p.ok

Continues(r) ==
    Reconcile(r) \/ Fetch(r) \/ Observe(r) \/ Reserve(r)
    \/ ReleaseAuthorization(r) \/ MarkHandlerSucceeded(r) \/ FinishCommit(r)

FairSpec ==
    /\ Spec
    /\ WF_vars(Tick)
    /\ \A f \in Finalizers : WF_vars(Finalizer(f))
    /\ \A t \in Txs : WF_vars(Land(t))
    /\ \A r \in Requests :
         /\ WF_vars(Continues(r))
         /\ SF_vars(Retries(r))
         /\ SF_vars(Retrying(r) /\ Fetch(r) /\ pc'[r] = "observe")

(***************************************************************************)
(* A forced close ends: finalize_close seals, distributes and records it   *)
(* even when crashed requests left their reservations behind.              *)
(***************************************************************************)
ClosingIsSealed == (chain.status = "closing") ~> (chain.status = "distributed" /\ ch.sealed)

(***************************************************************************)
(* A handler recorded as succeeded is charged: a retry of its payment      *)
(* resumes the commit that a crash interrupted.  A channel that is being   *)
(* closed is excepted: reserve refuses it before it looks the payment up.  *)
(***************************************************************************)
MarkedIsCharged ==
    \A v \in Vouchers :
        (\E p \in Of(ch.pending, v) : p.ok)
          ~> (v \in charged \/ ch.closing \/ chain.status # "open")

=============================================================================

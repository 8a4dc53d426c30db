# Verification of pay-kit

TLA+ models of the payment logic of `rust/crates/kit`, the TLC runs that check
them on small instances, and TLAPS proofs about them.  The Rust crate is the
reference; the other languages of the repository are ports of it.  Source
paths below are relative to `src/rust/crates/kit/src/`.

`PROJECT.json` lists the components, runs, mutants, findings, hazards and
theorems, and maps every definition to the lines it models.

## The system

pay-kit puts a paywall in front of an HTTP route.  The server answers a
request with a 402 challenge, the client pays and repeats the request with a
proof of payment.  Two protocols (MPP and x402) share stores, RPC access and
payment channels.  What makes it hard is that money moves on a chain the
server only sees through RPC nodes, that a request is served by any of several
replicas which share nothing but a key-value store, and that a client retries
whatever it got no answer to.

| Part | State it keeps | Operations | What makes it correct |
|---|---|---|---|
| MPP charge (`mpp/server/charge.rs`) | charge records by generation, consumed signatures | verify, reserve, broadcast, reconcile, confirm, withdraw | one receipt per challenge and per transaction; a payment is never failed while it may land; what landed is confirmed |
| Consumed-signature ledger (`core/store.rs`) | a ledger key and legacy keys per signature | claim, claim pending, confirm, release | a signature authorizes one response, across protocols and releases |
| x402 exact (`x402/server/exact.rs`, `core/rpc.rs`) | a pending or consumed claim | send, poll, resume, confirm, release | served once, only for an executed payment; an executed payment can be served |
| x402 batch settlement (`x402/server/batch_settlement.rs`, `gate.rs`) | a channel record: watermark, reservations, fences, observations | reserve, serve, mark, commit, claim, close, finalize | the handler runs once per voucher; what was served is charged; what was charged is redeemed |
| MPP session (`mpp/server/session.rs`, `core/session.rs`) | a channel record: open intent, watermark, spent, uses, deliveries, top-ups | open, adopt, activate, retire; accept voucher, charge, deliver, commit, top up, close, seal | an escrow is spent once; what is served is vouched for, escrowed, charged once and sealed |
| x402 upto (`x402/server/upto.rs`, `gate.rs`) | the channels in flight, per process; the rest is on chain | open, run the handler, settle inline and in the background, distribute | a payer who may be charged gets the response; an opened channel is sealed and paid out |
| MPP subscription (`mpp/server/subscription.rs`) | reservations and records of activations, the binding of a subscription | activate, recover, publish, access | one challenge per activation; the binding follows the activation that landed last; a paid activation is bound |
| MPP channel charge | a write-ahead record | submit, reconcile | at most the authorized amount, once |
| Settlement worker (`core/settlement`) | a queue, a batch, flush and confirmation tasks | gather, pack, send, confirm, resend alone | every submitter is answered, truly; one failing channel does not fail the others |
| Transaction pipeline (`core/tx_pipeline.rs`) | shared send, confirmation and read-back queues | submit, confirm, read | every caller is answered for its own signature |
| Channel stores (`core/store.rs`) | records in memory or in Redis | read, update by compare-and-set | an update is atomic or refused |
| Gate, clients, protocol types | little or none | route, sign, parse | stateless, or one call into a part above |

The parts meet in the store (every replica reads and writes the same records),
on the chain (a transaction handed to a node may land late, twice offered, or
never) and in time (leases, challenge expiry, grace periods of closes).

## Modules

| Module | Models |
|---|---|
| `ChargeRecords` | the operators of a charge record: a chain of generations, its tip, appends |
| `ChargeSettlement` | request handlers running `verify_bound` against the records, the ledger and a node |
| `ChargeLedger` | abstract: one phase per challenge (free, reserved, pending, confirmed, failed) |
| `ChargeRefinement` | the refinement mapping and the liveness properties of charges |
| `ChargeInvariants` | the inductive invariant of the charge proofs |
| `ChargeSettlementProofs` | proofs about `ChargeSettlement`: records, handlers, the broadcast fence |
| `ChargeReceiptProofs` | proofs about its receipts, and of the refinement of `ChargeLedger` |
| `ConsumedSignatures` | the ledger of one signature, key by key, with replicas of the previous release |
| `SignatureClaims` | abstract: claim, release and confirm as single steps |
| `ExactSettlement` | concurrent requests presenting one x402 exact payment |
| `BatchChannel` | the transitions of a batch-settlement channel record |
| `BatchSettlement` | paid requests, claims, cooperative and forced closes on one channel |
| `BatchSettlementProofs` | proofs about it |
| `UptoSettlement` | requests on one x402 upto authorization, from the open to the payout |
| `X402SettlementProofs` | proofs about `ExactSettlement` and `UptoSettlement` |
| `SettlementWorker` | the batched-settlement actor, its flush tasks and its confirmation tasks |
| `SettlementWorkerProofs` | proofs about it |
| `SessionOpen` | the open of one session channel: reservation, landing, adoption, retirement |
| `SessionOpenProofs` | proofs about it |
| `SessionAccounting` | vouchers, charges, deliveries, top-ups and closes of one session channel |
| `SessionAccountingProofs` | proofs about it |
| `SubscriptionActivation` | activations of one subscription, from the reservation to the binding, and access by its proof |
| `ClaimsProofs` | proofs about `ConsumedSignatures`, its refinement included, and `SubscriptionActivation` |
| `MCCharge*`, `MCMppLive`, `MCClaims`, `MCX402`, `MCBatch`, `MCBatchScenes`, `MCWorker`, `MCSession`, `MCSessionOpen` | instances for TLC |

### Charges

One step is one store call, one RPC call, or the local code between two of
them.  `recs[c]` is the chain of generations of a challenge: an update of the
Rust code reads the tip (`ReadTip`) and appends the next generation with
`put_if_absent` (`AppendNext`), so two handlers meet at the append.  `reserve`
is `CheckOrphan`, `AppendRoot`, `RecheckOrphan`, `DeleteRoot`, `Classify` and
`TakeOver`; `broadcast_pull` is `BeginClaim`, `SendAccepted`, `SendRejected`,
`SendLost`, `AwaitConfirmation` and `AbandonRelease`; push credentials are
`VerifyPush` and `ConsumePush`; a pending record is resolved by `Reconcile`.
`Crash` stops a handler anywhere.  `record_confirmed` (`store.rs:700`), by which
a channel charge confirms a record it does not own, is left out with the channel
charges that call it (`charge.rs:1322`).  A store call may fail before or after it
took effect (`StoreMayFail`).  A transaction is a signature: what its
instructions do is outside the model.

`sends` and `receipts` are histories: what was handed to a node, and what was
granted.

### Consumed signatures and x402 exact

`ConsumedSignatures` models `claim_with` and its relatives for one signature:
each legacy key and the ledger key is a call of its own, a refused claim gives
back what it took, and `OldClaim` is a replica of the previous release, which
knows one legacy key.  `SignatureClaims` is what callers rely on.

`ExactSettlement` takes claims as single steps, which the refinement above
justifies for completed claims.  Two things that refinement does not rule out
stay with `ConsumedSignatures`: a claim may be refused because another one is
half way, and a caller that crashes half way leaves its legacy keys taken.
The module follows `settle_exact` and `send_and_confirm_settlement`, with a
node that refuses, loses answers or lags and with blockhashes that expire.

### Batch settlement

`BatchChannel` holds what each atomic store transition computes from the record
it finds; an authorization is named by the cumulative amount of its voucher,
its request fingerprint is the price of the route.  `BatchSettlement` gives
every process its own steps between them: a request verifies, reconciles with
the chain (`Reconcile`, `Fetch`, `Observe`), reserves, serves or declines,
marks and commits; a finalizer runs `finalize_close` (`Lookup`, `PlanClose`,
`AwaitSeal`, `RecordSeal`); a claimer runs `claim`; a closer runs
`cooperative_close` (`Refund`, `FenceCooperativeClose`, `AwaitClose`,
`CheckClose`, `RecordClose`).  The program on chain (`Land`, `Crank`), the
payer (`RequestClose`) and the clock are external: their rules (a strictly
increasing watermark, voucher seals only within the grace period, plain seals
only after it) are the ones the Rust code relies on.

The channel starts as its opening deposit leaves it.  Opening and top-up
deposits, payouts of an open channel, reclaim and the removal of records of
absent accounts are not modelled.  Chain reads by workers and refunds are
current; only admission reads may lag (`MaxLag`).  The clock may advance between
any two steps, at every await of a request or a close.

### x402 upto

One authorization.  Nothing is stored, so the module has the channel account,
the transactions and what each request's task remembers.  `PrepareOpen` takes
the in-flight guard and looks at the account (`Shows`, which may answer from a
lagging node), `SendOpen` and `ConfirmOpen` are `verify_open_for_route`, `Run`
is the handler with its buffered body, dropped requests included
(`OpenedUpto`).  `SettleActual` and `PollSettlement` are one attempt of
`settle_actual`, `ResolvePending` a round of `resolve_pending`, `Failed` and
`Undecided` what `settle_served_upto_with` does next: the inline attempts, the
decision about the response, and the background attempts, which settle the
metered amount (`Amount`) for a released response and zero for a withheld one.
`Bundle` is the choice of `payer_refund` to seal without paying out,
`DistributeSealed` the later payout.  A response whose body never completed is
charged what it metered and answers 502; `verdict` is the decision about the
payment, not about the body.

The payer, the program and the clock are external.  The deadline of a deferred
payout counts from the open and is let pass once the channel is sealed, which
is where it is read.  A payer who withdraws its refund from a sealed channel,
and `settle_actual_deferred`, which hands the settlement to the worker, are
left out.

### Settlement worker

`Receive`, `Linger` and `Drain` are the actor's loop: a full batch is flushed,
a partial one when its timer fires, the last one when every handle is gone.
`FlushTask` packs the batch greedily (`Regroup`) and sends each group under a
permit; an oversized unit goes out alone.  A sent group is answered at once or,
for `settle_confirmed`, by its `ConfirmTask`, which settles the channels of a
failed packed transaction one by one.  A payer may close a channel at any time
(`bad`), after which every transaction that settles it fails as a whole; sends
are refused or lost, transactions land late or never.

### Sessions

`SessionOpen` is `process_open` and the host's reconciliation for one signed
open: read the record, observe the adoption floor and the blockhash, reserve
the durable intent, submit, and then activate, retire as landed elsewhere, or
retire as expired once the transaction is proved dead.  A slot is a number;
`slot` and `final` are the confirmed and finalized slot, RPC answers may be
older, and the slot the floor comes from is cached for `CacheAge` slots and
answered by a node up to `MaxLag` slots behind (`SlotAnswers`), possibly behind
the start of the server (`since`), since `getSlot` asks for no minimum context
slot.  `behind` remembers that this happened for an open that had landed.
`Init` has rows of an older release, whose intent has no floor.  `Restart` loses
the records of a memory store.

`SessionAccounting` has the channel once it is active.  A handler's work is a
record in `job`: it read the channel, talks to the chain or verifies, and then
runs one atomic store update, whose reply may be lost.  `VoucherRead` and
`CommitVoucher` are `accept_voucher_with_commit`; `ChargeBegin`, `ChargeRead`,
`CommitCharge` and `ChargeRetry` the operator-signed charge with its bounded
retries and `processed_uses`; `BeginDelivery`, `RecordUsage` and
`CommitDelivery` the metered deliveries; `TopUpRead` to `CreditTopUp` a top-up;
`Close`, `SealParams`, `SealLands`, `MarkSealed` and `ObserveClosed` the ends
of a channel.  The host is taken to seal only a channel whose close is
recorded.  Delivery expiry, `min_voucher_delta` and the retention of committed
deliveries are not modelled.

### Subscriptions

`SubscriptionActivation` has the activations of one payer for one plan.  A
request reads whether the delegation exists (`PresentActivation`), reserves the
signature with its two store calls (`ReserveSignature`, `ReadReservation`),
sends and polls where there is no delegation yet (`Broadcast*`,
`PollActivation`, `ReleaseReservation`), and binds what landed:
`FetchDelegation`, then `publish_activation_binding` as `ReadBinding`,
`ClaimActivation` (the record per activation, written once), `Publish` with
`Contended` (compare-and-set of the subscription's binding) and `Answer`.
`Access` and `GrantAccess` are `verify_access_credential`.  `SubInit` has what
a previous release may have left: a binding without a slot and without a
record.  A read of a record and the `put_if_absent` behind it are one step,
because a record never changes once it is written.

Challenges stand for whoever holds them: the checks of a credential (terms,
authentication, instruction scope) happen before the first step, and an
activation is a signature.  Slots are numbers that only order landings; the
cluster moves on when a delegation is closed.  RPC history is taken to be
consistent: a node that no longer reaches a landing has nothing older, as
`publish_activation_binding` assumes.  `verify_active_subscription` keeps no
state and is left out.

## Runs

Passing runs:

| Run | Shows |
|---|---|
| `charge_pull` | two handlers, two competing pull credentials, lease takeovers, lost answers, store errors, a crash: one receipt, the broadcast is fenced, failures are final, and every step refines `ChargeLedger` |
| `charge_mixed` | two challenges and one pushed transaction presented for both, a pull credential beside it, store errors and roots that expire early: a transaction buys one receipt, and only if it executed |
| `mpp_live` | a broadcast that landed is confirmed or failed in the end, and no handler is caught in a loop; an activation that landed is bound in the end, whoever presents it again |
| `claims` | three claims of one signature beside two old replicas, or beside a store that fails before or after taking effect, one caller stopping half way: the ledger behaves as one atomic claim and serves once; two requests under two challenges over an activation and the next one, on a store with or without a binding of the previous release: an activation is good for one challenge, and the binding never goes back |
| `x402_single` | exact: two overlapping presentations with every fault are served once and only if paid, and where they do not overlap releases are safe and an executed payment is served; upto: two requests on one authorization, with lost, refused and expired transactions, disconnects, stops and acts of the payer: a payer who may be charged gets the response, one server releases one, and the channel is sealed and paid out in the end |
| `batch` | two replicas, three vouchers, two prices, store errors, a crash, expired leases, lagging reads; or request, claim, cooperative close, forced close, strangers that seal and finalizer on one channel: no double execution, no lost charge, voucher seals redeem every charge, only charged amounts settle, and no settlement is recorded that did not happen, a close overtaken by the deadline excepted |
| `batch_live` | a forced close is sealed, distributed and recorded despite abandoned reservations and crashes, and a served and marked payment is charged by a retry |
| `session_open` | two requests or reconciliations of one open, with lagging nodes, a landing by another endpoint, failures and restarts that may lose the store: the escrow is spent once (unless a slot from before the restart is read for an open that had landed), only funded opens are used, only dead ones are retired, and a pending one is resolved |
| `session` | two requests in flight race over vouchers, operator charges, a delivery, two top-ups, closes and a lost reply: what is served is vouched for, escrowed, charged once and sealed |
| `worker` | three settlements, two of which fit one transaction: no channel is in two live transactions, answers are true, a failure is a channel's own, and every submitter is answered |

The two schemes of `x402_single` share no state; `MCX402` lets a behaviour be
about one of them (`scheme`) and finds the payment of the other spent.
`MCClaims` (`claims`) and `MCMppLive` (`intent`) do the same for the parts they
hold.  `MCBatchScenes` (`scene`) has one model and two scenes of it, each with
the processes it is about; a behaviour stays in its scene.

Every module states its type invariant.  The runs leave it out: where a module
has proofs it is proved with its inductive invariant.

Two runs end in a violation, a disagreement between the code and what a comment
of it says (quoted in `PROJECT.json`):

| Run | Shows |
|---|---|
| `charge_shared` | `abandon` frees a signature while its pending record is visible; one transaction buys two receipts |
| `batch_lease` | `with_store` bounds snapshot age plus lease by the grace period, but the age is checked in `reconcile_channel` and the lease begins at the reservation; a request delayed between them holds a lease that outlasts the grace period of a close its snapshot predates |

### Observations

Behaviours of the code that differ from a comment or doc and that the modules
reach outside the runs above.  Where only constants or bounds differ from a
run, they are named.

- Charge, `charge.rs:2037`: a transaction that preflight refused "was never
  forwarded, so the payer may present it again", but the caller of
  `broadcast_pull` marks the restored reservation failed (`SendRejected`,
  `AbandonRelease`, then `AppendNext` of a failure).
- Charge, `charge.rs:4414`: a retry after the owner stopped behind the
  confirmed record is not "returned idempotently"; it is rejected with
  `signature_consumed`.
- Charge, `store.rs:605`: a reserver that stalls past its lease finds the
  takeover of its own reservation, takes it for a retention fault and deletes
  the root.  The pending record is then unreachable and a payment that landed
  is never confirmed, where `charge.rs:1467` has a retry reconcile it.
  `OutcomeIsRecorded` fails with a lease shorter than the clock.
- Ledger, `store.rs:208`: an error of a ledger-key write that took effect gives
  the legacy keys back, and a replica of the previous release serves the
  payment again.  `OneServed` therefore counts the callers of this release
  alone where the store fails (`Accountable`).
- Exact, `exact.rs:822` and `:835`: for overlapping presentations
  `ReleaseIsSafe` and `PaidIsServed` fail, so they are stated for behaviours
  that are `calm`.  A first sender that is refused at preflight releases, or
  consumes unserved, the claim that a concurrent request resumed and sent.
- Batch, `batch_settlement.rs:4205`: "The channel is `Distributed` or
  deallocated: the close landed."  A cooperative close that the payer's forced
  close overtook finds the channel distributed after the grace deadline, takes
  it for its own (`CloseRetry::Closed`), records a refund smaller than the one
  paid and moves `settled_on_chain` ahead of the chain.  `RecordedIsSettled`
  excepts exactly this (`chain.by = "deadline"`), and `batch` reaches it.
- Upto, `upto.rs:1466`: the in-flight set is per process and the account read
  may lag, so requests on two servers can both run the handler on one
  authorization; when the second settlement's outcome is unknown both responses
  are released and one is paid.  `OneRelease` is stated for one server and
  current reads.
- Upto, `upto.rs:742`: an open that landed but whose confirmation or read
  failed is forgotten by the server, and a retry is refused because the account
  exists.  Only the payer can close that channel.
- Upto, `payer_refund.rs:14`: the deferral ends "once the channel has been
  sealed for its grace period"; `distribute_sealed` counts it from the open.
- Session, `core/session.rs:186`: `charged` is said to be right under
  concurrency, but it and `min_voucher_delta` are computed from the watermark
  read before the update.
- Session, `session.rs:2837`: a commit relies on `freeze_watermark_at`, which
  the session server never calls.  After a forced close a delivery committed
  between `seal_params` and the seal is charged and not redeemed;
  `SpentIsRedeemable` is stated for closes that fixed their final amount.
- Session, `session.rs:1392`: an open that landed elsewhere is not to be
  adopted, but the floor comes from a slot cached for `slot_cache_ttl`
  (`tx_pipeline.rs:495`), so one that landed within that time is.
  Two endpoints that share the challenge secret, both with a floor below the
  landing slot, both adopt it.
- Session, `session.rs:3726`: adopting a channel that "a lost ledger" opened is
  to be ruled out by the slot recorded before the broadcast.  A server whose
  memory store was lost and whose `getSlot` (`tx_pipeline.rs:502`) is answered
  by a node behind the restart records a floor below the old landing, adopts the
  open again and serves the escrow a second time.  `EscrowServedOnce` excepts
  this (`behind`); without the exception `session_open` finds it.
- Session, `session.rs:1654`: replaying an open renews the channel snapshot
  with the time of the update and no slot, not with what was observed.
  A refresh that finds itself behind returns an error, so the Redis store drops
  the fences that observation carried.
- Session: `verify_voucher` ignores the capacity that `begin_delivery`
  reserved, and a voucher whose store reply is lost is debited while its retry
  is refused as already accepted.
- Subscription, `subscription.rs:1145`: a refused send is taken for one that
  was "never sent", and its reservation is deleted, although an earlier send of
  the same bytes may be about to land or the reservation be another request's.
  `BoundOnce` holds all the same, because the activation record decides.
- Channel store, `store.rs:2757`: the doc of an update that changes nothing
  describes a compare-and-set that the code no longer makes.

### Bounds

Two handlers suffice for every race the code distinguishes (an owner and the
one that takes over, a sender and a resumer); the ledger part of `claims` uses
three, so that a third can meet what two left behind.  The clock is bounded at
a few leases: in `charge_pull` a lease runs out twice, in the batch runs the
clock covers a lease, the grace period and the expiry of a lease taken late.
`Lease`, `SnapshotAge` and `Grace` keep the relation the configuration check
enforces at its tightest (1 + 1 < 3).  `MaxGenerations` in the charge runs is
large enough for a takeover, a withdrawal and an outcome.  `MaxReservations`
bounds how often a declined voucher is reserved again, `MaxCommitted` 1 makes
pruning happen at once, `MaxCrashes` 1 or 2 allows a crash at any step and one
more behind it.  Of the two scenes of `batch`, the one that serves has two
requests at a time, a crash and lagging reads on an open channel, up to the
clock at which a lease taken late runs out; the one that closes has every
process of a channel, requests one after the other with one reservation between
them, current reads and no crash, and its clock reaches the end of the grace
period.  `batch_live` has one request, one finalizer, a crash and one
reservation; `batch_lease` one request and no crash.

In the upto part of `x402_single` a lost, refused or expired transaction, a
lagging read, an act of the payer and a stop each use up one fault.  Requests
on one server meet two of them and have three attempts, two of them inline, so
that an attempt can land behind one that failed and a settlement always gets
through in the end; requests on two servers, whose interleavings are many,
meet one.  The deposit is one unit: what matters is zero, part of the deposit
or all of it, and with one unit zero is the part that leaves a refund.

In `session` the deposit covers one request and a top-up pair another,
`MaxUses` 1 makes the second key evict the first, and one lost reply is enough
to repeat any update.  In `session_open` the blockhash expires and the
`openSlot` window ends within the slots of the run, a slot answer is up to two
slots old, and one fault is a failed request or a restart, which is all that a
lost store needs.  In `worker` two of three
units fit one transaction, one unit is oversized, one send is in flight at a
time, the queue holds one unit and one channel is closed under the worker.

The subscription part of `claims` starts with one activation landed and its
delegation live, bound by nobody or by a previous release, and has a second
one to land when the delegation has lapsed and was closed; a stop, a lost or
groundlessly refused send and a lagging read use up the one mishap.
`PublishAttempts` 2 (8 in the code) lets a race be lost once and twice.
`mpp_live` has one activation and two challenges.

Deadlock is not checked: every instance ends with its clock,
its attempts or its payment used up.  Symmetry is used over handlers in safety
runs only.

### Fairness

Charges: handlers that run keep running, a client whose charge is unresolved
keeps presenting it (strong fairness, since handlers may be busy), and a node
in the end answers a status query about a transaction that landed.  Landing is
not assumed.  Exact: the same, and a send in the end gets an answer.  Batch
settlement: the clock advances, the finalizer is rescheduled by its worker loop, and
a transaction that stays valid in a node's hands lands; nobody else is assumed
to crank the channel.  Requests that run keep running, the payer presents the
served payment again, and the chain read it needs in the end succeeds.
Upto: a handler that runs ends and its settlement task goes on (it runs on its
own task, with timers), a settlement that no fault takes lands,
`distribute_sealed` is run again and again as its doc asks of the host, and
time passes; that the open lands is not assumed.  Worker: the actor, its timer
and its spawned tasks keep running; nothing is assumed of the chain, since
every poll is bounded.  Session open: the cluster makes progress, a request
runs to its end (its RPC calls time out), and the host keeps reconciling a
pending open, so that in the end a reconciliation reads a status that is not
behind (strong fairness).

Subscription: requests run to their end, the cluster executes an activation or
retires its blockhash, and the payer keeps presenting it, under any challenge
(strong fairness, since requests may be busy).

`mpp_live` keeps the lease longer than the clock, because with takeovers the
root deletion really defeats the property (observations); `PaidIsServed` is
restricted in the same way.

## Proofs

Every invariant, every step property and both refinements that a passing run
checks are also theorems: they hold for every value of the constants that
satisfies the named assumptions of the modules (types, positive bounds,
disjoint roles, finitely many requests).  Where a theorem needs more, the
hypothesis is part of its statement and named below.

### Charges

`ChargeSettlementProofs`, for any sets of handlers, challenges, credentials and
signatures and with store errors and crashes included:

- `TypeCorrect`: the type invariant.
- `ChargeInvariant`: `ChargeInv` is inductive.  It says how a chain of
  generations looks (no gaps, a terminal generation is the last, a pending one
  names its credential's signature), what a handler may rely on at each point
  (its reservation stands until the next generation exists, a checked record is
  still owned), and the fence: one handler per pending generation broadcasts or
  withdraws it, and what was handed over is followed only by its outcome.  None
  of the safety properties is inductive without these: a handler acts on a tip
  it read some steps ago, and only the append decides.
- `FenceHolds`, `FailureHolds`, `TerminalHolds`: `BroadcastIsFenced`,
  `FailureIsFinal`, `TerminalIsSticky`.

`ChargeReceiptProofs` adds a second inductive invariant on top of the first,
`ReceiptInv` (`ReceiptInvariant`).  A challenge is anchored to the credential of
its first written generation (`Anchor`), and every handler past `reserve` works
for that one; a claim on a signature has one holder (`ClaimsExclusive`), and a
signature that was sent stays consumed because its sender is the only one that
could hand it back; whoever is on the way to a receipt saw the transaction land;
and a receipt has used up what bought it (`UsedUp`), a pull receipt the one
confirmed record and a push receipt the claim.  From it:

- `ChallengeReceiptHolds` (`OneReceiptPerChallenge`), with no hypothesis;
- `SignatureReceiptHolds` (`OneReceiptPerSignature`) and
  `ChargeImplementsLedger` (`ImplementsLedger`) under `PullIsUnshared`: no other
  credential names the signature of a pull credential.  The run `charge_shared`
  shows what happens otherwise;
- `BackingHolds` (`ReceiptIsBacked`) under `OnlyServerSubmits`: a pull
  transaction carries the server's fee-payer signature and so cannot be
  submitted without it.  Push receipts need no proviso.

In the refinement each action is a step of the ledger or a stutter; `AllCompact`
says that a chain has no gap above its root and has a last generation, the one
the phase is read from.

### Ledger and subscriptions

`ClaimsProofs`, for any number of callers, legacy keys and old replicas:
`LedgerInvariant` (with a store that does not fail the keys a caller works on
are its own and nobody else holds them; whatever the store does, one caller at
most holds the ledger key), and from it `LedgerServesOnce`,
`LedgerClaimIsVisible` and the refinement `LedgerImplementsClaims`.
`LedgerLeavesNothing` is `NothingLeftBehind`: it needs that a legacy key of an
unclaimed signature is in the hands of a call that is still at work
(`KeysHaveHolders`).

Of the subscriptions neither `BoundOnce` nor `BindingAdvances` is
inductive, since a request acts on a binding it read long ago.  `SubInv` says
what stays true of such a read: its activation landed, every receipt given for
that activation is for its challenge, it is the activation's record or gave a
receipt itself (`Held`), and it is not ahead of the binding (`Behind`); while
the binding is one of a previous release, nobody has read another, so the
record made of it is that binding.  `ProvenInv` ties every receipt to the
record or the binding of its activation or to a later binding, which is why a
compare-and-set never publishes a record some receipt contradicts.  From it
`SubscriptionInvariant`, `ActivationBoundOnce` and `BindingMovesOn`, for any
store of a previous release and any number of failures.

### x402 exact and upto

`X402SettlementProofs`.  `ExactInvariant` relates the claim to what was served
and what each request has found out; from it `ExactTyped` and `ExactServesOnce`
(`ServedOnce`).  `ReleaseHolds` (`ReleaseIsSafe`) needs `CalmInv`: while
presentations do not overlap one request is at work, a free claim is for bytes
no node has or that failed, and a request keeps the right to give the claim back
only as long as that is so (`CleanAt`); one that resumed a claim knows of the
earlier send through `prior`.

`UptoInvariant`: `UptoInv` says of each request that its attempts were made in
order and its verdict falls with the last inline one (`InOrder`, `OnTrack`),
that an inline attempt that may have charged is one it still follows
(`Followed`), hence that a withheld response has none (`Harmless`), and that the
channel holds what the attempt that landed settled (`LandedIs`).  From this
`ChargedIsOwedHolds`.  `OneReleaseHolds` adds what holds between requests: a
server has one at work (`Exclusive`), and after one has passed the confirmation
of the open, no other of that server gets there while reads do not lag
(`PastAlone`).  `UptoTyped` is the type invariant, the in-flight set included.

### Batch settlement

`BatchSettlementProofs`, for any vouchers, prices, requests, workers and closes
and any delay of a landing.  `BatchTyped` is the type invariant.

- `ServeInvariant`: the record holds one reservation at most, which steps from
  the watermark; who is between `reserve` and `mark` holds that one, alone,
  and its voucher is unserved; tokens are not minted twice.  From it
  `HandlerOnceHolds` and `ServedAccountedHolds`.
- `FenceInvariant`: a transaction that seals with a voucher carries the
  watermark and was built behind a fence that keeps it there, one that seals
  without was built when everything charged was on chain, and a closer between
  its read and its end has read no more than is settled.  From it
  `SealRedeemsHolds` (`SealRedeemsCharges`).
- `RecordedHolds` (`RecordedIsSettled`), from the same invariant and with no
  hypothesis: time passes at every await.  The exception for a channel that the
  deadline sealed is part of the property, because the code makes it
  (observations).

### Sessions

`SessionOpenProofs`: `OpenInv` adds to the types what a handler carries: one that
activates has seen a landing above its floor, one that retires has proof that
the transaction is dead, and what was served is covered by the watermark of the
record or, after a restart without a durable store, by a landing at or below
every floor a handler or a row has, as long as no slot was read from behind the
server's start (`Trusted`).  From it `OpenTyped`, `EscrowOnce`, `RecordHolds` (`RecordTellsFate`)
and `ActiveStays`.

`SessionAccountingProofs`: `AccountInv` consists of `JobsInv` (the shape of
every job), `VoucherInv` (a watermark above the accepted one was never
reported), `DeliveryInv` (a delivery is pending, committed or untouched, with
what was paid to match), `TopUpInv` (the deposit is what the credited
top-ups add, and they are final), `MoneyInv` (spent, voucher and deposit are in
order, and a seal that waits took its amount when nothing more could be
charged) and `KeyInv` (the record of uses has one entry per key, which says what
the key was charged).  From it `VoucherOnce`, `DeliveryOnce`, `DepositHolds`,
`SpentHolds` and `KeyOnce`.  `AccountTyped` is the type invariant; with it the
record of uses is never longer than `MAX_PROCESSED_USES`.

### Settlement worker

`SettlementWorkerProofs`, for any units, sizes and limits.  `WorkerInv` says
that a unit is in one place (`ActorInv`, `FlushInv`), that what is still to be
packed was never sent and no two tasks confirm one unit (`TaskInv`), that a
group which is polled is in one transaction and what is still to be settled
alone only in transactions that failed (`TxInv`), and that a transaction fails
for a unit of its own or because it held several (`ReplyInv`).  From it
`OneLiveHolds` and `AnswersHold`.  `WorkerTyped` adds the semaphore: free
permits, flush tasks that send and lone sends add up to `max_in_flight_tx`.

### Induction

`regroup` packs a sequence, `record_use` filters one and a close adds up
reservations, so three facts rest on induction over data.  They are proved from
the well-foundedness of the numbers: a set of numbers has a least element
(`Least`, from the library's `WFMin`) and one closed under successor is all of
them (`Induct`), applied to the set of lengths or sizes for which the fact
holds.  The operators are recursive functions for this reason.

### Only model-checked

Liveness under fairness is out of the prover's reach and stays with TLC:
`OutcomeIsRecorded`, `EveryRequestIsAnswered`, `LandedIsBound`,
`ClosingIsSealed`, `MarkedIsCharged`, `PendingIsCharged`, `PaidIsServed`,
`OpenedIsPaidOut`, `PendingIsResolved`, `EveryUnitIsAnswered`,
`SiblingsAreSettledAlone`.

## Plan

1. Charges, consumed signatures, x402 exact and upto, subscription activations
   and the settlement worker — modelled and proved.
2. Batch settlement — vouchers and closes modelled and proved.  Next: opening
   and top-up deposits with their pending setup, payouts, reclaim, absent
   records.
3. Voucher sessions — modelled and proved.  Next: delivery expiry and retention.
4. `RedisChannelStore` as read and compare-and-set, refining the atomic
   update the channel modules use.
5. Channel charges, the transaction pipeline, batched voucher verification, the
   client's channel state.

Not planned: cryptography, byte-level encoding, instruction checks and header
parsing (stateless, better tested), generated code, the ports, the harness.

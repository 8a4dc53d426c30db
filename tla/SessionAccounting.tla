-------------------------- MODULE SessionAccounting --------------------------
(***************************************************************************)
(* The accounts of one MPP session channel (mpp/server/session.rs and      *)
(* core/session.rs): concurrent requests accept vouchers, charge operator- *)
(* signed requests, reserve and commit metered deliveries, credit top-ups  *)
(* and close the channel, while the payer may close it onchain.  A store   *)
(* update is atomic; what a handler read before it may be stale when it    *)
(* runs, and the reply to it may be lost.  A handler may fail at any await *)
(* (a refused snapshot, an RPC error, a conflict, a crash).  Expiry dates, *)
(* min_voucher_delta and the retention of committed deliveries are not     *)
(* modelled.                                                               *)
(***************************************************************************)
EXTENDS Integers, Sequences, FiniteSets, FiniteSetsExt

CONSTANTS
    Handlers,     \* requests in flight
    Keys,         \* idempotency keys of operator-signed requests
    Deliveries,   \* delivery ids
    TopUps,       \* signed top-up transactions, each adding one unit
    Deposit0,     \* the deposit the channel was opened with
    Price,        \* the price of one request (SessionConfig::amount)
    MaxTotal,     \* bound on the metered cost of one operator request
    MaxUses,      \* MAX_PROCESSED_USES
    Attempts,     \* OPERATOR_CHARGE_ATTEMPTS
    MaxLost       \* bound on store replies that are lost

ASSUME SessionAssumption ==
    /\ {Deposit0, MaxTotal, MaxLost} \subseteq Nat
    /\ {Price, MaxUses, Attempts} \subseteq Nat \ {0}
    /\ IsFiniteSet(TopUps) /\ IsFiniteSet(Deliveries)

VARIABLES
    mode,        \* voucher_signer: "client" or "operator"
    deposit, cum, spent,     \* the accounts; cum is the accepted watermark
    closing, fixed, sealed,  \* close_requested_at, final_cumulative, sealed
    uses,        \* processed_uses, oldest first
    credited,    \* processed_topup_signatures
    pending,     \* pending_deliveries: the amount of each, 0 for none
    committed,   \* committed_deliveries
    job,         \* what each handler is doing
    lost,        \* store replies lost so far
    status,      \* the channel onchain: "open", "closing" or "sealed"
    settled,     \* its settled watermark
    landed,      \* each top-up onchain: "none", "confirmed" or "final"
    ours,        \* history: this server's transaction sealed the channel
    accepted,    \* history: fresh acceptances reported, by watermark
    charged,     \* history: what each key was charged since it was last evicted
    asked,       \* history: the largest total asked for under each key since then
    directed,    \* history: what each delivery reserved
    paid         \* history: what was charged for it

account == <<deposit, cum, spent, closing, fixed, sealed, uses, credited,
             pending, committed>>
chain == <<status, settled, landed, ours>>
history == <<accepted, charged, asked, directed, paid>>
vars == <<mode, account, job, lost, chain, history>>

Idle == [op |-> "none"]

Amounts == 0 .. Deposit0 + Cardinality(TopUps)

TypeOK ==
    /\ mode \in {"client", "operator"}
    /\ {deposit, cum, spent, settled} \subseteq Nat
    /\ {closing, fixed, sealed, ours} \subseteq BOOLEAN
    /\ uses \in Seq([key : Keys, total : Nat]) /\ Len(uses) <= MaxUses
    /\ credited \subseteq TopUps
    /\ pending \in [Deliveries -> Nat] /\ committed \subseteq Deliveries
    /\ \A h \in Handlers : job[h].op \in {"none", "voucher", "charge", "topup", "seal"}
    /\ lost \in 0..MaxLost
    /\ status \in {"open", "closing", "sealed"}
    /\ landed \in [TopUps -> {"none", "confirmed", "final"}]

Init ==
    /\ mode \in {"client", "operator"}
    /\ deposit = Deposit0 /\ cum = 0 /\ spent = 0
    /\ closing = FALSE /\ fixed = FALSE /\ sealed = FALSE
    /\ uses = <<>> /\ credited = {}
    /\ pending = [d \in Deliveries |-> 0] /\ committed = {}
    /\ job = [h \in Handlers |-> Idle] /\ lost = 0
    /\ status = "open" /\ settled = 0 /\ ours = FALSE
    /\ landed = [t \in TopUps |-> "none"]
    /\ accepted = [a \in Amounts |-> 0]
    /\ charged = [k \in Keys |-> 0] /\ asked = [k \in Keys |-> 0]
    /\ directed = [d \in Deliveries |-> 0] /\ paid = [d \in Deliveries |-> 0]

-----------------------------------------------------------------------------
Do(h, j) == job' = [job EXCEPT ![h] = j]

Open == ~sealed /\ ~closing

Lost == lost < MaxLost /\ lost' = lost + 1

Reserved == MapThenSumSet(LAMBDA d : pending[d], Deliveries)

Fail(h) ==
    /\ job[h] # Idle /\ Do(h, Idle)
    /\ UNCHANGED <<mode, account, lost, chain, history>>

(***************************************************************************)
(* accept_voucher_with_commit: the checks on the record that was read,     *)
(* then, with the signature verified in between, the atomic update.        *)
(***************************************************************************)
VoucherRead(h, v) ==
    /\ mode = "client" /\ job[h] = Idle
    /\ Open /\ v <= deposit /\ (v > cum \/ (v = cum /\ cum > 0))
    /\ Do(h, [op |-> "voucher", v |-> v, seen |-> cum])
    /\ UNCHANGED <<mode, account, lost, chain, history>>

AcceptVoucher(v) ==
    /\ v > cum /\ v - spent >= Price
    /\ cum' = v /\ spent' = spent + Price
    /\ UNCHANGED <<deposit, closing, fixed, sealed, uses, credited, pending, committed>>

(***************************************************************************)
(* Whether the answer is a fresh charge or a replay is decided by the      *)
(* record the update ran on.                                               *)
(***************************************************************************)
CommitVoucherReplaysAsRead(h) ==
    /\ job[h].op = "voucher" /\ Open
    /\ \/ AcceptVoucher(job[h].v)
       \/ job[h].v = cum /\ cum > 0 /\ UNCHANGED account
    /\ accepted' = [accepted EXCEPT ![job[h].v] = IF job[h].v > job[h].seen THEN @ + 1 ELSE @]
    /\ Do(h, Idle)
    /\ UNCHANGED <<mode, lost, chain, charged, asked, directed, paid>>

CommitVoucherUnfenced(h) ==
    /\ job[h].op = "voucher" /\ ~sealed
    /\ AcceptVoucher(job[h].v)
    /\ accepted' = [accepted EXCEPT ![job[h].v] = @ + 1]
    /\ Do(h, Idle)
    /\ UNCHANGED <<mode, lost, chain, charged, asked, directed, paid>>

CommitVoucher(h) ==
    /\ job[h].op = "voucher" /\ Open
    /\ \/ /\ AcceptVoucher(job[h].v)
          /\ \/ accepted' = [accepted EXCEPT ![job[h].v] = @ + 1] /\ UNCHANGED lost
             \/ Lost /\ UNCHANGED accepted
       \/ job[h].v = cum /\ cum > 0 /\ UNCHANGED <<account, lost, accepted>>
    /\ Do(h, Idle)
    /\ UNCHANGED <<mode, chain, charged, asked, directed, paid>>

-----------------------------------------------------------------------------
(***************************************************************************)
(* recorded_use and record_use: one entry per request, the most recently   *)
(* charged MaxUses kept.                                                   *)
(***************************************************************************)
Holding(k) == {i \in DOMAIN uses : uses[i].key = k}

Recorded(k) == IF Holding(k) = {} THEN 0 ELSE uses[Min(Holding(k))].total

Without(k) ==
    LET kept[n \in 0..Len(uses)] ==
          IF n = 0 THEN <<>>
          ELSE IF uses[n].key = k THEN kept[n - 1] ELSE Append(kept[n - 1], uses[n])
    IN  kept[Len(uses)]

RecordUse(k, total) ==
    LET kept == Append(Without(k), [key |-> k, total |-> total])
        excess == Max({Len(kept) - MaxUses, 0})
    IN  /\ uses' = SubSeq(kept, excess + 1, Len(kept))
        /\ LET gone(j) == \E i \in 1..excess : kept[i].key = j
           IN  /\ charged' = [j \in Keys |-> IF gone(j) THEN 0
                                ELSE IF j = k THEN charged[j] + total - Recorded(k) ELSE charged[j]]
               /\ asked' = [j \in Keys |-> IF gone(j) THEN 0
                              ELSE IF j = k THEN Max({asked[j], total}) ELSE asked[j]]

Debit(k, total) ==
    /\ cum + total - Recorded(k) <= deposit
    /\ cum' = cum + total - Recorded(k) /\ spent' = spent + total - Recorded(k)
    /\ RecordUse(k, total)
    /\ UNCHANGED <<deposit, closing, fixed, sealed, credited, pending, committed>>

(***************************************************************************)
(* process_use: one update charges the fixed price, once per key.          *)
(***************************************************************************)
ProcessUse(k) ==
    /\ mode = "operator" /\ Open /\ Recorded(k) = 0
    /\ Debit(k, Price)
    /\ UNCHANGED <<mode, job, lost, chain, accepted, directed, paid>>

Charge(stage, k, total, base, before, left) ==
    [op |-> "charge", at |-> stage, key |-> k, total |-> total, base |-> base,
     before |-> before, left |-> left]

StartOver(h) ==
    Do(h, Charge("read", job[h].key, job[h].total, 0, 0, job[h].left))

(***************************************************************************)
(* charge_operator_request: read, sign, then commit if the watermark and   *)
(* the request's record are still the ones that were signed from; start    *)
(* over when they moved, or when a failed write finds the watermark moved. *)
(***************************************************************************)
ChargeBegin(h, k, total) ==
    /\ mode = "operator" /\ job[h] = Idle
    /\ Do(h, Charge("read", k, total, 0, 0, Attempts))
    /\ UNCHANGED <<mode, account, lost, chain, history>>

ChargeRead(h) ==
    /\ job[h].op = "charge" /\ job[h].at = "read" /\ job[h].left > 0
    /\ Open
    /\ \/ Recorded(job[h].key) >= job[h].total /\ Do(h, Idle)
       \/ /\ Recorded(job[h].key) < job[h].total
          /\ cum + job[h].total - Recorded(job[h].key) <= deposit
          /\ Do(h, Charge("commit", job[h].key, job[h].total, cum,
                          Recorded(job[h].key), job[h].left - 1))
    /\ UNCHANGED <<mode, account, lost, chain, history>>

Moved(j) == cum # j.base \/ Recorded(j.key) # j.before

CommitChargeBlind(h) ==
    /\ job[h].op = "charge" /\ job[h].at = "commit" /\ Open
    /\ LET j == job[h]
           delta == j.total - j.before IN
         /\ cum + delta <= deposit
         /\ cum' = cum + delta /\ spent' = spent + delta
         /\ uses' = Append(Without(j.key), [key |-> j.key, total |-> j.total])
         /\ charged' = [charged EXCEPT ![j.key] = @ + delta]
         /\ asked' = [asked EXCEPT ![j.key] = Max({@, j.total})]
    /\ Do(h, Idle)
    /\ UNCHANGED <<mode, deposit, closing, fixed, sealed, credited, pending,
                   committed, lost, chain, accepted, directed, paid>>

CommitCharge(h) ==
    /\ job[h].op = "charge" /\ job[h].at = "commit" /\ Open
    /\ LET j == job[h] IN
         \/ /\ Recorded(j.key) >= j.total
            /\ Do(h, Idle) /\ UNCHANGED <<account, lost, charged, asked>>
         \/ /\ Recorded(j.key) < j.total /\ Moved(j)
            /\ StartOver(h)
            /\ UNCHANGED <<account, lost, charged, asked>>
         \/ /\ Recorded(j.key) < j.total /\ ~Moved(j)
            /\ Debit(j.key, j.total)
            /\ \/ Do(h, Idle) /\ UNCHANGED lost
               \/ Lost /\ StartOver(h)
    /\ UNCHANGED <<mode, chain, accepted, directed, paid>>

ChargeRetry(h) ==
    /\ job[h].op = "charge" /\ job[h].at = "commit" /\ cum # job[h].base
    /\ StartOver(h)
    /\ UNCHANGED <<mode, account, lost, chain, history>>

-----------------------------------------------------------------------------
(***************************************************************************)
(* Metered deliveries: begin_delivery, record_delivery_usage and           *)
(* process_commit, whose earlier checks are repeated by its update.  Only  *)
(* a client signs the voucher a commit takes.                              *)
(***************************************************************************)
BeginDelivery(d, a) ==
    /\ Open /\ pending[d] = 0 /\ d \notin committed
    /\ cum + Reserved + a <= deposit
    /\ pending' = [pending EXCEPT ![d] = a]
    /\ directed' = [directed EXCEPT ![d] = a]
    /\ UNCHANGED <<mode, deposit, cum, spent, closing, fixed, sealed, uses,
                   credited, committed, job, lost, chain, accepted, charged,
                   asked, paid>>

RecordUsage(d, a) ==
    /\ pending[d] > 0 /\ a < pending[d]
    /\ pending' = [pending EXCEPT ![d] = a]
    /\ UNCHANGED <<mode, deposit, cum, spent, closing, fixed, sealed, uses,
                   credited, committed, job, lost, chain, history>>

CommitKeepsPending(d) ==
    /\ mode = "client" /\ ~sealed /\ ~fixed /\ pending[d] > 0 /\ d \notin committed
    /\ cum + pending[d] <= deposit
    /\ cum' = cum + pending[d] /\ spent' = spent + pending[d]
    /\ committed' = committed \cup {d}
    /\ paid' = [paid EXCEPT ![d] = @ + pending[d]]
    /\ UNCHANGED <<mode, deposit, closing, fixed, sealed, uses, credited, pending,
                   job, lost, chain, accepted, charged, asked, directed>>

CommitDelivery(d) ==
    /\ mode = "client" /\ ~sealed /\ ~fixed /\ pending[d] > 0
    /\ cum + pending[d] <= deposit
    /\ cum' = cum + pending[d] /\ spent' = spent + pending[d]
    /\ pending' = [pending EXCEPT ![d] = 0]
    /\ committed' = committed \cup {d}
    /\ paid' = [paid EXCEPT ![d] = @ + pending[d]]
    /\ UNCHANGED <<mode, deposit, closing, fixed, sealed, uses, credited, job,
                   lost, chain, accepted, charged, asked, directed>>

-----------------------------------------------------------------------------
(***************************************************************************)
(* process_topup_with_outcome and verify_submit_and_fetch_topup: the       *)
(* record is read, the transaction is sent and finalized, the finalized    *)
(* deposit is compared with the one that was read, and the update credits  *)
(* a signature once.                                                       *)
(***************************************************************************)
Finalized == {t \in TopUps : landed[t] = "final"}

TopUp(stage, t, base) == [op |-> "topup", at |-> stage, tx |-> t, base |-> base]

TopUpRead(h, t) ==
    /\ job[h] = Idle /\ Open
    /\ Do(h, TopUp(IF t \in credited THEN "credit" ELSE "submit", t, deposit))
    /\ UNCHANGED <<mode, account, lost, chain, history>>

TopUpAggregate(h) ==
    /\ job[h].op = "topup" /\ job[h].at = "submit" /\ status = "open"
    /\ Deposit0 + Cardinality(Finalized) >= job[h].base + 1
    /\ Do(h, TopUp("credit", job[h].tx, 0))
    /\ UNCHANGED <<mode, account, lost, chain, history>>

TopUpFinalized(h) ==
    /\ job[h].op = "topup" /\ job[h].at = "submit"
    /\ landed[job[h].tx] = "final" /\ status = "open"
    /\ Deposit0 + Cardinality(Finalized) >= job[h].base + 1
    /\ Do(h, TopUp("credit", job[h].tx, 0))
    /\ UNCHANGED <<mode, account, lost, chain, history>>

CreditTopUp(h) ==
    /\ job[h].op = "topup" /\ job[h].at = "credit"
    /\ \/ job[h].tx \in credited /\ UNCHANGED <<deposit, credited>>
       \/ /\ job[h].tx \notin credited /\ Open
          /\ deposit' = deposit + 1 /\ credited' = credited \cup {job[h].tx}
    /\ Do(h, Idle)
    /\ UNCHANGED <<mode, cum, spent, closing, fixed, sealed, uses, pending,
                   committed, lost, chain, history>>

-----------------------------------------------------------------------------
(***************************************************************************)
(* process_close: the final voucher pays for every reserved delivery and   *)
(* fixes the sealed amount.  An operator-signed session closes at its      *)
(* watermark.                                                              *)
(***************************************************************************)
Close(v) ==
    /\ Open /\ v <= deposit
    /\ IF mode = "operator" THEN v = cum ELSE v > cum \/ (v = cum /\ cum > 0)
    /\ Reserved > 0 => mode = "client" /\ v >= cum + Reserved
    /\ cum' = v /\ spent' = spent + Reserved
    /\ paid' = [d \in Deliveries |-> paid[d] + pending[d]]
    /\ pending' = [d \in Deliveries |-> 0]
    /\ closing' = TRUE /\ fixed' = TRUE
    /\ UNCHANGED <<mode, deposit, sealed, uses, credited, committed, job, lost,
                   chain, accepted, charged, asked, directed>>

(***************************************************************************)
(* seal_params, the host's settle-and-seal transaction, and mark_sealed.   *)
(* The host seals a channel whose close is recorded.                       *)
(***************************************************************************)
Seal(stage, amount) == [op |-> "seal", at |-> stage, amount |-> amount]

SealParams(h) ==
    /\ job[h] = Idle /\ closing /\ ~sealed /\ cum <= deposit
    /\ Do(h, Seal("send", cum))
    /\ UNCHANGED <<mode, account, lost, chain, history>>

SealLands(h) ==
    /\ job[h].op = "seal" /\ job[h].at = "send" /\ status # "sealed"
    /\ status' = "sealed" /\ ours' = TRUE
    /\ settled' = Max({settled, job[h].amount})
    /\ Do(h, Seal("mark", 0))
    /\ UNCHANGED <<mode, account, lost, landed, history>>

MarkSealed(h) ==
    /\ job[h].op = "seal" /\ job[h].at = "mark"
    /\ sealed' = TRUE /\ Do(h, Idle)
    /\ UNCHANGED <<mode, deposit, cum, spent, closing, fixed, uses, credited,
                   pending, committed, lost, chain, history>>

(***************************************************************************)
(* refresh_channel_snapshot shows a channel that is no longer open: it     *)
(* fences the record.                                                      *)
(***************************************************************************)
ObserveClosed ==
    /\ status # "open" /\ Open
    /\ closing' = TRUE /\ sealed' = (status = "sealed")
    /\ UNCHANGED <<mode, deposit, cum, spent, fixed, uses, credited, pending,
                   committed, job, lost, chain, history>>

-----------------------------------------------------------------------------
(***************************************************************************)
(* The payer and the cluster: top-ups land, may be forked out before they  *)
(* are final, and the channel may be closed without the server.            *)
(***************************************************************************)
TopUpMoves(t) ==
    /\ \/ status = "open" /\ landed[t] = "none" /\ landed' = [landed EXCEPT ![t] = "confirmed"]
       \/ landed[t] = "confirmed" /\ landed' = [landed EXCEPT ![t] = "none"]
       \/ landed[t] = "confirmed" /\ landed' = [landed EXCEPT ![t] = "final"]
    /\ UNCHANGED <<mode, account, job, lost, status, settled, ours, history>>

PayerCloses ==
    /\ \/ status = "open" /\ status' = "closing"
       \/ status = "closing" /\ status' = "sealed"
    /\ UNCHANGED <<mode, account, job, lost, settled, landed, ours, history>>

Handler(h) ==
    \/ CommitVoucher(h) \/ ChargeRead(h) \/ CommitCharge(h) \/ ChargeRetry(h)
    \/ TopUpFinalized(h) \/ CreditTopUp(h)
    \/ SealParams(h) \/ SealLands(h) \/ MarkSealed(h) \/ Fail(h)
    \/ \E v \in Amounts : VoucherRead(h, v)
    \/ \E k \in Keys, n \in 1..MaxTotal : ChargeBegin(h, k, n)
    \/ \E t \in TopUps : TopUpRead(h, t)

Next ==
    \/ \E h \in Handlers : Handler(h)
    \/ \E k \in Keys : ProcessUse(k)
    \/ \E d \in Deliveries :
         CommitDelivery(d) \/ \E a \in Amounts : RecordUsage(d, a) \/ (a > 0 /\ BeginDelivery(d, a))
    \/ \E v \in Amounts : Close(v)
    \/ ObserveClosed \/ PayerCloses
    \/ \E t \in TopUps : TopUpMoves(t)

Spec == Init /\ [][Next]_vars

-----------------------------------------------------------------------------
(***************************************************************************)
(* What was charged can be redeemed: a voucher covers it, the deposit      *)
(* covers the voucher, and a channel this server closed with a final       *)
(* voucher is sealed for all of it, whatever was accepted, charged or      *)
(* committed while the close went on.                                      *)
(***************************************************************************)
SpentIsRedeemable ==
    /\ spent <= cum /\ cum <= deposit
    /\ fixed /\ ours => settled >= spent

(***************************************************************************)
(* The deposit the server spends against is escrowed: a top-up is credited *)
(* once, and only once it can no longer be forked out, however many        *)
(* requests present it at a time.                                          *)
(***************************************************************************)
DepositIsEscrowed == deposit <= Deposit0 + Cardinality(Finalized)

(***************************************************************************)
(* A voucher is reported as a fresh charge at most once, however many      *)
(* requests present it concurrently, so it never serves two requests.      *)
(***************************************************************************)
AcceptedOnce == \A a \in Amounts : accepted[a] <= 1

(***************************************************************************)
(* An operator-signed request is charged no more than the largest total    *)
(* asked for under its key, whatever charges race it and whatever replies  *)
(* are lost, as long as the channel remembers it.                          *)
(***************************************************************************)
KeyChargedOnce == \A k \in Keys : charged[k] <= asked[k]

(***************************************************************************)
(* A delivery is charged at most what it reserved, by its commit or by the *)
(* close but not by both.                                                  *)
(***************************************************************************)
DeliveryChargedOnce == \A d \in Deliveries : paid[d] <= directed[d]

=============================================================================

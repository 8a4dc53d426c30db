----------------------- MODULE SessionAccountingProofs -----------------------
(***************************************************************************)
(* The accounts of a session channel, for any number of requests, keys,    *)
(* deliveries and top-ups and any number of lost replies: a voucher is     *)
(* accepted once, a key and a delivery are charged once, the deposit is    *)
(* escrowed, and what was spent can be redeemed.  The sum of the reserved  *)
(* deliveries and the record of uses are reached by induction through the  *)
(* least number of a set (Induct).                                         *)
(***************************************************************************)
EXTENDS SessionAccounting, FiniteSetTheorems, WellFoundedInduction, TLAPS

(***************************************************************************)
(* A watermark above the accepted one has never been reported as fresh,    *)
(* and no voucher is accepted in an operator-signed session.               *)
(***************************************************************************)
FitsVoucher(j) ==
    /\ j.op = "voucher" => mode = "client" /\ j.v \in Amounts
    /\ j.op = "charge" => mode = "operator"

VoucherInv ==
    /\ mode \in {"client", "operator"}
    /\ accepted \in [Amounts -> Nat]
    /\ \A h \in Handlers : FitsVoucher(job[h])
    /\ pending \in [Deliveries -> Nat]
    /\ mode = "operator" => \A a \in Amounts : accepted[a] = 0
    /\ mode = "client" =>
         /\ cum \in Nat
         /\ \A a \in Amounts : accepted[a] <= 1 /\ (a > cum => accepted[a] = 0)

(***************************************************************************)
(* What a delivery has still reserved and what was charged for it fit in   *)
(* what it reserved at first, and an id is used again only if nothing was  *)
(* charged for it.                                                         *)
(***************************************************************************)
DeliveryInv ==
    /\ pending \in [Deliveries -> Nat] /\ paid \in [Deliveries -> Nat]
    /\ directed \in [Deliveries -> Nat]
    /\ closing \in BOOLEAN
    /\ \A d \in Deliveries : /\ paid[d] + pending[d] <= directed[d]
                             /\ paid[d] > 0 => d \in committed \/ closing

(***************************************************************************)
(* The deposit is what was credited, a request credits a top-up only when  *)
(* it is final, and a final one stays.                                     *)
(***************************************************************************)
FitsTopUp(j) ==
    j.op = "topup" => /\ j.tx \in TopUps
                      /\ j.at = "credit" => j.tx \in Finalized

TopUpInv ==
    /\ landed \in [TopUps -> {"none", "confirmed", "final"}]
    /\ credited \subseteq Finalized
    /\ deposit = Deposit0 + Cardinality(credited)
    /\ \A h \in Handlers : FitsTopUp(job[h])

(***************************************************************************)
(* A voucher covers what was spent and the deposit covers the voucher.  A  *)
(* final voucher is taken only before the record is closing, after which   *)
(* nothing is charged, and a seal job took its amount after that.          *)
(***************************************************************************)
FitsMoney(j) ==
    /\ j.op = "voucher" => j.v \in Nat /\ j.v <= deposit
    /\ j.op = "charge" => j.key \in Keys /\ j.total \in Nat
    /\ j.op = "seal" =>
         closing /\ (j.at = "send" => j.amount \in Nat /\ (fixed => j.amount >= spent))

Redeemable ==
    /\ deposit \in Nat /\ cum \in Nat /\ spent \in Nat /\ settled \in Nat
    /\ spent <= cum /\ cum <= deposit
    /\ (fixed => closing) /\ (ours => closing)
    /\ fixed /\ ours => settled >= spent

MoneyInv ==
    /\ Redeemable
    /\ \A h \in Handlers : FitsMoney(job[h])

(***************************************************************************)
(* The record of uses holds one entry per key, which says what the key was *)
(* charged since it was last evicted.                                      *)
(***************************************************************************)
Distinct(entries) ==
    \A i, j \in 1..Len(entries) : entries[i].key = entries[j].key => i = j

KeyInv ==
    /\ uses \in Seq([key : Keys, total : Nat]) /\ Distinct(uses)
    /\ charged \in [Keys -> Nat] /\ asked \in [Keys -> Nat]
    /\ \A i \in 1..Len(uses) : /\ charged[uses[i].key] = uses[i].total
                               /\ uses[i].total <= asked[uses[i].key]
    /\ \A k \in Keys : (\A i \in 1..Len(uses) : uses[i].key # k) => charged[k] = 0

JobsInv == job = [h \in Handlers |-> job[h]]

AccountInv == JobsInv /\ VoucherInv /\ DeliveryInv /\ TopUpInv /\ MoneyInv /\ KeyInv

(***************************************************************************)
(* The amounts of the model are natural numbers.                           *)
(***************************************************************************)
LEMMA AmountsAreNat == 0 \in Amounts /\ \A a \in Amounts : a \in Nat
<1>1. Cardinality(TopUps) \in Nat /\ Deposit0 \in Nat
  BY SessionAssumption, FS_CardinalityType
<1>2. QED
  BY <1>1 DEF Amounts

(***************************************************************************)
(* Induction over the natural numbers, from their well-foundedness: a set  *)
(* of numbers has a least one, and one that is closed under successor is   *)
(* all of them.                                                            *)
(***************************************************************************)
LEMMA Least ==
  ASSUME NEW T \in SUBSET Nat, NEW n \in T
  PROVE  \E m \in T : \A k \in T : m <= k
<1> DEFINE R == OpToRel(<, Nat)
<1>1. IsWellFoundedOn(R, Nat)
  BY NatLessThanWellFounded, Zenon
<1>3. \A x, y \in Nat : <<y, x>> \in R <=> y < x
  BY DEF OpToRel
<1> HIDE DEF R
<1>2. \E x \in T : \A y \in T : ~ (<<y, x>> \in R)
  BY <1>1, WFMin, Zenon
<1>4. PICK x \in T : \A y \in T : ~ (<<y, x>> \in R)
  BY <1>2, Zenon
<1>5. \A y \in T : ~ (y < x)
  BY <1>3, <1>4, Zenon
<1>6. \A y \in T : x <= y
  BY <1>5
<1>7. QED
  BY <1>6

LEMMA Induct ==
  ASSUME NEW T \in SUBSET Nat, 0 \in T, \A n \in T : n + 1 \in T
  PROVE  T = Nat
<1>1. SUFFICES ASSUME T # Nat PROVE FALSE
  OBVIOUS
<1>2. PICK n \in Nat \ T : TRUE
  BY <1>1
<1>3. PICK m \in Nat \ T : \A k \in Nat \ T : m <= k
  BY Least
<1>4. m # 0 /\ m - 1 \in Nat
  BY <1>3
<1>5. m - 1 \in T
  BY <1>3, <1>4
<1>6. QED
  BY <1>3, <1>4, <1>5

(***************************************************************************)
(* The reserved deliveries add up to a natural number, however many.       *)
(***************************************************************************)
LEMMA SmallerSubset ==
  ASSUME NEW S, IsFiniteSet(S), NEW n \in Nat, NEW s \in SUBSET S,
         Cardinality(s) <= n + 1, s # {}, NEW x \in s
  PROVE  Cardinality(s \ {x}) \in Nat /\ Cardinality(s \ {x}) <= n
<1>1. IsFiniteSet(s) /\ Cardinality(s) \in Nat
  BY FS_Subset, FS_CardinalityType
<1>2. Cardinality(s \ {x}) = Cardinality(s) - 1 /\ IsFiniteSet(s \ {x})
  BY <1>1, FS_RemoveElement
<1>3. Cardinality(s \ {x}) \in Nat
  BY <1>2, FS_CardinalityType
<1>4. QED
  BY <1>1, <1>2, <1>3

LEMMA SumIsNat ==
  ASSUME NEW S, IsFiniteSet(S), NEW f \in [S -> Nat]
  PROVE  MapThenSumSet(LAMBDA d : f[d], S) \in Nat
<1> DEFINE pick(s) == CHOOSE x \in s : TRUE
           small(n) == {s \in SUBSET S : Cardinality(s) <= n}
           sums(g, D) == g = [s \in D |-> IF s = {} THEN 0 ELSE f[pick(s)] + g[s \ {pick(s)}]]
           iter == CHOOSE g : sums(g, SUBSET S)
<1>pick. \A s \in SUBSET S : s # {} => pick(s) \in s
  OBVIOUS
<1>sum. MapThenSumSet(LAMBDA d : f[d], S) = iter[S]
  BY DEF MapThenSumSet, MapThenFoldSet
<1>empty. \A s \in SUBSET S : Cardinality(s) \in Nat /\ (Cardinality(s) <= 0 => s = {})
  <2>1. \A s \in SUBSET S : IsFiniteSet(s)
    BY FS_Subset
  <2>2. QED
    BY <2>1, FS_CardinalityType, FS_EmptySet
<1>less. \A n \in Nat : \A s \in small(n + 1) : s # {} => s \ {pick(s)} \in small(n)
  BY <1>pick, SmallerSubset
<1> HIDE DEF pick, iter
<1>1. \E g : sums(g, SUBSET S)
  <2> DEFINE T == {n \in Nat : \E g : sums(g, small(n))}
  <2>1. 0 \in T
    <3> DEFINE g == [s \in small(0) |-> 0]
    <3>1. sums(g, small(0))
      BY <1>empty
    <3>2. QED
      BY <3>1
  <2>2. ASSUME NEW n \in T PROVE n + 1 \in T
    <3>1. PICK g : sums(g, small(n))
      OBVIOUS
    <3> DEFINE h == [s \in small(n + 1) |->
                       IF s = {} THEN 0 ELSE f[pick(s)] + g[s \ {pick(s)}]]
    <3>2. small(n) \subseteq small(n + 1)
      BY <1>empty
    <3>3. \A t \in small(n) : h[t] = g[t]
      BY <3>1, <3>2
    <3>4. \A s \in small(n + 1) : s # {} => h[s \ {pick(s)}] = g[s \ {pick(s)}]
      BY <3>3, <1>less
    <3>5. sums(h, small(n + 1))
      BY <3>4
    <3>6. \E k : sums(k, small(n + 1))
      <4> HIDE DEF h, sums, small
      <4>1. QED
        BY <3>5, Zenon
    <3>7. n + 1 \in Nat
      OBVIOUS
    <3> HIDE DEF sums, small
    <3>8. QED
      BY <3>6, <3>7
  <2> HIDE DEF sums, small
  <2>3. T = Nat
    <3>1. T \in SUBSET Nat
      OBVIOUS
    <3> HIDE DEF T
    <3>2. QED
      BY <2>1, <2>2, <3>1, Induct
  <2>4. Cardinality(S) \in Nat
    BY FS_CardinalityType
  <2>5. small(Cardinality(S)) = SUBSET S
    BY FS_Subset DEF small
  <2>6. \E g : sums(g, small(Cardinality(S)))
    BY <2>3, <2>4
  <2>7. QED
    BY <2>5, <2>6
<1>2. sums(iter, SUBSET S)
  BY <1>1, Zenon DEF iter
<1>3. \A n \in Nat : \A s \in small(n) : iter[s] \in Nat
  <2> DEFINE T == {n \in Nat : \A s \in small(n) : iter[s] \in Nat}
  <2>1. 0 \in T
    BY <1>2, <1>empty
  <2>2. ASSUME NEW n \in T PROVE n + 1 \in T
    <3>1. n \in Nat /\ \A s \in small(n) : iter[s] \in Nat
      OBVIOUS
    <3>2. ASSUME NEW s \in small(n + 1) PROVE iter[s] \in Nat
      <4>1. CASE s = {}
        BY <1>2, <4>1
      <4>2. CASE s # {}
        <5>1. pick(s) \in S /\ s \ {pick(s)} \in small(n)
          BY <1>less, <1>pick, <3>1, <4>2
        <5>2. iter[s] = f[pick(s)] + iter[s \ {pick(s)}]
          BY <1>2, <4>2
        <5>3. f[pick(s)] \in Nat /\ iter[s \ {pick(s)}] \in Nat
          BY <3>1, <5>1
        <5>4. QED
          BY <5>2, <5>3
      <4>3. QED
        BY <4>1, <4>2
    <3>3. QED
      BY <3>1, <3>2
  <2>3. T = Nat
    <3>1. T \in SUBSET Nat
      OBVIOUS
    <3> HIDE DEF T
    <3>2. QED
      BY <2>1, <2>2, <3>1, Induct
  <2>4. QED
    BY <2>3
<1>4. Cardinality(S) \in Nat /\ S \in small(Cardinality(S))
  BY FS_CardinalityType
<1>5. QED
  BY <1>3, <1>4, <1>sum

(***************************************************************************)
(* A step of one handler leaves the jobs of the others alone.              *)
(***************************************************************************)
LEMMA DoMoves ==
    ASSUME JobsInv, NEW h \in Handlers, NEW j, Do(h, j)
    PROVE  JobsInv' /\ job'[h] = j /\ \A g \in Handlers \ {h} : job'[g] = job[g]
  BY DEF JobsInv, Do

(***************************************************************************)
(* The initial accounts satisfy the invariant.                             *)
(***************************************************************************)
LEMMA AccountInit == Init => AccountInv
<1> SUFFICES ASSUME Init PROVE AccountInv
  OBVIOUS
<1>0. JobsInv /\ \A h \in Handlers : job[h].op = "none"
  BY DEF Init, JobsInv, Idle
<1>1. VoucherInv
  BY <1>0, AmountsAreNat DEF Init, VoucherInv, FitsVoucher
<1>2. DeliveryInv
  <2>1. /\ pending = [d \in Deliveries |-> 0] /\ paid = [d \in Deliveries |-> 0]
        /\ directed = [d \in Deliveries |-> 0] /\ closing = FALSE
    BY DEF Init
  <2>2. \A d \in Deliveries : paid[d] = 0 /\ pending[d] = 0 /\ directed[d] = 0
    BY <2>1
  <2>3. /\ pending \in [Deliveries -> Nat] /\ paid \in [Deliveries -> Nat]
        /\ directed \in [Deliveries -> Nat]
    BY <2>1
  <2>4. closing \in BOOLEAN
    BY <2>1
  <2>5. \A d \in Deliveries : paid[d] + pending[d] <= directed[d] /\ ~ paid[d] > 0
    BY <2>2
  <2>6. QED
    BY <2>3, <2>4, <2>5 DEF DeliveryInv
<1>3. TopUpInv
  <2>1. Cardinality({}) = 0 /\ Deposit0 \in Nat
    BY FS_EmptySet, SessionAssumption
  <2>2. QED
    BY <1>0, <2>1 DEF Init, TopUpInv, FitsTopUp, Finalized
<1>4. MoneyInv
  <2>1. Deposit0 \in Nat
    BY SessionAssumption
  <2>2. QED
    BY <1>0, <2>1 DEF Init, MoneyInv, Redeemable, FitsMoney
<1>5. KeyInv
  <2>1. /\ uses = <<>> /\ charged = [k \in Keys |-> 0] /\ asked = [k \in Keys |-> 0]
    BY DEF Init
  <2>2. Len(uses) = 0 /\ uses \in Seq([key : Keys, total : Nat])
    BY <2>1
  <2>3. 1..Len(uses) = {}
    BY <2>2
  <2>4. QED
    BY <2>1, <2>2, <2>3 DEF KeyInv, Distinct
<1>6. QED
  BY <1>0, <1>1, <1>2, <1>3, <1>4, <1>5 DEF AccountInv

(***************************************************************************)
(* Every step leaves a job for every handler.                              *)
(***************************************************************************)
LEMMA JobsStep == JobsInv /\ [Next]_vars => JobsInv'
<1> SUFFICES ASSUME JobsInv, [Next]_vars PROVE JobsInv'
  OBVIOUS
<1>1. ASSUME NEW h \in Handlers, Handler(h) PROVE JobsInv'
  <2>1. \E j : Do(h, j)
    BY <1>1 DEF Handler, CommitVoucher, ChargeRead, CommitCharge, ChargeRetry, StartOver,
         TopUpFinalized, CreditTopUp, SealParams, SealLands, MarkSealed, Fail,
         VoucherRead, ChargeBegin, TopUpRead
  <2>2. QED
    BY <2>1, DoMoves
<1>2. CASE UNCHANGED job
  BY <1>2 DEF JobsInv
<1>3. QED
  BY <1>1, <1>2 DEF Next, vars, ProcessUse, CommitDelivery, RecordUsage, BeginDelivery,
       Close, ObserveClosed, PayerCloses, TopUpMoves

(***************************************************************************)
(* A handler that leaves the watermark and the reservations alone keeps    *)
(* the part about vouchers, if its next job fits.                          *)
(***************************************************************************)
LEMMA VoucherQuiet ==
    ASSUME JobsInv, VoucherInv, NEW h \in Handlers, NEW j, Do(h, j), FitsVoucher(j),
           UNCHANGED <<mode, accepted, cum, pending>>
    PROVE  VoucherInv'
<1>1. \A g \in Handlers : FitsVoucher(job[g])'
  BY DoMoves DEF VoucherInv, FitsVoucher
<1>2. QED
  BY <1>1 DEF VoucherInv

(***************************************************************************)
(* Every step keeps the part about vouchers.                               *)
(***************************************************************************)
LEMMA VoucherStep == JobsInv /\ VoucherInv /\ [Next]_vars => VoucherInv'
<1> SUFFICES ASSUME JobsInv, VoucherInv, [Next]_vars PROVE VoucherInv'
  OBVIOUS
<1> USE DEF account, chain, history
<1>i. FitsVoucher(Idle)
  BY DEF FitsVoucher, Idle
<1>1. ASSUME NEW h \in Handlers, Handler(h)
      PROVE  VoucherInv'
  <2>0. FitsVoucher(job[h])
    BY DEF VoucherInv
  <2>1. CASE CommitVoucher(h)
    <3>1. mode = "client" /\ job[h].v \in Amounts /\ Do(h, Idle) /\ mode' = mode
      BY <2>0, <2>1 DEF CommitVoucher, FitsVoucher
    <3>2. pending' = pending
      BY <2>1 DEF CommitVoucher, AcceptVoucher
    <3>3. \A g \in Handlers : FitsVoucher(job[g])'
      BY <3>1, <1>i, DoMoves DEF VoucherInv, FitsVoucher
    <3>4. CASE cum' = cum /\ accepted' = accepted
      BY <3>1, <3>2, <3>3, <3>4 DEF VoucherInv
    <3>5. CASE /\ job[h].v > cum /\ cum' = job[h].v
               /\ \/ accepted' = accepted
                  \/ accepted' = [accepted EXCEPT ![job[h].v] = @ + 1]
      BY <3>1, <3>2, <3>3, <3>5, AmountsAreNat DEF VoucherInv
    <3>6. QED
      BY <2>1, <3>4, <3>5 DEF CommitVoucher, AcceptVoucher
  <2>2. CASE ChargeRead(h)
    <3>1. \E j : Do(h, j) /\ (j = Idle \/ j.op = "charge")
      BY <2>2 DEF ChargeRead, Charge
    <3>2. \A j : j.op = "charge" => FitsVoucher(j)
      BY <2>0, <2>2 DEF ChargeRead, FitsVoucher
    <3>3. QED
      BY <2>2, <3>1, <3>2, <1>i, VoucherQuiet DEF ChargeRead
  <2>3. CASE CommitCharge(h)
    <3>1. \E j : Do(h, j) /\ (j = Idle \/ j.op = "charge")
      BY <2>3 DEF CommitCharge, StartOver, Charge
    <3>2. mode = "operator" /\ \A j : j.op = "charge" => FitsVoucher(j)
      BY <2>0, <2>3 DEF CommitCharge, FitsVoucher
    <3>3. UNCHANGED <<mode, accepted, pending>>
      BY <2>3 DEF CommitCharge, Debit
    <3>4. \A g \in Handlers : FitsVoucher(job[g])'
      BY <3>1, <3>2, <3>3, <1>i, DoMoves DEF VoucherInv, FitsVoucher
    <3>5. QED
      BY <3>2, <3>3, <3>4 DEF VoucherInv
  <2>4. CASE ChargeRetry(h)
    <3>1. \E j : Do(h, j) /\ j.op = "charge"
      BY <2>4 DEF ChargeRetry, StartOver, Charge
    <3>2. \A j : j.op = "charge" => FitsVoucher(j)
      BY <2>0, <2>4 DEF ChargeRetry, FitsVoucher
    <3>3. QED
      BY <2>4, <3>1, <3>2, VoucherQuiet DEF ChargeRetry
  <2>5. CASE TopUpFinalized(h) \/ CreditTopUp(h) \/ \E t \in TopUps : TopUpRead(h, t)
    <3>1. \E j : Do(h, j) /\ (j = Idle \/ j.op = "topup")
      <4>1. \A stage, t, base : TopUp(stage, t, base).op = "topup"
        BY DEF TopUp
      <4>2. QED
        BY <2>5, <4>1 DEF TopUpFinalized, CreditTopUp, TopUpRead
    <3>2. \A j : j.op = "topup" => FitsVoucher(j)
      BY DEF FitsVoucher
    <3>3. UNCHANGED <<mode, accepted, cum, pending>>
      BY <2>5 DEF TopUpFinalized, CreditTopUp, TopUpRead
    <3>4. QED
      BY <3>1, <3>2, <3>3, <1>i, VoucherQuiet
  <2>6. CASE SealParams(h) \/ SealLands(h) \/ MarkSealed(h) \/ Fail(h)
    <3>1. \E j : Do(h, j) /\ (j = Idle \/ j.op = "seal")
      BY <2>6 DEF SealParams, SealLands, MarkSealed, Fail, Seal
    <3>2. \A j : j.op = "seal" => FitsVoucher(j)
      BY DEF FitsVoucher
    <3>3. UNCHANGED <<mode, accepted, cum, pending>>
      BY <2>6 DEF SealParams, SealLands, MarkSealed, Fail
    <3>4. QED
      BY <3>1, <3>2, <3>3, <1>i, VoucherQuiet
  <2>7. ASSUME NEW v \in Amounts, VoucherRead(h, v) PROVE VoucherInv'
    <3>1. FitsVoucher([op |-> "voucher", v |-> v, seen |-> cum])
      BY <2>7 DEF VoucherRead, FitsVoucher
    <3>2. QED
      BY <2>7, <3>1, VoucherQuiet DEF VoucherRead
  <2>8. ASSUME NEW k \in Keys, NEW n \in 1..MaxTotal, ChargeBegin(h, k, n) PROVE VoucherInv'
    <3>1. FitsVoucher(Charge("read", k, n, 0, 0, Attempts))
      BY <2>8 DEF ChargeBegin, FitsVoucher, Charge
    <3>2. QED
      BY <2>8, <3>1, VoucherQuiet DEF ChargeBegin
  <2>9. QED
    BY <1>1, <2>1, <2>2, <2>3, <2>4, <2>5, <2>6, <2>7, <2>8 DEF Handler
<1> USE DEF VoucherInv, FitsVoucher
<1>2. ASSUME NEW k \in Keys, ProcessUse(k) PROVE VoucherInv'
  BY <1>2 DEF ProcessUse, Debit
<1>3. ASSUME NEW d \in Deliveries, CommitDelivery(d) PROVE VoucherInv'
  <2>1. /\ mode = "client" /\ cum' = cum + pending[d]
        /\ pending' = [pending EXCEPT ![d] = 0] /\ UNCHANGED <<mode, accepted, job>>
    BY <1>3 DEF CommitDelivery
  <2>2. cum' \in Nat /\ cum' >= cum
    BY <2>1
  <2>3. \A a \in Amounts : accepted[a] <= 1 /\ (a > cum' => accepted[a] = 0)
    BY <2>1, <2>2, AmountsAreNat
  <2>4. QED
    BY <2>1, <2>2, <2>3
<1>4. ASSUME NEW d \in Deliveries, NEW a \in Amounts, RecordUsage(d, a) \/ BeginDelivery(d, a)
      PROVE  VoucherInv'
  BY <1>4, AmountsAreNat DEF RecordUsage, BeginDelivery
<1>5. ASSUME NEW v \in Amounts, Close(v) PROVE VoucherInv'
  <2>1. /\ cum' = v /\ (v > cum \/ v = cum) /\ UNCHANGED <<mode, accepted, job>>
        /\ pending' = [d \in Deliveries |-> 0]
    BY <1>5 DEF Close
  <2>2. v \in Nat
    BY AmountsAreNat
  <2>3. mode = "client" => \A a \in Amounts : accepted[a] <= 1 /\ (a > v => accepted[a] = 0)
    BY <2>1, <2>2, AmountsAreNat
  <2>4. QED
    BY <2>1, <2>2, <2>3
<1>6. CASE ObserveClosed \/ PayerCloses \/ UNCHANGED vars
  BY <1>6 DEF ObserveClosed, PayerCloses, vars
<1>7. ASSUME NEW t \in TopUps, TopUpMoves(t) PROVE VoucherInv'
  BY <1>7 DEF TopUpMoves
<1>8. QED
  BY <1>1, <1>2, <1>3, <1>4, <1>5, <1>6, <1>7 DEF Next

(***************************************************************************)
(* Every step keeps the part about deliveries.                             *)
(***************************************************************************)
LEMMA DeliveryStep == DeliveryInv /\ [Next]_vars => DeliveryInv'
<1> SUFFICES ASSUME DeliveryInv, [Next]_vars PROVE DeliveryInv'
  OBVIOUS
<1> USE AmountsAreNat DEF DeliveryInv, account, chain, history
<1>1. ASSUME NEW h \in Handlers, Handler(h)
      PROVE  DeliveryInv'
  BY <1>1 DEF Handler, CommitVoucher, AcceptVoucher, ChargeRead, CommitCharge, Debit,
        ChargeRetry, TopUpFinalized, CreditTopUp, SealParams, SealLands, MarkSealed, Fail,
        VoucherRead, ChargeBegin, TopUpRead
<1>2. ASSUME NEW k \in Keys, ProcessUse(k) PROVE DeliveryInv'
  BY <1>2 DEF ProcessUse, Debit
<1>3. ASSUME NEW d \in Deliveries, CommitDelivery(d) PROVE DeliveryInv'
  BY <1>3 DEF CommitDelivery
<1>4. ASSUME NEW d \in Deliveries, NEW a \in Amounts, RecordUsage(d, a) PROVE DeliveryInv'
  BY <1>4 DEF RecordUsage
<1>5. ASSUME NEW d \in Deliveries, NEW a \in Amounts, BeginDelivery(d, a) PROVE DeliveryInv'
  BY <1>5 DEF BeginDelivery, Open
<1>6. ASSUME NEW v \in Amounts, Close(v) PROVE DeliveryInv'
  BY <1>6 DEF Close
<1>7. CASE ObserveClosed \/ PayerCloses \/ UNCHANGED vars
  BY <1>7 DEF ObserveClosed, PayerCloses, vars
<1>8. ASSUME NEW t \in TopUps, TopUpMoves(t) PROVE DeliveryInv'
  BY <1>8 DEF TopUpMoves
<1>9. QED
  BY <1>1, <1>2, <1>3, <1>4, <1>5, <1>6, <1>7, <1>8 DEF Next

(***************************************************************************)
(* A handler that leaves the deposit and the cluster alone keeps the part  *)
(* about top-ups, if its next job fits.                                    *)
(***************************************************************************)
LEMMA TopUpQuiet ==
    ASSUME JobsInv, TopUpInv, NEW h \in Handlers, NEW j, Do(h, j), FitsTopUp(j),
           UNCHANGED <<landed, credited, deposit>>
    PROVE  TopUpInv'
<1>1. \A g \in Handlers : FitsTopUp(job[g])'
  BY DoMoves DEF TopUpInv, FitsTopUp, Finalized
<1>2. QED
  BY <1>1 DEF TopUpInv, Finalized

(***************************************************************************)
(* Every step keeps the part about top-ups.                                *)
(***************************************************************************)
LEMMA TopUpStep == JobsInv /\ TopUpInv /\ [Next]_vars => TopUpInv'
<1> SUFFICES ASSUME JobsInv, TopUpInv, [Next]_vars PROVE TopUpInv'
  OBVIOUS
<1> USE DEF account, chain, history
<1>i. FitsTopUp(Idle)
  BY DEF FitsTopUp, Idle
<1>1. ASSUME NEW h \in Handlers, Handler(h)
      PROVE  TopUpInv'
  <2>0. FitsTopUp(job[h])
    BY DEF TopUpInv
  <2>1. CASE CommitVoucher(h) \/ Fail(h)
    <3>1. UNCHANGED <<landed, credited, deposit>> /\ Do(h, Idle)
      BY <2>1 DEF CommitVoucher, AcceptVoucher, Fail
    <3>2. QED
      BY <3>1, <1>i, TopUpQuiet
  <2>2. CASE \/ ChargeRead(h) \/ ChargeRetry(h) \/ CommitCharge(h)
             \/ \E k \in Keys, n \in 1..MaxTotal : ChargeBegin(h, k, n)
    <3>1. \A stage, k, total, base, before, left :
            FitsTopUp(Charge(stage, k, total, base, before, left))
      BY DEF FitsTopUp, Charge
    <3>2. \E j : Do(h, j) /\ FitsTopUp(j)
      BY <2>2, <3>1, <1>i DEF ChargeRead, ChargeRetry, CommitCharge, ChargeBegin, StartOver
    <3>3. UNCHANGED <<landed, credited, deposit>>
      BY <2>2 DEF ChargeRead, ChargeRetry, CommitCharge, ChargeBegin, Debit
    <3>4. QED
      BY <3>2, <3>3, TopUpQuiet
  <2>3. CASE SealParams(h) \/ SealLands(h) \/ MarkSealed(h)
    <3>1. \A stage, amount : FitsTopUp(Seal(stage, amount))
      BY DEF FitsTopUp, Seal
    <3>2. \E j : Do(h, j) /\ FitsTopUp(j)
      BY <2>3, <3>1, <1>i DEF SealParams, SealLands, MarkSealed
    <3>3. UNCHANGED <<landed, credited, deposit>>
      BY <2>3 DEF SealParams, SealLands, MarkSealed
    <3>4. QED
      BY <3>2, <3>3, TopUpQuiet
  <2>4. ASSUME NEW v \in Amounts, VoucherRead(h, v) PROVE TopUpInv'
    <3>1. FitsTopUp([op |-> "voucher", v |-> v, seen |-> cum])
      BY DEF FitsTopUp
    <3>2. QED
      BY <2>4, <3>1, TopUpQuiet DEF VoucherRead
  <2>5. ASSUME NEW t \in TopUps, TopUpRead(h, t) PROVE TopUpInv'
    <3>1. FitsTopUp(TopUp(IF t \in credited THEN "credit" ELSE "submit", t, deposit))
      BY DEF FitsTopUp, TopUp, TopUpInv
    <3>2. QED
      BY <2>5, <3>1, TopUpQuiet DEF TopUpRead
  <2>6. CASE TopUpFinalized(h)
    <3>1. FitsTopUp(TopUp("credit", job[h].tx, 0))
      BY <2>0, <2>6 DEF TopUpFinalized, FitsTopUp, TopUp, Finalized
    <3>2. QED
      BY <2>6, <3>1, TopUpQuiet DEF TopUpFinalized
  <2>7. CASE CreditTopUp(h)
    <3>1. IsFiniteSet(credited) /\ Deposit0 \in Nat /\ Cardinality(credited) \in Nat
      BY SessionAssumption, FS_Subset, FS_CardinalityType DEF TopUpInv, Finalized
    <3>2. Do(h, Idle) /\ landed' = landed /\ job[h].tx \in Finalized
      BY <2>0, <2>7 DEF CreditTopUp, FitsTopUp
    <3>3. \A g \in Handlers : FitsTopUp(job[g])'
      BY <3>2, <1>i, DoMoves DEF TopUpInv, FitsTopUp, Finalized
    <3>4. CASE UNCHANGED <<deposit, credited>>
      BY <3>2, <3>4, <1>i, TopUpQuiet
    <3>5. CASE /\ job[h].tx \notin credited /\ deposit' = deposit + 1
               /\ credited' = credited \cup {job[h].tx}
      <4>1. Cardinality(credited') = Cardinality(credited) + 1
        BY <3>1, <3>5, FS_AddElement
      <4>2. deposit' = Deposit0 + Cardinality(credited')
        BY <3>1, <3>5, <4>1 DEF TopUpInv
      <4>3. credited' \subseteq Finalized'
        BY <3>2, <3>5 DEF TopUpInv, Finalized
      <4>4. QED
        BY <3>2, <3>3, <4>2, <4>3 DEF TopUpInv
    <3>6. QED
      BY <2>7, <3>4, <3>5 DEF CreditTopUp
  <2>8. QED
    BY <1>1, <2>1, <2>2, <2>3, <2>4, <2>5, <2>6, <2>7 DEF Handler
<1>2. CASE UNCHANGED <<landed, credited, deposit, job>>
  BY <1>2 DEF TopUpInv, FitsTopUp, Finalized
<1>3. ASSUME NEW t \in TopUps, TopUpMoves(t) PROVE TopUpInv'
  <2>1. landed' \in [TopUps -> {"none", "confirmed", "final"}] /\ Finalized \subseteq Finalized'
    BY <1>3 DEF TopUpMoves, TopUpInv, Finalized
  <2>2. UNCHANGED <<credited, deposit, job>>
    BY <1>3 DEF TopUpMoves
  <2>3. \A g \in Handlers : FitsTopUp(job[g])'
    BY <2>1, <2>2 DEF TopUpInv, FitsTopUp
  <2>4. QED
    BY <2>1, <2>2, <2>3 DEF TopUpInv
<1>4. QED
  BY <1>1, <1>2, <1>3 DEF Next, vars, ProcessUse, Debit, CommitDelivery, RecordUsage,
       BeginDelivery, Close, ObserveClosed, PayerCloses

(***************************************************************************)
(* What a handler holds stays good while the deposit only grows and a      *)
(* closing record with a final voucher is charged nothing.                 *)
(***************************************************************************)
MoneyMoves ==
    /\ deposit' \in Nat /\ deposit <= deposit'
    /\ closing => closing' /\ (fixed' => fixed /\ spent' = spent)

LEMMA MoneyRests ==
    ASSUME MoneyInv, MoneyMoves, Redeemable', UNCHANGED job
    PROVE  MoneyInv'
<1>1. ASSUME NEW g \in Handlers PROVE FitsMoney(job[g])'
  <2>1. FitsMoney(job[g])
    BY DEF MoneyInv
  <2>2. QED
    BY <2>1 DEF FitsMoney, MoneyMoves, MoneyInv, Redeemable
<1>2. QED
  BY <1>1 DEF MoneyInv

LEMMA MoneyHolds ==
    ASSUME JobsInv, MoneyInv, MoneyMoves, Redeemable', NEW h \in Handlers, NEW j, Do(h, j),
           FitsMoney(j)'
    PROVE  MoneyInv'
<1>1. \A g \in Handlers : FitsMoney(job[g])'
  <2>1. job'[h] = j /\ \A g \in Handlers \ {h} : job'[g] = job[g]
    BY DoMoves
  <2>2. ASSUME NEW g \in Handlers PROVE FitsMoney(job[g])'
    <3>1. CASE g = h
      BY <2>1, <3>1 DEF FitsMoney
    <3>2. CASE g # h
      <4>1. FitsMoney(job[g]) /\ job'[g] = job[g]
        BY <2>1, <3>2 DEF MoneyInv
      <4>2. QED
        BY <4>1 DEF FitsMoney, MoneyMoves, MoneyInv, Redeemable
    <3>3. QED
      BY <3>1, <3>2
  <2>3. QED
    BY <2>2
<1>2. QED
  BY <1>1 DEF MoneyInv

(***************************************************************************)
(* What recorded_use finds is what the key was charged.                    *)
(***************************************************************************)
LEMMA RecordedIsCharged ==
    ASSUME KeyInv, NEW k \in Keys
    PROVE  Recorded(k) = charged[k] /\ Recorded(k) \in Nat
<1>1. DOMAIN uses = 1..Len(uses) /\ Len(uses) \in Nat
  BY DEF KeyInv
<1>2. CASE Holding(k) = {}
  BY <1>1, <1>2 DEF Recorded, Holding, KeyInv
<1>3. CASE Holding(k) # {}
  <2>1. PICK i \in Holding(k) : TRUE
    BY <1>3
  <2>2. Holding(k) \in SUBSET Nat
    BY <1>1 DEF Holding
  <2>3. \E m \in Holding(k) : \A n \in Holding(k) : m <= n
    BY <2>2, Least
  <2>4. Min(Holding(k)) \in Holding(k)
    BY <2>3 DEF Min
  <2>5. Min(Holding(k)) \in 1..Len(uses) /\ uses[Min(Holding(k))].key = k
    BY <1>1, <2>4 DEF Holding
  <2>6. Recorded(k) = uses[Min(Holding(k))].total
    BY <1>3 DEF Recorded
  <2> DEFINE m == Min(Holding(k))
  <2>7. uses[m].total = charged[k]
    BY <2>5 DEF KeyInv
  <2>8. QED
    BY <2>6, <2>7 DEF KeyInv
<1>4. QED
  BY <1>2, <1>3

(***************************************************************************)
(* The entries record_use retains are those of the other keys.             *)
(***************************************************************************)
LEMMA WithoutKey ==
    ASSUME KeyInv, NEW k \in Keys
    PROVE  /\ Without(k) \in Seq([key : Keys, total : Nat]) /\ Distinct(Without(k))
           /\ \A i \in 1..Len(Without(k)) :
                Without(k)[i].key # k /\ \E m \in 1..Len(uses) : Without(k)[i] = uses[m]
           /\ \A m \in 1..Len(uses) :
                uses[m].key # k => \E i \in 1..Len(Without(k)) : Without(k)[i] = uses[m]
<1> DEFINE E == [key : Keys, total : Nat]
           runs(g, n) == g = [l \in 0..n |->
                                IF l = 0 THEN <<>>
                                ELSE IF uses[l].key = k THEN g[l - 1]
                                     ELSE Append(g[l - 1], uses[l])]
           kept == CHOOSE g : runs(g, Len(uses))
<1>u. uses \in Seq(E) /\ Distinct(uses) /\ Len(uses) \in Nat
  BY DEF KeyInv
<1>w. Without(k) = kept[Len(uses)]
  BY DEF Without
<1> HIDE DEF kept
<1>1. \E g : runs(g, Len(uses))
  <2> DEFINE T == {n \in Nat : \E g : runs(g, n)}
  <2>1. 0 \in T
    <3> DEFINE g == [l \in 0..0 |-> <<>>]
    <3>1. runs(g, 0)
      OBVIOUS
    <3>2. QED
      BY <3>1
  <2>2. ASSUME NEW n \in T PROVE n + 1 \in T
    <3>1. PICK g : runs(g, n)
      OBVIOUS
    <3>0. /\ n \in Nat /\ \A l \in 0..n : l \in 0..(n + 1)
          /\ \A l \in 0..(n + 1) : l # 0 => l - 1 \in 0..n
      OBVIOUS
    <3> DEFINE h == [l \in 0..(n + 1) |->
                       IF l = 0 THEN <<>>
                       ELSE IF uses[l].key = k THEN g[l - 1] ELSE Append(g[l - 1], uses[l])]
    <3>2. \A l \in 0..n : h[l] = g[l]
      BY <3>0, <3>1
    <3>3. \A l \in 0..(n + 1) : l # 0 => h[l - 1] = g[l - 1]
      BY <3>0, <3>2
    <3>4. runs(h, n + 1)
      BY <3>3
    <3>5. \E f : runs(f, n + 1)
      <4> HIDE DEF h, runs
      <4>1. QED
        BY <3>4, Zenon
    <3>6. n + 1 \in Nat
      OBVIOUS
    <3> HIDE DEF runs
    <3>7. QED
      BY <3>5, <3>6
  <2> HIDE DEF runs
  <2>3. T = Nat
    <3>1. T \in SUBSET Nat
      OBVIOUS
    <3> HIDE DEF T
    <3>2. QED
      BY <2>1, <2>2, <3>1, Induct
  <2>4. QED
    BY <1>u, <2>3
<1>2. runs(kept, Len(uses))
  BY <1>1, Zenon DEF kept
<1> DEFINE good(s, n) ==
             /\ s \in Seq(E) /\ Distinct(s)
             /\ \A i \in 1..Len(s) : s[i].key # k /\ \E m \in 1..n : s[i] = uses[m]
             /\ \A m \in 1..n : uses[m].key # k => \E i \in 1..Len(s) : s[i] = uses[m]
<1>3. kept[0] = <<>> /\ good(<<>>, 0)
  BY <1>2, <1>u DEF Distinct
<1>4. ASSUME NEW n \in Nat, n + 1 <= Len(uses), NEW s, good(s, n)
      PROVE  /\ uses[n + 1].key = k => good(s, n + 1)
             /\ uses[n + 1].key # k => good(Append(s, uses[n + 1]), n + 1)
  <2>0. n + 1 \in 1..Len(uses)
    BY <1>u, <1>4
  <2>1. uses[n + 1] \in E /\ n + 1 \in 1..Len(uses)
    <3> HIDE DEF E
    <3>1. QED
      BY <1>u, <2>0
  <2>2. CASE uses[n + 1].key = k
    BY <1>4, <2>1, <2>2
  <2>3. CASE uses[n + 1].key # k
    <3> DEFINE a == Append(s, uses[n + 1])
    <3>1. /\ a \in Seq(E) /\ Len(a) = Len(s) + 1 /\ a[Len(s) + 1] = uses[n + 1]
          /\ \A i \in 1..Len(s) : a[i] = s[i]
          /\ Len(s) \in Nat
      BY <1>4, <2>1
    <3> HIDE DEF a
    <3>2. \A i \in 1..Len(s) : s[i].key # uses[n + 1].key
      <4>1. SUFFICES ASSUME NEW i \in 1..Len(s) PROVE s[i].key # uses[n + 1].key
        OBVIOUS
      <4>2. PICK m \in 1..n : s[i] = uses[m]
        BY <1>4
      <4>3. m \in 1..Len(uses) /\ m # n + 1
        BY <1>4, <1>u
      <4>4. uses[m].key # uses[n + 1].key
        BY <1>u, <2>1, <4>3 DEF Distinct
      <4>5. QED
        BY <4>2, <4>4
    <3>3. \A i \in 1..Len(a) : i \in 1..Len(s) \/ i = Len(s) + 1
      BY <3>1
    <3>4. Distinct(a)
      BY <1>4, <3>1, <3>2, <3>3 DEF Distinct
    <3>5. \A i \in 1..Len(a) : a[i].key # k /\ \E m \in 1..(n + 1) : a[i] = uses[m]
      <4>1. n + 1 \in 1..(n + 1) /\ \A m \in 1..n : m \in 1..(n + 1)
        OBVIOUS
      <4>2. ASSUME NEW i \in 1..Len(s)
            PROVE  a[i].key # k /\ \E m \in 1..(n + 1) : a[i] = uses[m]
        <5>1. s[i].key # k /\ \E m \in 1..n : s[i] = uses[m]
          BY <1>4
        <5>2. a[i] = s[i]
          BY <3>1
        <5>3. QED
          BY <4>1, <5>1, <5>2
      <4>3. a[Len(s) + 1].key # k /\ \E m \in 1..(n + 1) : a[Len(s) + 1] = uses[m]
        BY <2>3, <3>1, <4>1
      <4>4. QED
        BY <3>3, <4>2, <4>3
    <3>6. \A m \in 1..(n + 1) : uses[m].key # k => \E i \in 1..Len(a) : a[i] = uses[m]
      <4>1. ASSUME NEW m \in 1..n, uses[m].key # k
            PROVE  \E i \in 1..Len(a) : a[i] = uses[m]
        <5>1. PICK i \in 1..Len(s) : s[i] = uses[m]
          BY <1>4, <4>1
        <5>2. i \in 1..Len(a) /\ a[i] = uses[m]
          BY <3>1, <5>1
        <5>3. QED
          BY <5>2
      <4>2. Len(s) + 1 \in 1..Len(a) /\ a[Len(s) + 1] = uses[n + 1]
        BY <3>1
      <4>3. \A m \in 1..(n + 1) : m \in 1..n \/ m = n + 1
        OBVIOUS
      <4>4. QED
        BY <4>1, <4>2, <4>3
    <3>7. good(a, n + 1)
      BY <3>1, <3>4, <3>5, <3>6
    <3>8. QED
      BY <2>3, <3>7 DEF a
  <2>4. QED
    BY <2>2, <2>3
<1>5. \A n \in Nat : n <= Len(uses) => good(kept[n], n)
  <2> DEFINE T == {n \in Nat : n <= Len(uses) => good(kept[n], n)}
  <2> HIDE DEF good
  <2>1. 0 \in T
    BY <1>3
  <2>2. ASSUME NEW n \in T PROVE n + 1 \in T
    <3>1. SUFFICES ASSUME n + 1 <= Len(uses) PROVE good(kept[n + 1], n + 1)
      OBVIOUS
    <3>2. n \in Nat /\ good(kept[n], n)
      BY <1>u, <3>1
    <3>3. kept[n + 1] = IF uses[n + 1].key = k THEN kept[n] ELSE Append(kept[n], uses[n + 1])
      <4>1. n + 1 \in 0..Len(uses) /\ n + 1 # 0 /\ (n + 1) - 1 = n
        BY <1>u, <3>1, <3>2
      <4>2. QED
        BY <1>2, <4>1
    <3>4. QED
      BY <1>4, <3>1, <3>2, <3>3
  <2>3. T = Nat
    <3>1. T \in SUBSET Nat
      OBVIOUS
    <3> HIDE DEF T
    <3>2. QED
      BY <2>1, <2>2, <3>1, Induct
  <2>4. QED
    BY <2>3
<1>6. good(kept[Len(uses)], Len(uses))
  BY <1>5, <1>u
<1>7. QED
  BY <1>6, <1>w

LEMMA MaxOfTwo ==
    ASSUME NEW a \in Int, NEW b \in Int
    PROVE  Max({a, b}) \in {a, b} /\ Max({a, b}) >= a /\ Max({a, b}) >= b
<1>1. \E x \in {a, b} : \A y \in {a, b} : x >= y
  <2>1. CASE a >= b
    BY <2>1
  <2>2. CASE b >= a
    BY <2>2
  <2>3. QED
    BY <2>1, <2>2
<1>2. QED
  BY <1>1 DEF Max

(***************************************************************************)
(* record_use keeps the record in step with what was charged: the key's    *)
(* entry is the newest, so it is never among those that are dropped.       *)
(***************************************************************************)
LEMMA RecordKeeps ==
    ASSUME KeyInv, NEW k \in Keys, NEW total \in Nat, RecordUse(k, total)
    PROVE  KeyInv'
<1> DEFINE E == [key : Keys, total : Nat]
           e == [key |-> k, total |-> total]
           w == Without(k)
           kept == Append(w, e)
           excess == Max({Len(kept) - MaxUses, 0})
           gone(j) == \E i \in 1..excess : kept[i].key = j
<1>1. /\ uses' = SubSeq(kept, excess + 1, Len(kept))
      /\ charged' = [j \in Keys |-> IF gone(j) THEN 0
                       ELSE IF j = k THEN charged[j] + total - Recorded(k) ELSE charged[j]]
      /\ asked' = [j \in Keys |-> IF gone(j) THEN 0
                     ELSE IF j = k THEN Max({asked[j], total}) ELSE asked[j]]
  BY DEF RecordUse
<1>2. /\ w \in Seq(E) /\ Distinct(w)
      /\ \A i \in 1..Len(w) : w[i].key # k /\ \E m \in 1..Len(uses) : w[i] = uses[m]
      /\ \A m \in 1..Len(uses) : uses[m].key # k => \E i \in 1..Len(w) : w[i] = uses[m]
  BY WithoutKey
<1>3. e \in E /\ e.key = k /\ e.total = total
  OBVIOUS
<1> HIDE DEF w, e
<1>4. /\ kept \in Seq(E) /\ Len(kept) = Len(w) + 1 /\ Len(w) \in Nat
      /\ kept[Len(kept)] = e /\ \A i \in 1..Len(w) : kept[i] = w[i]
      /\ \A i \in 1..Len(kept) : i \in 1..Len(w) \/ i = Len(kept)
  BY <1>2, <1>3
<1> HIDE DEF kept
<1>5. excess \in Nat /\ excess < Len(kept)
  <2>1. MaxUses \in Nat \ {0}
    BY SessionAssumption
  <2> DEFINE d == Len(kept) - MaxUses
  <2>d. d \in Int /\ 0 \in Int /\ excess = Max({d, 0})
    BY <1>4, <2>1
  <2>2. excess \in {Len(kept) - MaxUses, 0} /\ excess >= 0
    <3> HIDE DEF d, excess
    <3>1. excess \in {d, 0} /\ excess >= 0
      BY <2>d, MaxOfTwo
    <3>2. QED
      BY <3>1 DEF d
  <2> HIDE DEF excess
  <2>3. QED
    BY <1>4, <2>1, <2>2
<1> HIDE DEF excess
<1>6. Distinct(kept)
  <2>1. \A i \in 1..Len(w) : kept[i].key # kept[Len(kept)].key
    BY <1>2, <1>3, <1>4
  <2>2. \A i, j \in 1..Len(w) : kept[i].key = kept[j].key => i = j
    BY <1>2, <1>4 DEF Distinct
  <2>3. QED
    BY <1>4, <2>1, <2>2 DEF Distinct
<1>7. /\ \A i \in 1..Len(w) : \E m \in 1..Len(uses) : kept[i] = uses[m] /\ kept[i].key # k
      /\ \A i \in 1..Len(kept) : kept[i] \in E
  <2>1. \A i \in 1..Len(w) : \E m \in 1..Len(uses) : kept[i] = uses[m] /\ kept[i].key # k
    BY <1>2, <1>4
  <2>2. \A i \in 1..Len(kept) : kept[i] \in E
    <3> HIDE DEF E
    <3>1. QED
      BY <1>4
  <2>3. QED
    BY <2>1, <2>2
<1>8. \A j \in Keys : gone(j) => \A i \in (excess + 1)..Len(kept) : kept[i].key # j
  BY <1>4, <1>5, <1>6 DEF Distinct
<1>9. /\ uses' \in Seq(E) /\ Len(uses') = Len(kept) - excess
      /\ \A i \in 1..Len(uses') : /\ uses'[i] = kept[i + excess]
                                  /\ i + excess \in (excess + 1)..Len(kept)
                                  /\ i + excess \in 1..Len(kept)
      /\ \A i \in (excess + 1)..Len(kept) : i - excess \in 1..Len(uses')
                                            /\ uses'[i - excess] = kept[i]
  <2> HIDE DEF E
  <2>1. uses' \in Seq(E) /\ Len(uses') = Len(kept) - excess
    BY <1>1, <1>4, <1>5
  <2>2. \A i \in 1..Len(uses') : uses'[i] = kept[i + excess]
    BY <1>1, <1>4, <1>5, <2>1
  <2>3. QED
    BY <1>4, <1>5, <2>1, <2>2
<1>10. Distinct(uses)'
  <2>1. SUFFICES ASSUME NEW i \in 1..Len(uses'), NEW j \in 1..Len(uses'),
                        uses'[i].key = uses'[j].key
                 PROVE  i = j
    BY DEF Distinct
  <2>2. i + excess = j + excess
    <3> DEFINE m == i + excess  n == j + excess
    <3>1. /\ m \in 1..Len(kept) /\ n \in 1..Len(kept)
          /\ uses'[i] = kept[m] /\ uses'[j] = kept[n]
      BY <1>9, <2>1
    <3> HIDE DEF m, n
    <3>2. m = n
      BY <1>6, <2>1, <3>1 DEF Distinct
    <3>3. QED
      BY <3>2 DEF m, n
  <2>3. QED
    BY <1>5, <2>2
<1> HIDE DEF gone
<1>11. /\ charged \in [Keys -> Nat] /\ asked \in [Keys -> Nat]
       /\ Recorded(k) = charged[k]
       /\ \A m \in 1..Len(uses) : /\ charged[uses[m].key] = uses[m].total
                                  /\ uses[m].total <= asked[uses[m].key]
       /\ \A j \in Keys : (\A m \in 1..Len(uses) : uses[m].key # j) => charged[j] = 0
  BY RecordedIsCharged DEF KeyInv
<1>12. \A j \in Keys : /\ gone(j) => charged'[j] = 0 /\ asked'[j] = 0
                       /\ ~gone(j) /\ j # k => charged'[j] = charged[j] /\ asked'[j] = asked[j]
                       /\ ~gone(j) /\ j = k => /\ charged'[j] = total /\ asked'[j] \in Nat
                                               /\ asked'[j] >= total
  <2>1. \A j \in Keys : Max({asked[j], total}) \in Nat /\ Max({asked[j], total}) >= total
    <3>1. SUFFICES ASSUME NEW j \in Keys
                   PROVE  Max({asked[j], total}) \in Nat /\ Max({asked[j], total}) >= total
      OBVIOUS
    <3> DEFINE x == asked[j]
    <3>2. x \in Nat /\ x \in Int /\ total \in Int
      BY <1>11
    <3> HIDE DEF x
    <3>3. Max({x, total}) \in {x, total} /\ Max({x, total}) >= total
      BY <3>2, MaxOfTwo
    <3>4. Max({x, total}) \in Nat
      BY <3>2, <3>3
    <3>5. QED
      BY <3>3, <3>4 DEF x
  <2>2. \A j \in Keys :
          /\ charged'[j] = IF gone(j) THEN 0
                           ELSE IF j = k THEN charged[j] + total - Recorded(k) ELSE charged[j]
          /\ asked'[j] = IF gone(j) THEN 0
                         ELSE IF j = k THEN Max({asked[j], total}) ELSE asked[j]
    BY <1>1
  <2>3. charged[k] + total - Recorded(k) = total
    BY <1>11
  <2>4. QED
    BY <2>1, <2>2, <2>3
<1>13. charged' \in [Keys -> Nat] /\ asked' \in [Keys -> Nat]
  <2>1. \A j \in Keys : charged'[j] \in Nat /\ asked'[j] \in Nat
    BY <1>11, <1>12
  <2>2. DOMAIN charged' = Keys /\ charged' = [j \in Keys |-> charged'[j]]
    BY <1>1
  <2>3. DOMAIN asked' = Keys /\ asked' = [j \in Keys |-> asked'[j]]
    BY <1>1
  <2>4. QED
    BY <2>1, <2>2, <2>3
<1>14. ASSUME NEW i \in 1..Len(uses')
       PROVE  /\ charged'[uses'[i].key] = uses'[i].total
              /\ uses'[i].total <= asked'[uses'[i].key]
  <2> DEFINE n == i + excess
  <2>1. uses'[i] = kept[n] /\ n \in (excess + 1)..Len(kept) /\ n \in 1..Len(kept)
    BY <1>9
  <2>2. kept[n].key \in Keys /\ ~gone(kept[n].key)
    BY <1>7, <1>8, <2>1
  <2> HIDE DEF n
  <2>3. CASE n \in 1..Len(w)
    <3>1. PICK m \in 1..Len(uses) : kept[n] = uses[m] /\ kept[n].key # k
      BY <1>7, <2>3
    <3>2. QED
      BY <1>11, <1>12, <2>1, <2>2, <3>1
  <2>4. CASE n = Len(kept)
    BY <1>3, <1>4, <1>12, <2>1, <2>2, <2>4
  <2>5. QED
    BY <1>4, <2>1, <2>3, <2>4
<1>15. ASSUME NEW j \in Keys, \A i \in 1..Len(uses') : uses'[i].key # j
       PROVE  charged'[j] = 0
  <2>1. CASE gone(j)
    BY <1>12, <2>1
  <2>2. CASE ~gone(j)
    <3>1. \A i \in 1..Len(kept) : kept[i].key # j
      <4>1. SUFFICES ASSUME NEW i \in 1..Len(kept), kept[i].key = j PROVE FALSE
        OBVIOUS
      <4>2. ~(i \in 1..excess)
        BY <2>2, <4>1 DEF gone
      <4>3. i \in (excess + 1)..Len(kept)
        BY <1>4, <1>5, <4>2
      <4>4. QED
        BY <1>9, <1>15, <4>1, <4>3
    <3>2. j # k
      BY <1>3, <1>4, <3>1
    <3>3. \A m \in 1..Len(uses) : uses[m].key # j
      BY <1>2, <1>4, <3>1, <3>2
    <3>4. QED
      BY <1>11, <1>12, <2>2, <3>2, <3>3
  <2>3. QED
    BY <2>1, <2>2
<1>16. QED
  BY <1>9, <1>10, <1>13, <1>14, <1>15 DEF KeyInv

(***************************************************************************)
(* Every step keeps the part about keys.                                   *)
(***************************************************************************)
LEMMA KeyStep == MoneyInv /\ KeyInv /\ [Next]_vars => KeyInv'
<1> SUFFICES ASSUME MoneyInv, KeyInv, [Next]_vars PROVE KeyInv'
  OBVIOUS
<1> USE DEF account, chain, history
<1>1. CASE UNCHANGED <<uses, charged, asked>>
  BY <1>1 DEF KeyInv, Distinct
<1>2. ASSUME NEW k \in Keys, ProcessUse(k) PROVE KeyInv'
  <2>1. RecordUse(k, Price) /\ Price \in Nat
    BY <1>2, SessionAssumption DEF ProcessUse, Debit
  <2>2. QED
    BY <2>1, RecordKeeps
<1>3. ASSUME NEW h \in Handlers, CommitCharge(h) PROVE KeyInv'
  <2>1. job[h].key \in Keys /\ job[h].total \in Nat
    BY <1>3 DEF CommitCharge, MoneyInv, FitsMoney
  <2>2. UNCHANGED <<uses, charged, asked>> \/ RecordUse(job[h].key, job[h].total)
    BY <1>3 DEF CommitCharge, Debit
  <2>3. QED
    BY <1>1, <2>1, <2>2, RecordKeeps
<1>4. ASSUME NEW h \in Handlers, Handler(h) PROVE KeyInv'
  BY <1>1, <1>3, <1>4
  DEF Handler, CommitVoucher, AcceptVoucher, ChargeRead, ChargeRetry, TopUpFinalized,
      CreditTopUp, SealParams, SealLands, MarkSealed, Fail, VoucherRead, ChargeBegin, TopUpRead
<1>5. QED
  BY <1>1, <1>2, <1>4
  DEF Next, vars, CommitDelivery, RecordUsage, BeginDelivery, Close, ObserveClosed,
      PayerCloses, TopUpMoves

(***************************************************************************)
(* A charge moves the watermark and what was spent by the same amount.     *)
(***************************************************************************)
LEMMA DebitRedeemable ==
    ASSUME MoneyInv, KeyInv, NEW k \in Keys, NEW total \in Nat, Debit(k, total), Open,
           Recorded(k) <= total, UNCHANGED <<settled, ours>>
    PROVE  Redeemable' /\ MoneyMoves
<1>1. Recorded(k) \in Nat
  BY RecordedIsCharged
<1>2. /\ cum + total - Recorded(k) <= deposit
      /\ cum' = cum + total - Recorded(k) /\ spent' = spent + total - Recorded(k)
      /\ UNCHANGED <<deposit, closing, fixed>> /\ ~closing
  BY DEF Debit, Open
<1>3. deposit \in Nat /\ cum \in Nat /\ spent \in Nat /\ settled \in Nat /\ spent <= cum
  BY DEF MoneyInv, Redeemable
<1>4. deposit' \in Nat /\ cum' \in Nat /\ spent' \in Nat /\ spent' <= cum' /\ cum' <= deposit'
  BY <1>1, <1>2, <1>3
<1>5. (fixed' => closing') /\ (ours' => closing') /\ ~fixed'
  BY <1>2 DEF MoneyInv, Redeemable
<1>6. QED
  BY <1>2, <1>3, <1>4, <1>5 DEF Redeemable, MoneyMoves

(***************************************************************************)
(* Every step keeps the part about money.                                  *)
(***************************************************************************)
LEMMA MoneyStep ==
  JobsInv /\ MoneyInv /\ KeyInv /\ DeliveryInv /\ [Next]_vars => MoneyInv'
<1> SUFFICES ASSUME JobsInv, MoneyInv, KeyInv, DeliveryInv, [Next]_vars PROVE MoneyInv'
  OBVIOUS
<1> USE DEF account, chain, history
<1>r. Redeemable
  BY DEF MoneyInv
<1>q. ASSUME UNCHANGED <<deposit, cum, spent, closing, fixed, settled, ours>>
      PROVE  Redeemable' /\ MoneyMoves
  BY <1>q, <1>r DEF Redeemable, MoneyMoves
<1>i. FitsMoney(Idle)'
  BY DEF FitsMoney, Idle
<1>1. ASSUME NEW h \in Handlers, Handler(h)
      PROVE  MoneyInv'
  <2>0. FitsMoney(job[h])
    BY DEF MoneyInv
  <2>1. CASE CommitVoucher(h)
    <3>1. Do(h, Idle) /\ UNCHANGED <<deposit, closing, fixed, settled, ours>> /\ ~closing
      BY <2>1 DEF CommitVoucher, AcceptVoucher, Open
    <3>2. CASE UNCHANGED <<cum, spent>>
      BY <1>i, <1>q, <3>1, <3>2, MoneyHolds
    <3>3. CASE /\ job[h].v > cum /\ job[h].v - spent >= Price
               /\ cum' = job[h].v /\ spent' = spent + Price
      <4>1. job[h].v \in Nat /\ job[h].v <= deposit /\ Price \in Nat
        BY <2>0, <2>1, SessionAssumption DEF CommitVoucher, FitsMoney
      <4>2. Redeemable' /\ MoneyMoves
        BY <1>r, <3>1, <3>3, <4>1 DEF Redeemable, MoneyMoves
      <4>3. QED
        BY <1>i, <3>1, <4>2, MoneyHolds
    <3>4. QED
      BY <2>1, <3>2, <3>3 DEF CommitVoucher, AcceptVoucher
  <2>2. CASE ChargeRead(h) \/ ChargeRetry(h)
    <3>1. /\ job[h].key \in Keys /\ job[h].total \in Nat
          /\ UNCHANGED <<deposit, cum, spent, closing, fixed, settled, ours>>
      BY <2>0, <2>2 DEF ChargeRead, ChargeRetry, FitsMoney
    <3>2. PICK k \in Keys, n \in Nat : k = job[h].key /\ n = job[h].total
      BY <3>1
    <3>3. \A stage, base, before, left : FitsMoney(Charge(stage, k, n, base, before, left))'
      BY DEF FitsMoney, Charge
    <3>4. \E j : Do(h, j) /\ (j = Idle \/ \E stage, base, before, left :
                    j = Charge(stage, k, n, base, before, left))
      BY <2>2, <3>2 DEF ChargeRead, ChargeRetry, StartOver
    <3>5. QED
      BY <1>i, <1>q, <3>1, <3>3, <3>4, MoneyHolds
  <2>3. CASE CommitCharge(h)
    <3>1. job[h].key \in Keys /\ job[h].total \in Nat /\ Open /\ UNCHANGED <<settled, ours>>
      BY <2>0, <2>3 DEF CommitCharge, FitsMoney
    <3>2. PICK k \in Keys, n \in Nat : k = job[h].key /\ n = job[h].total
      BY <3>1
    <3>3. /\ \A left : FitsMoney(Charge("read", k, n, 0, 0, left))'
          /\ \E j : Do(h, j) /\ (j = Idle \/ \E left : j = Charge("read", k, n, 0, 0, left))
      <4>1. \A left : FitsMoney(Charge("read", k, n, 0, 0, left))'
        BY DEF FitsMoney, Charge
      <4>2. \E j : Do(h, j) /\ (j = Idle \/ \E left : j = Charge("read", k, n, 0, 0, left))
        BY <2>3, <3>2 DEF CommitCharge, StartOver
      <4>3. QED
        BY <4>1, <4>2
    <3>4. \/ UNCHANGED <<deposit, cum, spent, closing, fixed>>
          \/ Recorded(job[h].key) < job[h].total /\ Debit(job[h].key, job[h].total)
      BY <2>3 DEF CommitCharge
    <3>5. Redeemable' /\ MoneyMoves
      <4>1. CASE UNCHANGED <<deposit, cum, spent, closing, fixed>>
        BY <1>q, <3>1, <4>1
      <4>2. CASE Recorded(job[h].key) < job[h].total /\ Debit(job[h].key, job[h].total)
        <5>1. Recorded(job[h].key) <= job[h].total
          BY <3>1, <4>2, RecordedIsCharged
        <5>2. QED
          BY <3>1, <4>2, <5>1, DebitRedeemable
      <4>3. QED
        BY <3>4, <4>1, <4>2
    <3>6. QED
      BY <1>i, <3>3, <3>5, MoneyHolds
  <2>4. CASE TopUpFinalized(h) \/ \E t \in TopUps : TopUpRead(h, t)
    <3>1. \E j : Do(h, j) /\ j.op = "topup"
      <4>1. \A stage, t, base : TopUp(stage, t, base).op = "topup"
        BY DEF TopUp
      <4>2. QED
        BY <2>4, <4>1 DEF TopUpFinalized, TopUpRead
    <3>2. \A j : j.op = "topup" => FitsMoney(j)'
      BY DEF FitsMoney
    <3>3. UNCHANGED <<deposit, cum, spent, closing, fixed, settled, ours>>
      BY <2>4 DEF TopUpFinalized, TopUpRead
    <3>4. QED
      BY <1>q, <3>1, <3>2, <3>3, MoneyHolds
  <2>5. CASE CreditTopUp(h)
    <3>1. /\ Do(h, Idle) /\ UNCHANGED <<cum, spent, closing, fixed, settled, ours>>
          /\ deposit' \in {deposit, deposit + 1}
      BY <2>5 DEF CreditTopUp
    <3>2. Redeemable' /\ MoneyMoves
      BY <1>r, <3>1 DEF Redeemable, MoneyMoves
    <3>3. QED
      BY <1>i, <3>1, <3>2, MoneyHolds
  <2>6. CASE SealParams(h)
    <3>1. /\ Do(h, Seal("send", cum)) /\ closing
          /\ UNCHANGED <<deposit, cum, spent, closing, fixed, settled, ours>>
      BY <2>6 DEF SealParams
    <3>3. \A c : c = cum => FitsMoney(Seal("send", c))'
      BY <1>r, <3>1 DEF FitsMoney, Seal, Redeemable
    <3>4. PICK c : c = cum
      OBVIOUS
    <3>5. QED
      BY <1>q, <3>1, <3>3, <3>4, MoneyHolds
  <2>7. CASE SealLands(h)
    <3>1. /\ Do(h, Seal("mark", 0)) /\ settled' = Max({settled, job[h].amount})
          /\ UNCHANGED <<deposit, cum, spent, closing, fixed>>
      BY <2>7 DEF SealLands
    <3>2. closing /\ job[h].amount \in Nat /\ (fixed => job[h].amount >= spent)
      BY <2>0, <2>7 DEF SealLands, FitsMoney
    <3>3. settled' \in Nat /\ settled' >= job[h].amount
      <4> DEFINE x == settled  y == job[h].amount
      <4>1. x \in Int /\ y \in Int /\ x \in Nat /\ y \in Nat /\ settled' = Max({x, y})
        BY <1>r, <3>1, <3>2 DEF Redeemable
      <4> HIDE DEF x, y
      <4>2. Max({x, y}) \in {x, y} /\ Max({x, y}) >= y
        BY <4>1, MaxOfTwo
      <4>3. settled' \in Nat /\ settled' >= y
        BY <4>1, <4>2
      <4>4. QED
        BY <4>3 DEF y
    <3>4. Redeemable' /\ MoneyMoves
      BY <1>r, <3>1, <3>2, <3>3 DEF Redeemable, MoneyMoves
    <3>5. FitsMoney(Seal("mark", 0))'
      BY <3>1, <3>2 DEF FitsMoney, Seal
    <3>6. QED
      BY <3>1, <3>4, <3>5, MoneyHolds
  <2>8. CASE MarkSealed(h) \/ Fail(h)
    <3>1. Do(h, Idle) /\ UNCHANGED <<deposit, cum, spent, closing, fixed, settled, ours>>
      BY <2>8 DEF MarkSealed, Fail
    <3>2. QED
      BY <1>i, <1>q, <3>1, MoneyHolds
  <2>9. ASSUME NEW v \in Amounts, VoucherRead(h, v) PROVE MoneyInv'
    <3>1. /\ Do(h, [op |-> "voucher", v |-> v, seen |-> cum]) /\ v <= deposit
          /\ UNCHANGED <<deposit, cum, spent, closing, fixed, settled, ours>>
      BY <2>9 DEF VoucherRead
    <3>2. v \in Nat
      BY AmountsAreNat
    <3>3. \A c : FitsMoney([op |-> "voucher", v |-> v, seen |-> c])'
      BY <3>1, <3>2 DEF FitsMoney
    <3>4. QED
      BY <1>q, <3>1, <3>3, MoneyHolds
  <2>10. ASSUME NEW k \in Keys, NEW n \in 1..MaxTotal, ChargeBegin(h, k, n) PROVE MoneyInv'
    <3>1. /\ Do(h, Charge("read", k, n, 0, 0, Attempts))
          /\ UNCHANGED <<deposit, cum, spent, closing, fixed, settled, ours>>
      BY <2>10 DEF ChargeBegin
    <3>2. FitsMoney(Charge("read", k, n, 0, 0, Attempts))'
      BY SessionAssumption DEF FitsMoney, Charge
    <3>3. QED
      BY <1>q, <3>1, <3>2, MoneyHolds
  <2>11. QED
    BY <1>1, <2>1, <2>2, <2>3, <2>4, <2>5, <2>6, <2>7, <2>8, <2>9, <2>10 DEF Handler
<1>2. ASSUME NEW k \in Keys, ProcessUse(k) PROVE MoneyInv'
  <2>1. /\ Debit(k, Price) /\ Open /\ Recorded(k) <= Price /\ Price \in Nat
        /\ UNCHANGED <<job, settled, ours>>
    BY <1>2, SessionAssumption DEF ProcessUse
  <2>2. QED
    BY <2>1, DebitRedeemable, MoneyRests
<1>3. ASSUME NEW d \in Deliveries, CommitDelivery(d) PROVE MoneyInv'
  <2>1. /\ cum + pending[d] <= deposit /\ cum' = cum + pending[d] /\ ~fixed
        /\ spent' = spent + pending[d] /\ pending[d] \in Nat
        /\ UNCHANGED <<deposit, closing, fixed, settled, ours, job>>
    BY <1>3 DEF CommitDelivery, DeliveryInv
  <2>2. Redeemable' /\ MoneyMoves
    BY <1>r, <2>1 DEF Redeemable, MoneyMoves
  <2>3. QED
    BY <2>1, <2>2, MoneyRests
<1>4. ASSUME NEW v \in Amounts, Close(v) PROVE MoneyInv'
  <2>1. Reserved \in Nat
    <3>1. IsFiniteSet(Deliveries) /\ pending \in [Deliveries -> Nat]
      BY SessionAssumption DEF DeliveryInv
    <3>2. QED
      BY <3>1, SumIsNat DEF Reserved
  <2>2. /\ v <= deposit /\ v \in Nat /\ (v > cum \/ v = cum) /\ ~closing
        /\ Reserved > 0 => v >= cum + Reserved
        /\ cum' = v /\ spent' = spent + Reserved /\ closing'
        /\ UNCHANGED <<deposit, settled, ours, job>>
    BY <1>4, AmountsAreNat DEF Close, Open
  <2>3. Redeemable' /\ MoneyMoves
    BY <1>r, <2>1, <2>2 DEF Redeemable, MoneyMoves
  <2>4. QED
    BY <2>2, <2>3, MoneyRests
<1>5. CASE ObserveClosed
  <2>1. UNCHANGED <<deposit, cum, spent, fixed, settled, ours, job>> /\ closing'
    BY <1>5 DEF ObserveClosed
  <2>2. Redeemable' /\ MoneyMoves
    BY <1>r, <2>1 DEF Redeemable, MoneyMoves
  <2>3. QED
    BY <2>1, <2>2, MoneyRests
<1>6. CASE UNCHANGED <<deposit, cum, spent, closing, fixed, settled, ours, job>>
  BY <1>6, <1>q, MoneyRests
<1>7. QED
  BY <1>1, <1>2, <1>3, <1>4, <1>5, <1>6
  DEF Next, vars, RecordUsage, BeginDelivery, PayerCloses, TopUpMoves

-----------------------------------------------------------------------------
(***************************************************************************)
(* The invariant holds in every reachable state, for any sets of requests, *)
(* keys, deliveries and top-ups and any number of lost replies.            *)
(***************************************************************************)
THEOREM AccountInvariant == Spec => []AccountInv
<1>1. AccountInv /\ [Next]_vars => AccountInv'
  BY JobsStep, VoucherStep, DeliveryStep, TopUpStep, MoneyStep, KeyStep DEF AccountInv
<1>2. QED
  BY AccountInit, <1>1, PTL DEF Spec

(***************************************************************************)
(* A voucher is reported as a fresh charge at most once (AcceptedOnce),    *)
(* however many requests of accept_voucher_with_commit race on it and      *)
(* whatever replies of the store are lost.                                 *)
(***************************************************************************)
THEOREM VoucherOnce == Spec => []AcceptedOnce
<1>1. AccountInv => AcceptedOnce
  <2> SUFFICES ASSUME VoucherInv PROVE \A a \in Amounts : accepted[a] <= 1
    BY DEF AccountInv, AcceptedOnce
  <2>1. mode = "client" \/ mode = "operator"
    BY DEF VoucherInv
  <2>2. QED
    BY <2>1 DEF VoucherInv
<1>2. QED
  BY <1>1, AccountInvariant, PTL

(***************************************************************************)
(* A delivery is charged at most what begin_delivery reserved, by          *)
(* process_commit or by process_close but not by both.                     *)
(***************************************************************************)
THEOREM DeliveryOnce == Spec => []DeliveryChargedOnce
<1>1. AccountInv => DeliveryChargedOnce
  <2> SUFFICES ASSUME DeliveryInv, NEW d \in Deliveries PROVE paid[d] <= directed[d]
    BY DEF AccountInv, DeliveryChargedOnce
  <2>1. /\ paid[d] \in Nat /\ pending[d] \in Nat /\ directed[d] \in Nat
        /\ paid[d] + pending[d] <= directed[d]
    BY DEF DeliveryInv
  <2>2. QED
    BY <2>1
<1>2. QED
  BY <1>1, AccountInvariant, PTL

(***************************************************************************)
(* The deposit the server spends against is escrowed in finalized top-ups, *)
(* each credited once, however many requests present it.                   *)
(***************************************************************************)
THEOREM DepositHolds == Spec => []DepositIsEscrowed
<1>1. AccountInv => DepositIsEscrowed
  <2> SUFFICES ASSUME TopUpInv PROVE deposit <= Deposit0 + Cardinality(Finalized)
    BY DEF AccountInv, DepositIsEscrowed
  <2>1. IsFiniteSet(Finalized) /\ credited \subseteq Finalized
    BY SessionAssumption, FS_Subset DEF TopUpInv, Finalized
  <2>2. Cardinality(credited) <= Cardinality(Finalized)
    BY <2>1, FS_Subset
  <2>3. Cardinality(credited) \in Nat /\ Cardinality(Finalized) \in Nat /\ Deposit0 \in Nat
    BY <2>1, FS_Subset, FS_CardinalityType, SessionAssumption
  <2>4. QED
    BY <2>2, <2>3 DEF TopUpInv
<1>2. QED
  BY <1>1, AccountInvariant, PTL

(***************************************************************************)
(* What was charged is covered by a voucher, the voucher by the deposit,   *)
(* and a channel that process_close closed with a final voucher is sealed  *)
(* for all of it (SpentIsRedeemable), whatever was accepted, charged or    *)
(* committed meanwhile.  A seal reads its amount long before it lands, so  *)
(* the invariant says of the waiting job that its amount still covers what *)
(* was spent: a closing record takes no further charge.                    *)
(***************************************************************************)
THEOREM SpentHolds == Spec => []SpentIsRedeemable
<1>1. AccountInv => SpentIsRedeemable
  BY DEF AccountInv, MoneyInv, Redeemable, SpentIsRedeemable
<1>2. QED
  BY <1>1, AccountInvariant, PTL

(***************************************************************************)
(* A key is charged no more than the largest total asked for under it, as  *)
(* long as the channel remembers it (KeyChargedOnce): record_use keeps one *)
(* entry per key, which says what was charged, so commit_charge charges    *)
(* the difference to it however often the store makes it start over.       *)
(***************************************************************************)
THEOREM KeyOnce == Spec => []KeyChargedOnce
<1>1. AccountInv => KeyChargedOnce
  <2> SUFFICES ASSUME KeyInv, NEW k \in Keys PROVE charged[k] <= asked[k]
    BY DEF AccountInv, KeyChargedOnce
  <2>1. charged[k] \in Nat /\ asked[k] \in Nat
    BY DEF KeyInv
  <2>2. CASE \E i \in 1..Len(uses) : uses[i].key = k
    BY <2>2 DEF KeyInv
  <2>3. CASE \A i \in 1..Len(uses) : uses[i].key # k
    BY <2>1, <2>3 DEF KeyInv
  <2>4. QED
    BY <2>2, <2>3
<1>2. QED
  BY <1>1, AccountInvariant, PTL

-----------------------------------------------------------------------------
(***************************************************************************)
(* The parts of the type invariant that no other part needs: the number of *)
(* requests remembered, the flags, the kinds of jobs and the bounds.       *)
(***************************************************************************)
Kinds == {"none", "voucher", "charge", "topup", "seal"}

RestInv ==
    /\ Len(uses) <= MaxUses
    /\ fixed \in BOOLEAN /\ sealed \in BOOLEAN /\ ours \in BOOLEAN
    /\ committed \subseteq Deliveries
    /\ \A h \in Handlers : job[h].op \in Kinds
    /\ lost \in 0..MaxLost
    /\ status \in {"open", "closing", "sealed"}

(***************************************************************************)
(* record_use leaves no more than MAX_PROCESSED_USES entries.              *)
(***************************************************************************)
LEMMA RecordBounds ==
    ASSUME KeyInv, NEW k \in Keys, NEW total \in Nat, RecordUse(k, total)
    PROVE  Len(uses') <= MaxUses
<1> DEFINE E == [key : Keys, total : Nat]
           e == [key |-> k, total |-> total]
           kept == Append(Without(k), e)
           d == Len(kept) - MaxUses
           excess == Max({d, 0})
<1>1. uses' = SubSeq(kept, excess + 1, Len(kept))
  BY DEF RecordUse
<1>2. Without(k) \in Seq(E) /\ e \in E
  BY WithoutKey
<1>3. kept \in Seq(E) /\ Len(kept) \in Nat /\ MaxUses \in Nat
  BY <1>2, SessionAssumption
<1> HIDE DEF kept
<1>4. d \in Int
  BY <1>3
<1>5. excess \in {d, 0} /\ excess >= d /\ excess >= 0
  <2> HIDE DEF d
  <2>1. QED
    BY <1>4, MaxOfTwo
<1> HIDE DEF excess
<1>6. excess \in Nat
  BY <1>3, <1>5
<1>7. Len(uses') = IF excess + 1 <= Len(kept) THEN Len(kept) - excess ELSE 0
  BY <1>1, <1>3, <1>6
<1>8. QED
  BY <1>3, <1>5, <1>6, <1>7

LEMMA RestStep == JobsInv /\ MoneyInv /\ KeyInv /\ RestInv /\ [Next]_vars => RestInv'
<1> SUFFICES ASSUME JobsInv, MoneyInv, KeyInv, RestInv, [Next]_vars PROVE RestInv'
  OBVIOUS
<1> USE DEF account, chain, history
<1>1. MaxLost \in Nat /\ MaxUses \in Nat
  BY SessionAssumption
<1>2. ASSUME NEW h \in Handlers, Handler(h) PROVE RestInv'
  <2>0. /\ Idle.op \in Kinds
        /\ \A a, b, c, d, e, f : Charge(a, b, c, d, e, f).op \in Kinds
        /\ \A a, b, c : TopUp(a, b, c).op \in Kinds
        /\ \A a, b : Seal(a, b).op \in Kinds
        /\ \A v, n : [op |-> "voucher", v |-> v, seen |-> n].op \in Kinds
    BY DEF Idle, Charge, TopUp, Seal, Kinds
  <2>1. \E j : Do(h, j) /\ j.op \in Kinds
    BY <1>2, <2>0, Zenon DEF Handler, CommitVoucher, ChargeRead, CommitCharge, ChargeRetry, StartOver,
         TopUpFinalized, CreditTopUp, SealParams, SealLands, MarkSealed, Fail,
         VoucherRead, ChargeBegin, TopUpRead
  <2>2. \A g \in Handlers : job'[g].op \in Kinds
    BY <2>1, DoMoves DEF RestInv
  <2>3. Len(uses') <= MaxUses
    <3>1. CASE UNCHANGED uses
      BY <3>1 DEF RestInv
    <3>2. CASE CommitCharge(h)
      <4>1. job[h].key \in Keys /\ job[h].total \in Nat
        BY <3>2 DEF CommitCharge, MoneyInv, FitsMoney
      <4>2. UNCHANGED uses \/ RecordUse(job[h].key, job[h].total)
        BY <3>2 DEF CommitCharge, Debit
      <4>3. QED
        BY <3>1, <4>1, <4>2, RecordBounds
    <3>3. QED
      BY <1>2, <3>1, <3>2
      DEF Handler, CommitVoucher, AcceptVoucher, ChargeRead, ChargeRetry, TopUpFinalized,
          CreditTopUp, SealParams, SealLands, MarkSealed, Fail, VoucherRead, ChargeBegin,
          TopUpRead
  <2>4. lost' = lost \/ (lost < MaxLost /\ lost' = lost + 1)
    BY <1>2
    DEF Handler, CommitVoucher, ChargeRead, CommitCharge, ChargeRetry, TopUpFinalized,
        CreditTopUp, SealParams, SealLands, MarkSealed, Fail, VoucherRead, ChargeBegin,
        TopUpRead, Lost
  <2>5. /\ UNCHANGED <<fixed, committed>>
        /\ sealed' \in {sealed, TRUE} /\ ours' \in {ours, TRUE} /\ status' \in {status, "sealed"}
    BY <1>2
    DEF Handler, CommitVoucher, AcceptVoucher, ChargeRead, CommitCharge, Debit, ChargeRetry,
        TopUpFinalized, CreditTopUp, SealParams, SealLands, MarkSealed, Fail, VoucherRead,
        ChargeBegin, TopUpRead
  <2>6. lost' \in 0..MaxLost
    BY <1>1, <2>4 DEF RestInv
  <2>7. sealed' \in BOOLEAN /\ ours' \in BOOLEAN /\ fixed' \in BOOLEAN
    BY <2>5, Zenon DEF RestInv
  <2>8. committed' \subseteq Deliveries /\ status' \in {"open", "closing", "sealed"}
    BY <2>5 DEF RestInv
  <2>9. QED
    BY <2>2, <2>3, <2>6, <2>7, <2>8 DEF RestInv
<1>3. ASSUME NEW k \in Keys, ProcessUse(k) PROVE RestInv'
  <2>1. RecordUse(k, Price) /\ Price \in Nat
    BY <1>3, SessionAssumption DEF ProcessUse, Debit
  <2>2. Len(uses') <= MaxUses
    BY <2>1, RecordBounds
  <2>3. UNCHANGED <<fixed, sealed, ours, committed, job, lost, status>>
    BY <1>3 DEF ProcessUse, Debit
  <2>4. QED
    BY <2>2, <2>3 DEF RestInv
<1>4. CASE \/ \E d \in Deliveries :
                CommitDelivery(d) \/ \E a \in Amounts : RecordUsage(d, a) \/ BeginDelivery(d, a)
           \/ \E v \in Amounts : Close(v)
           \/ ObserveClosed \/ PayerCloses \/ \E t \in TopUps : TopUpMoves(t)
           \/ UNCHANGED vars
  <2>1. UNCHANGED <<uses, job, lost, ours>>
    BY <1>4 DEF vars, CommitDelivery, RecordUsage, BeginDelivery, Close, ObserveClosed,
         PayerCloses, TopUpMoves
  <2>2. /\ fixed' \in {fixed, TRUE} /\ sealed' \in {sealed, TRUE, FALSE}
        /\ committed' \subseteq committed \cup Deliveries
        /\ status' \in {status, "closing", "sealed"}
    BY <1>4 DEF vars, CommitDelivery, RecordUsage, BeginDelivery, Close, ObserveClosed,
         PayerCloses, TopUpMoves
  <2>3. fixed' \in BOOLEAN /\ sealed' \in BOOLEAN /\ ours' \in BOOLEAN
    BY <2>1, <2>2, Zenon DEF RestInv
  <2>4. committed' \subseteq Deliveries /\ status' \in {"open", "closing", "sealed"}
    BY <2>2 DEF RestInv
  <2>5. QED
    BY <2>1, <2>3, <2>4 DEF RestInv
<1>5. QED
  BY <1>2, <1>3, <1>4 DEF Next

(***************************************************************************)
(* Every variable keeps its type; of them the record of uses is the one    *)
(* that could grow: record_use drops the oldest entries, so it never holds *)
(* more than MAX_PROCESSED_USES.                                           *)
(***************************************************************************)
THEOREM AccountTyped == Spec => []TypeOK
<1>1. Init => RestInv
  <2>1. MaxLost \in Nat /\ MaxUses \in Nat /\ Len(<<>>) = 0
    BY SessionAssumption
  <2>2. Init => \A h \in Handlers : job[h].op \in Kinds
    BY DEF Init, Idle, Kinds
  <2>3. Init => fixed \in BOOLEAN /\ sealed \in BOOLEAN /\ ours \in BOOLEAN
    BY DEF Init
  <2>4. Init => /\ Len(uses) <= MaxUses /\ committed \subseteq Deliveries /\ lost \in 0..MaxLost
                /\ status \in {"open", "closing", "sealed"}
    BY <2>1 DEF Init
  <2>5. QED
    BY <2>2, <2>3, <2>4 DEF RestInv
<1>2. AccountInv /\ RestInv /\ [Next]_vars => RestInv'
  BY RestStep DEF AccountInv
<1>3. AccountInv /\ RestInv => TypeOK
  <2> SUFFICES ASSUME AccountInv, RestInv PROVE TypeOK
    OBVIOUS
  <2>1. mode \in {"client", "operator"}
    BY DEF AccountInv, VoucherInv
  <2>2. {deposit, cum, spent, settled} \subseteq Nat
    BY DEF AccountInv, MoneyInv, Redeemable
  <2>3. {closing, fixed, sealed, ours} \subseteq BOOLEAN
    BY DEF AccountInv, DeliveryInv, RestInv
  <2>4. credited \subseteq TopUps /\ landed \in [TopUps -> {"none", "confirmed", "final"}]
    BY DEF AccountInv, TopUpInv, Finalized
  <2>5. uses \in Seq([key : Keys, total : Nat]) /\ pending \in [Deliveries -> Nat]
    BY DEF AccountInv, KeyInv, DeliveryInv
  <2>6. QED
    BY <2>1, <2>2, <2>3, <2>4, <2>5 DEF TypeOK, RestInv, Kinds
<1>4. QED
  BY <1>1, <1>2, <1>3, AccountInvariant, PTL DEF Spec

=============================================================================

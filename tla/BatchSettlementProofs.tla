------------------------ MODULE BatchSettlementProofs ------------------------
(***************************************************************************)
(* A batch-settlement channel, for any vouchers, prices, requests, workers *)
(* and closes, any number of crashes and store errors, and any delay a     *)
(* transaction lands with.                                                 *)
(***************************************************************************)
EXTENDS BatchSettlement, TLAPS

-----------------------------------------------------------------------------
(***************************************************************************)
(* Reservations.  The record holds at most one, and it steps from the      *)
(* watermark.  A request between its reservation and the mark holds that   *)
(* one, not yet marked, and nobody else who may commit has its token.      *)
(***************************************************************************)
Holding == {"handler", "release", "mark"}

OneReservation == \A p, q \in ch.pending : p = q

ReservationSteps == \A p \in ch.pending : ch.cum + p.amt = p.cum /\ p.seq <= ch.seq

TokensMinted == \A r \in Requests : tok[r] <= ch.seq

Reserves(r, p) ==
    p.seq = tok[r] /\ p.cum = pay[r].cum /\ p.amt = pay[r].amt /\ ~p.ok

HoldersHold ==
    \A r \in Requests : pc[r] \in Holding => \E p \in ch.pending : Reserves(r, p)

HoldersExclusive ==
    \A q, r \in Requests :
        pc[r] \in Holding /\ pc[q] \in Holding \cup {"commit"} /\ tok[q] = tok[r] => q = r

HoldersUnserved ==
    \A r \in Requests : pc[r] \in {"handler", "release"} => served[pay[r].cum] = 0

ChargedUpTo == ch.cum \in charged /\ \A v \in charged : v <= ch.cum

FenceCloses == ch.final # NoFence => ch.closing

ServeInv ==
    /\ OneReservation /\ ReservationSteps /\ TokensMinted
    /\ HoldersHold /\ HoldersExclusive /\ HoldersUnserved
    /\ ChargedUpTo /\ FenceCloses
    /\ HandlerRunsOnce /\ ServedIsAccounted

-----------------------------------------------------------------------------
(***************************************************************************)
(* Settlements.  A transaction that seals with a voucher carries the       *)
(* watermark, and was built behind a fence that keeps it there; one that   *)
(* seals without was built once everything charged was on chain.           *)
(***************************************************************************)
Fenced == ch.final # NoFence

Sealing == {"apply", "close", "close_bare"}

TxFits(t) ==
    /\ t.kind = "settle" => t.cum \in charged
    /\ t.kind \in Sealing => Fenced /\ t.cum = ch.cum
    /\ t.kind = "close_bare" => chain.settled = ch.cum

TxsFenced == \A t \in txs : TxFits(t)

DoneSettled ==
    \A t \in done : t \in txs /\ (t.kind \in Sealing \cup {"settle"} => t.cum <= chain.settled)

SettledCharged == chain.settled = 0 \/ chain.settled \in charged

SealedFenced ==
    /\ chain.status \in {"open", "closing"} <=> chain.by = "nobody"
    /\ chain.by = "voucher" => Fenced /\ chain.settled = ch.cum

(***************************************************************************)
(* A closer between its read and its end has read no more than is settled; *)
(* once it submits, the watermark it closes at is fenced.                  *)
(***************************************************************************)
CloserFits(k) ==
    /\ pc[k] \in {"fence", "wait"} => seen[k].settled <= chain.settled
    /\ pc[k] \in {"wait", "check", "record"} => Fenced /\ seen[k].cum = ch.cum

ClosersFenced == \A k \in Closers : CloserFits(k)

FenceInv ==
    TxsFenced /\ DoneSettled /\ SettledCharged /\ SealedFenced /\ ClosersFenced

-----------------------------------------------------------------------------
(***************************************************************************)
(* What the record shows of the chain: reads and confirmations say no more *)
(* than is settled, and a close is recorded only of a distributed channel. *)
(***************************************************************************)
ReadsSettled ==
    /\ \A r \in Requests : pc[r] = "observe" => seen[r].settled <= chain.settled
    /\ \A f \in Finalizers :
         pc[f] = "record" /\ seen[f].kind = "apply" => seen[f].cum <= chain.settled
    /\ \A q \in Claimers : pc[q] = "wait" => seen[q].kind = "settle"

ClosersChecked == \A k \in Closers : pc[k] = "record" => chain.status = "distributed"

ClaimedSettled ==
    /\ ch.claimed > chain.settled => ch.closedAt # 0 /\ chain.by = "deadline"
    /\ ch.closedAt # 0 =>
         /\ chain.status = "distributed" /\ chain.settled <= ch.closedAt
         /\ chain.by = "voucher" => chain.settled = ch.closedAt

RecordInv == ReadsSettled /\ ClosersChecked /\ ClaimedSettled

-----------------------------------------------------------------------------
(***************************************************************************)
(* Types.  Each transition of the record yields a record.                  *)
(***************************************************************************)
Readings ==
    [status : Statuses, settled : Vouchers \cup {0}, slot : Nat, at : Nat,
     cum : Vouchers, kind : Kinds, rebuilt : BOOLEAN]

LEMMA VoucherNat == Vouchers \subseteq Nat \ {0} /\ \A v \in Vouchers \cup {0} : v \in Nat
<1>1. Vouchers \subseteq Nat \ {0}
  BY ChannelAssumption
<1>2. ASSUME NEW v \in Vouchers \cup {0} PROVE v \in Nat
  <2>1. CASE v \in Vouchers
    BY <1>1, <2>1
  <2>2. CASE v = 0
    BY <2>2
  <2>3. QED
    BY <2>1, <2>2
<1>3. QED
  BY <1>1, <1>2

LEMMA NothingTyped == Nothing \in Readings
  BY ChannelAssumption DEF Nothing, Readings, Statuses, Kinds

LEMMA NoPayTyped == NoPay \in [cum : Vouchers, amt : Amounts, replay : BOOLEAN]
  BY ChannelAssumption DEF NoPay

LEMMA BlockingTyped == \A c, now : Blocking(c, now) \in BOOLEAN
  BY DEF Blocking

LEMMA ClaimedTyped ==
  ASSUME NEW c \in ChannelStates, NEW amount \in Vouchers \cup {0}
  PROVE  /\ Claimed(c, amount) \in ChannelStates
         /\ Claimed(c, amount).claimed = Larger(c.claimed, amount)
         /\ Larger(c.claimed, amount) \in Vouchers \cup {0}
  BY DEF ChannelStates, Claimed, Larger

LEMMA ObservedTyped ==
  ASSUME NEW c \in ChannelStates, NEW status \in Statuses, NEW slot \in Nat, NEW now \in Nat
  PROVE  Observed(c, status, slot, now) \in ChannelStates
<1> DEFINE closing == c.closing \/ status # "open"
           sealed == c.sealed \/ status \in {"sealed", "distributed"}
           at == IF Behind(c, slot) THEN c.seenAt ELSE now
           newest == IF Behind(c, slot) THEN c.seenSlot ELSE slot
<1>1. closing \in BOOLEAN /\ sealed \in BOOLEAN
  BY Zenon
<1>2. at \in Nat /\ newest \in Nat
  BY DEF ChannelStates
<1>3. Observed(c, status, slot, now) =
        [c EXCEPT !.closing = closing, !.sealed = sealed, !.seenAt = at, !.seenSlot = newest]
  BY DEF Observed
<1> HIDE DEF closing, sealed, at, newest
<1>4. QED
  BY <1>1, <1>2, <1>3 DEF ChannelStates

LEMMA ObservedKeeps ==
  ASSUME NEW c \in ChannelStates, NEW status, NEW slot, NEW now
  PROVE  LET o == Observed(c, status, slot, now) IN
         /\ o.cum = c.cum /\ o.pending = c.pending /\ o.seq = c.seq /\ o.final = c.final
         /\ o.claimed = c.claimed /\ o.closedAt = c.closedAt
         /\ c.sealed => o.sealed
         /\ o.closing <=> c.closing \/ status # "open"
         /\ o.seenAt = IF Behind(c, slot) THEN c.seenAt ELSE now
         /\ o.seenSlot = IF Behind(c, slot) THEN c.seenSlot ELSE slot
<1> DEFINE closing == c.closing \/ status # "open"
           sealed == c.sealed \/ status \in {"sealed", "distributed"}
           at == IF Behind(c, slot) THEN c.seenAt ELSE now
           newest == IF Behind(c, slot) THEN c.seenSlot ELSE slot
           o == Observed(c, status, slot, now)
<1>1. o = [c EXCEPT !.closing = closing, !.sealed = sealed, !.seenAt = at, !.seenSlot = newest]
  BY DEF Observed
<1>2. c.sealed => sealed
  OBVIOUS
<1> HIDE DEF closing, sealed, at, newest, o
<1>3. /\ o.cum = c.cum /\ o.pending = c.pending /\ o.seq = c.seq /\ o.final = c.final
      /\ o.claimed = c.claimed /\ o.closedAt = c.closedAt
      /\ o.sealed = sealed /\ o.closing = closing /\ o.seenAt = at /\ o.seenSlot = newest
  BY <1>1 DEF ChannelStates
<1>4. QED
  BY <1>2, <1>3, Zenon DEF closing, at, newest, o

LEMMA ReservedTyped ==
  ASSUME NEW c \in ChannelStates, NEW payment \in Payments, NEW now \in Nat,
         NEW d \in Reserved(c, payment, now)
  PROVE  d \in ChannelStates
<1> DEFINE entry == [cum |-> payment.cum, amt |-> payment.amt, seq |-> c.seq + 1,
                     exp |-> now + Lease, ok |-> FALSE]
<1>1. entry \in Pendings
  BY ChannelAssumption DEF Payments, Pendings, ChannelStates
<1>2. PICK S \in Pruned(c.committed, {}) :
        d = [c EXCEPT !.committed = S, !.seq = @ + 1, !.pending = @ \cup {entry}]
  BY DEF Reserved
<1>3. S \in SUBSET Payments
  BY DEF Pruned, ChannelStates
<1> HIDE DEF entry
<1>4. c.pending \cup {entry} \in SUBSET Pendings /\ c.seq + 1 \in Nat
  BY <1>1 DEF ChannelStates
<1>5. QED
  BY <1>2, <1>3, <1>4 DEF ChannelStates

LEMMA MarkedTyped ==
  ASSUME NEW c \in ChannelStates, NEW payment \in Payments, NEW token \in Nat
  PROVE  Marked(c, payment, token) \in ChannelStates
<1>1. {[p EXCEPT !.ok = TRUE] : p \in Held(c, payment, token)} \subseteq Pendings
  BY DEF Held, ChannelStates, Pendings
<1>2. QED
  BY <1>1 DEF Marked, ChannelStates

LEMMA ReleasedTyped ==
  ASSUME NEW c \in ChannelStates, NEW payment
  PROVE  Released(c, payment) \in ChannelStates
  BY DEF Released, ChannelStates

LEMMA CommittedTyped ==
  ASSUME NEW c \in ChannelStates, NEW payment \in Payments,
         NEW d \in Committed(c, payment)
  PROVE  d \in ChannelStates
<1>1. PICK S \in Pruned(c.committed \cup {payment}, {payment}) :
        d = [c EXCEPT !.cum = payment.cum, !.committed = S,
                      !.pending = @ \ Of(@, payment.cum)]
  BY DEF Committed
<1>2. S \in SUBSET Payments
  BY DEF Pruned, ChannelStates
<1>3. QED
  BY <1>1, <1>2 DEF ChannelStates, Payments

LEMMA PlannedTyped ==
  ASSUME NEW c \in ChannelStates, NEW settled \in Vouchers \cup {0}, NEW past, NEW now
  PROVE  /\ Planned(c, settled, past, now) \in ChannelStates
         /\ Plan(c, settled, past, now) \in {"in_flight", "frozen", "nothing", "apply"}
<1>1. Plan(c, settled, past, now) \in {"in_flight", "frozen", "nothing", "apply"}
  BY DEF Plan
<1>2. QED
  BY <1>1 DEF Planned, ChannelStates

LEMMA TypedInit == Init => TypeOK
<1> SUFFICES ASSUME Init PROVE TypeOK
  OBVIOUS
<1>1. ch \in ChannelStates
  BY ChannelAssumption DEF Init, Opened, ChannelStates, Payments
<1>2. chain \in [status : Statuses, settled : Vouchers \cup {0}, closed : Nat,
                 by : {"nobody", "voucher", "deadline"}]
  BY DEF Init, Statuses
<1>3. pc \in [Processes -> Phases] /\ txs \subseteq Txs /\ done \subseteq Txs
  BY DEF Init, Phases
<1>4. /\ clock \in 0..MaxClock /\ crashes \in 0..MaxCrashes
      /\ tok \in [Requests -> Nat] /\ tries \in [Requests -> 0..Attempts]
  BY SettlementAssumption DEF Init
<1>5. /\ pay \in [Requests -> [cum : Vouchers, amt : Amounts, replay : BOOLEAN]]
      /\ seen \in [Processes -> Readings]
  BY NothingTyped, NoPayTyped DEF Init
<1>6. served \in [Vouchers -> Nat] /\ charged \subseteq Vouchers
  BY ChannelAssumption DEF Init
<1>7. QED
  BY <1>1, <1>2, <1>3, <1>4, <1>5, <1>6 DEF TypeOK, Readings

(***************************************************************************)
(* The locals of processes keep their types.                               *)
(***************************************************************************)
LocalsTyped ==
    /\ pc \in [Processes -> Phases]
    /\ pay \in [Requests -> [cum : Vouchers, amt : Amounts, replay : BOOLEAN]]
    /\ tok \in [Requests -> Nat] /\ tries \in [Requests -> 0..Attempts]
    /\ seen \in [Processes -> Readings]

ChainTyped ==
    /\ chain \in [status : Statuses, settled : Vouchers \cup {0}, closed : Nat,
                  by : {"nobody", "voucher", "deadline"}]
    /\ txs \subseteq Txs /\ done \subseteq Txs

HistoryTyped ==
    crashes \in 0..MaxCrashes /\ served \in [Vouchers -> Nat] /\ charged \subseteq Vouchers

LEMMA TypeParts ==
    TypeOK <=> /\ ch \in ChannelStates /\ ChainTyped /\ clock \in 0..MaxClock
               /\ LocalsTyped /\ HistoryTyped
  BY DEF TypeOK, LocalsTyped, ChainTyped, HistoryTyped, Readings

LEMMA TypePartsNext ==
  ASSUME (ch \in ChannelStates /\ ChainTyped /\ clock \in 0..MaxClock
          /\ LocalsTyped /\ HistoryTyped)'
  PROVE  TypeOK'
  BY DEF TypeOK, LocalsTyped, ChainTyped, HistoryTyped, Readings

LEMMA FinishTyped ==
  ASSUME LocalsTyped, NEW r \in Requests, Finish(r)
  PROVE  LocalsTyped'
<1>1. r \in Processes /\ "idle" \in Phases
  BY DEF Processes, Phases
<1>2. 0 \in 0..Attempts
  BY SettlementAssumption
<1>3. QED
  BY <1>1, <1>2, NothingTyped, NoPayTyped DEF LocalsTyped, Finish, To, Sees

LEMMA MoveTyped ==
  ASSUME LocalsTyped, NEW p \in Processes, NEW phase \in Phases, NEW reading \in Readings,
         To(p, phase), Sees(p, reading) \/ UNCHANGED seen, UNCHANGED <<pay, tok, tries>>
  PROVE  LocalsTyped'
  BY DEF LocalsTyped, To, Sees

LEMMA RestsTyped ==
  ASSUME LocalsTyped, NEW p \in Processes, Rests(p), UNCHANGED <<pay, tok, tries>>
  PROVE  LocalsTyped'
  BY MoveTyped, NothingTyped DEF Rests, Phases

LEMMA AdmittedTyped ==
  ASSUME LocalsTyped, NEW r \in Requests, Admitted(r)
  PROVE  LocalsTyped'
<1>1. CASE Finish(r)
  BY <1>1, FinishTyped
<1>2. CASE To(r, "reserve") /\ Sees(r, Nothing) /\ UNCHANGED <<pay, tok, tries>>
  BY <1>2, MoveTyped, NothingTyped DEF Processes, Phases
<1>3. QED
  BY <1>1, <1>2 DEF Admitted

LEMMA SubmitsTyped ==
  ASSUME LocalsTyped, ChainTyped, NEW p \in Processes, NEW reading \in Readings,
         Submits(p, reading), UNCHANGED <<pay, tok, tries>>
  PROVE  LocalsTyped' /\ ChainTyped'
<1>1. [kind |-> reading.kind, cum |-> reading.cum] \in Txs
  BY DEF Readings, Txs
<1>2. ChainTyped'
  BY <1>1 DEF ChainTyped, Submits
<1>3. LocalsTyped'
  BY MoveTyped DEF Submits, Phases
<1>4. QED
  BY <1>2, <1>3

(***************************************************************************)
(* Every step of a request keeps the types.                                *)
(***************************************************************************)
LEMMA RequestTyped ==
  ASSUME TypeOK, NEW r \in Requests, Request(r)
  PROVE  TypeOK'
<1> /\ ch \in ChannelStates /\ ChainTyped /\ clock \in 0..MaxClock
    /\ LocalsTyped /\ HistoryTyped /\ r \in Processes
  BY TypeParts DEF Processes
<1>pay. pay[r] \in [cum : Vouchers, amt : Amounts, replay : BOOLEAN] /\ Payment(r) \in Payments
  BY DEF LocalsTyped, Payment, Payments
<1>now. clock \in Nat
  BY SettlementAssumption
<1>seen. seen[r] \in Readings
  BY DEF LocalsTyped
<1> SUFFICES (ch \in ChannelStates /\ LocalsTyped /\ HistoryTyped)' /\ UNCHANGED world
  BY TypePartsNext DEF world, ChainTyped
<1>1. ASSUME NEW p \in Payments, Verify(r, p)
      PROVE  (ch \in ChannelStates /\ LocalsTyped /\ HistoryTyped)' /\ UNCHANGED world
  <2> DEFINE new == IF p.cum = ch.cum THEN [NoPay EXCEPT !.replay = TRUE]
                    ELSE [cum |-> p.cum, amt |-> p.amt, replay |-> FALSE]
  <2>1. new \in [cum : Vouchers, amt : Amounts, replay : BOOLEAN]
    BY NoPayTyped DEF Payments
  <2>2. pay' = [pay EXCEPT ![r] = new] /\ UNCHANGED <<ch, charged, world, tok, tries, seen, crashes, served>>
        /\ To(r, "reconcile")
    BY <1>1 DEF Verify, record
  <2> HIDE DEF new
  <2>3. LocalsTyped'
    BY <2>1, <2>2 DEF LocalsTyped, To, Phases
  <2>4. QED
    BY <2>2, <2>3 DEF HistoryTyped
<1>2. CASE Reconcile(r)
  <2>1. UNCHANGED <<ch, charged, world, crashes, served>>
    BY <1>2 DEF Reconcile, record
  <2>2. [Nothing EXCEPT !.at = clock, !.slot = ch.seenSlot] \in Readings
    BY NothingTyped, <1>now DEF Readings, ChannelStates
  <2>3. LocalsTyped'
    BY <1>2, <2>2, AdmittedTyped, MoveTyped DEF Reconcile, Phases
  <2>4. QED
    BY <2>1, <2>3 DEF HistoryTyped
<1>3. CASE Fetch(r)
  <2>1. UNCHANGED <<ch, charged, world, crashes, served>>
    BY <1>3 DEF Fetch, record
  <2>2. ASSUME NEW slot \in (clock - MaxLag)..clock, slot >= seen[r].slot,
               Sees(r, [seen[r] EXCEPT !.slot = slot, !.status = Shown(slot),
                                       !.settled = chain.settled]),
               To(r, "observe"), UNCHANGED <<pay, tok, tries>>
        PROVE  LocalsTyped'
    <3>1. slot \in Nat
      BY <2>2, <1>now, <1>seen, SettlementAssumption DEF Readings
    <3>2. Shown(slot) \in Statuses /\ chain.settled \in Vouchers \cup {0}
      BY DEF Shown, ChainTyped, Statuses
    <3>3. [seen[r] EXCEPT !.slot = slot, !.status = Shown(slot),
                          !.settled = chain.settled] \in Readings
      BY <3>1, <3>2, <1>seen DEF Readings
    <3>4. QED
      BY <2>2, <3>3, MoveTyped DEF Phases
  <2>3. LocalsTyped'
    BY <1>3, <2>2, FinishTyped DEF Fetch
  <2>4. QED
    BY <2>1, <2>3 DEF HistoryTyped
<1>4. CASE Observe(r)
  <2>1. UNCHANGED <<charged, world, crashes, served>>
    BY <1>4 DEF Observe
  <2>2. ch' \in ChannelStates
    BY <1>4, <1>seen, ObservedTyped, ClaimedTyped DEF Observe, Readings
  <2>3. LocalsTyped'
    BY <1>4, FinishTyped, AdmittedTyped DEF Observe
  <2>4. QED
    BY <2>1, <2>2, <2>3 DEF HistoryTyped
<1>5. CASE Reserve(r)
  <2>1. UNCHANGED <<charged, world, crashes, served>>
    BY <1>5 DEF Reserve
  <2>2. ch' = ch \/ ch' \in Reserved(ch, Payment(r), clock)
    BY <1>5 DEF Reserve
  <2>3. ch' \in ChannelStates
    BY <2>2, ReservedTyped, <1>pay, <1>now
  <2>4. CASE Finish(r)
    BY <2>1, <2>3, <2>4, FinishTyped DEF HistoryTyped
  <2>5. CASE ~Finish(r)
    <3>1. /\ \E t \in Nat : tok' = [tok EXCEPT ![r] = t]
          /\ To(r, "handler") \/ To(r, "commit")
          /\ UNCHANGED <<pay, seen>>
          /\ tries' = tries \/ tries' = [tries EXCEPT ![r] = Attempts - 1]
      BY <1>5, <2>5 DEF Reserve, Of, ChannelStates, Pendings
    <3>2. Attempts - 1 \in 0..Attempts
      BY SettlementAssumption
    <3>3. LocalsTyped'
      BY <3>1, <3>2 DEF LocalsTyped, To, Phases
    <3>4. QED
      BY <2>1, <2>3, <3>3 DEF HistoryTyped
  <2>6. QED
    BY <2>4, <2>5
<1>6. CASE Serve(r)
  <2>1. UNCHANGED <<ch, charged, world, crashes>> /\ Goes(r, "mark")
        /\ served' = [served EXCEPT ![pay[r].cum] = @ + 1]
    BY <1>6 DEF Serve, record
  <2>2. LocalsTyped'
    BY <2>1, <1>seen, MoveTyped DEF Goes, locals, Phases
  <2>3. HistoryTyped'
    BY <2>1, <1>pay DEF HistoryTyped
  <2>4. QED
    BY <2>1, <2>2, <2>3
<1>7. CASE Decline(r)
  <2>1. UNCHANGED <<ch, charged, world, crashes, served>> /\ Goes(r, "release")
    BY <1>7 DEF Decline, record
  <2>2. LocalsTyped'
    BY <2>1, <1>seen, MoveTyped DEF Goes, locals, Phases
  <2>3. QED
    BY <2>1, <2>2 DEF HistoryTyped
<1>8. CASE ReleaseAuthorization(r)
  BY <1>8, FinishTyped, ReleasedTyped DEF ReleaseAuthorization, HistoryTyped
<1>9. CASE MarkHandlerSucceeded(r)
  <2>1. UNCHANGED <<charged, world, crashes, served>> /\ Goes(r, "commit")
    BY <1>9 DEF MarkHandlerSucceeded
  <2>2. LocalsTyped'
    BY <2>1, <1>seen, MoveTyped DEF Goes, locals, Phases
  <2>3. ch' \in ChannelStates
    BY <1>9, <1>pay, MarkedTyped DEF MarkHandlerSucceeded, LocalsTyped
  <2>4. QED
    BY <2>1, <2>2, <2>3 DEF HistoryTyped
<1>10. CASE FinishCommit(r)
  <2>1. UNCHANGED <<world, crashes, served>>
    BY <1>10 DEF FinishCommit
  <2>2. Charge(r) \/ UNCHANGED record
    BY <1>10 DEF FinishCommit
  <2>3. Finish(r) \/ CommitFails(r)
    BY <1>10 DEF FinishCommit
  <2>4. ch' \in ChannelStates /\ HistoryTyped'
    BY <2>1, <2>2, <1>pay, CommittedTyped DEF Charge, record, HistoryTyped
  <2>5. ASSUME tries[r] + 1 < Attempts, tries' = [tries EXCEPT ![r] = @ + 1],
               UNCHANGED <<pc, pay, tok, seen>>
        PROVE  LocalsTyped'
    <3>1. tries[r] + 1 \in 0..Attempts
      BY <2>5, SettlementAssumption DEF LocalsTyped
    <3>2. QED
      BY <2>5, <3>1 DEF LocalsTyped
  <2>6. LocalsTyped'
    BY <2>3, <2>5, FinishTyped DEF CommitFails
  <2>7. QED
    BY <2>1, <2>4, <2>6
<1>11. QED
  BY <1>1, <1>2, <1>3, <1>4, <1>5, <1>6, <1>7, <1>8, <1>9, <1>10 DEF Request

(***************************************************************************)
(* So does every step of a worker and of a cooperative close.              *)
(***************************************************************************)
LEMMA FinalizerTyped ==
  ASSUME TypeOK, NEW f \in Finalizers, Finalizer(f)
  PROVE  TypeOK'
<1> /\ ch \in ChannelStates /\ ChainTyped /\ clock \in 0..MaxClock
    /\ LocalsTyped /\ HistoryTyped /\ f \in Processes
  BY TypeParts DEF Processes
<1>now. clock \in Nat
  BY SettlementAssumption
<1>seen. seen[f] \in Readings /\ chain.settled \in Vouchers \cup {0}
  BY DEF LocalsTyped, ChainTyped
<1>quiet. UNCHANGED <<pay, tok, tries, crashes, served, charged, clock>>
  BY DEF Finalizer, Lookup, PlanClose, AwaitSeal, RecordSeal, quiet, requestLocals, world, Submits
<1> SUFFICES (ch \in ChannelStates /\ LocalsTyped /\ ChainTyped)'
  BY TypePartsNext, <1>quiet DEF HistoryTyped
<1>1. CASE Lookup(f)
  <2>1. ch' = ch
    BY <1>1 DEF Lookup
  <2>2. /\ [Nothing EXCEPT !.settled = chain.settled, !.at = clock] \in Readings
        /\ [Nothing EXCEPT !.kind = "distribute"] \in Readings
    BY NothingTyped, <1>now, <1>seen DEF Readings, Kinds
  <2>3. CASE Submits(f, [Nothing EXCEPT !.kind = "distribute"])
    BY <2>1, <2>2, <2>3, SubmitsTyped, <1>quiet
  <2>4. CASE UNCHANGED world
    <3>1. ChainTyped'
      BY <2>4 DEF world, ChainTyped
    <3>2. LocalsTyped'
      BY <1>1, <2>2, <1>quiet, MoveTyped, SubmitsTyped DEF Lookup, Phases
    <3>3. QED
      BY <2>1, <3>1, <3>2
  <2>5. QED
    BY <1>1, <2>3, <2>4 DEF Lookup
<1>2. CASE PlanClose(f)
  <2> DEFINE s == seen[f]
             past == s.at >= chain.closed + Grace
  <2>1. ch' = Planned(ch, s.settled, past, s.at)
    BY <1>2 DEF PlanClose
  <2>2. ch' \in ChannelStates
    BY <2>1, PlannedTyped, <1>seen DEF Readings
  <2>3. /\ [Nothing EXCEPT !.kind = "apply", !.cum = ch.cum] \in Readings
        /\ [Nothing EXCEPT !.kind = "seal"] \in Readings
    BY NothingTyped DEF Readings, Kinds, ChannelStates
  <2>4. CASE \/ Submits(f, [Nothing EXCEPT !.kind = "apply", !.cum = ch.cum])
             \/ Submits(f, [Nothing EXCEPT !.kind = "seal"])
    BY <2>2, <2>3, <2>4, SubmitsTyped, <1>quiet
  <2>5. CASE Rests(f) /\ UNCHANGED world
    BY <2>2, <2>5, RestsTyped, <1>quiet DEF world, ChainTyped
  <2>6. QED
    BY <1>2, <2>4, <2>5 DEF PlanClose
<1>3. CASE AwaitSeal(f)
  BY <1>3, <1>seen, <1>quiet, MoveTyped, RestsTyped DEF AwaitSeal, world, ChainTyped, Phases
<1>4. CASE RecordSeal(f)
  <2> DEFINE amount == IF seen[f].kind = "apply" THEN seen[f].cum ELSE 0
  <2>1. amount \in Vouchers \cup {0}
    BY <1>seen DEF Readings
  <2>2. ch' = [Claimed(ch, amount) EXCEPT !.sealed = TRUE] /\ Rests(f) /\ UNCHANGED world
    BY <1>4 DEF RecordSeal
  <2>3. ch' \in ChannelStates
    BY <2>1, <2>2, ClaimedTyped DEF ChannelStates
  <2>4. QED
    BY <2>2, <2>3, RestsTyped, <1>quiet DEF world, ChainTyped
<1>5. QED
  BY <1>1, <1>2, <1>3, <1>4 DEF Finalizer

LEMMA ClaimerTyped ==
  ASSUME TypeOK, NEW q \in Claimers, Claimer(q)
  PROVE  TypeOK'
<1> /\ ch \in ChannelStates /\ ChainTyped /\ clock \in 0..MaxClock
    /\ LocalsTyped /\ HistoryTyped /\ q \in Processes
  BY TypeParts DEF Processes
<1>seen. seen[q] \in Readings /\ chain.settled \in Vouchers \cup {0}
  BY DEF LocalsTyped, ChainTyped
<1>quiet. UNCHANGED <<pay, tok, tries, crashes, served, charged, clock>>
  BY DEF Claimer, Claim, AwaitClaim, quiet, requestLocals, world, Submits
<1> SUFFICES (ch \in ChannelStates /\ LocalsTyped /\ ChainTyped)'
  BY TypePartsNext, <1>quiet DEF HistoryTyped
<1>1. CASE Claim(q)
  <2>1. ch' \in ChannelStates
    BY <1>1, <1>seen, ClaimedTyped DEF Claim
  <2>2. [Nothing EXCEPT !.cum = ch.cum] \in Readings
    BY NothingTyped DEF Readings, ChannelStates
  <2>3. CASE Submits(q, [Nothing EXCEPT !.cum = ch.cum])
    BY <2>1, <2>2, <2>3, SubmitsTyped, <1>quiet
  <2>4. CASE UNCHANGED <<world, pc, seen>>
    BY <2>1, <2>4, <1>quiet DEF world, ChainTyped, LocalsTyped
  <2>5. QED
    BY <1>1, <2>3, <2>4 DEF Claim
<1>2. CASE AwaitClaim(q)
  <2>1. ch' \in ChannelStates
    BY <1>2, <1>seen, ClaimedTyped DEF AwaitClaim, Readings
  <2>2. QED
    BY <1>2, <2>1, <1>quiet, RestsTyped DEF AwaitClaim, world, ChainTyped
<1>3. QED
  BY <1>1, <1>2 DEF Claimer

LEMMA CloserTyped ==
  ASSUME TypeOK, NEW k \in Closers, Closer(k)
  PROVE  TypeOK'
<1> /\ ch \in ChannelStates /\ ChainTyped /\ clock \in 0..MaxClock
    /\ LocalsTyped /\ HistoryTyped /\ k \in Processes
  BY TypeParts DEF Processes
<1>seen. seen[k] \in Readings /\ chain.settled \in Vouchers \cup {0}
  BY DEF LocalsTyped, ChainTyped
<1>quiet. UNCHANGED <<pay, tok, tries, crashes, served, charged, clock>>
  BY DEF Closer, Refund, FenceCooperativeClose, AwaitClose, CheckClose, RecordClose,
         quiet, requestLocals, world, Submits, Closing
<1> SUFFICES (ch \in ChannelStates /\ LocalsTyped /\ ChainTyped)'
  BY TypePartsNext, <1>quiet DEF HistoryTyped
<1>closing. ASSUME NEW settled \in Vouchers \cup {0}, NEW rebuilt \in BOOLEAN,
                   Closing(k, settled, rebuilt)
            PROVE  LocalsTyped' /\ ChainTyped'
  <2> DEFINE reading == [seen[k] EXCEPT !.settled = settled, !.rebuilt = rebuilt,
                           !.kind = IF settled < seen[k].cum THEN "close" ELSE "close_bare"]
  <2>1. reading \in Readings
    BY <1>seen DEF Readings, Kinds
  <2>2. Submits(k, reading)
    BY <1>closing DEF Closing
  <2> HIDE DEF reading
  <2>3. QED
    BY <2>1, <2>2, SubmitsTyped, <1>quiet
<1>1. CASE Refund(k)
  <2>1. [Nothing EXCEPT !.settled = chain.settled, !.cum = ch.cum] \in Readings
    BY NothingTyped, <1>seen DEF Readings, ChannelStates
  <2>2. ch' \in ChannelStates /\ UNCHANGED world
    BY <1>1 DEF Refund, ChannelStates
  <2>3. LocalsTyped'
    BY <1>1, <2>1, <1>quiet, MoveTyped DEF Refund, Phases, LocalsTyped
  <2>4. QED
    BY <2>2, <2>3 DEF world, ChainTyped
<1>2. CASE FenceCooperativeClose(k)
  <2>1. ch' \in ChannelStates
    BY <1>2, <1>seen DEF FenceCooperativeClose, ChannelStates, Readings
  <2>2. LocalsTyped' /\ ChainTyped'
    BY <1>2, <1>closing, <1>seen, <1>quiet, RestsTyped
       DEF FenceCooperativeClose, Readings, world, ChainTyped
  <2>3. QED
    BY <2>1, <2>2
<1>3. CASE AwaitClose(k)
  <2>1. ch' = ch
    BY <1>3 DEF AwaitClose
  <2>2. CASE Closing(k, chain.settled, TRUE)
    BY <2>1, <2>2, <1>closing, <1>seen
  <2>3. CASE UNCHANGED world /\ (Rests(k) \/ (To(k, "check") /\ UNCHANGED seen))
    BY <2>1, <2>3, <1>seen, <1>quiet, RestsTyped, MoveTyped DEF world, ChainTyped, Phases
  <2>4. QED
    BY <1>3, <2>2, <2>3 DEF AwaitClose
<1>4. CASE CheckClose(k)
  BY <1>4, <1>seen, <1>quiet, MoveTyped, RestsTyped DEF CheckClose, world, ChainTyped, Phases
<1>5. CASE RecordClose(k)
  <2>1. ch' = [Claimed(ch, seen[k].cum) EXCEPT !.sealed = TRUE, !.closedAt = seen[k].cum]
        /\ Rests(k) /\ UNCHANGED world
    BY <1>5 DEF RecordClose
  <2>2. seen[k].cum \in Vouchers
    BY <1>seen DEF Readings
  <2>3. ch' \in ChannelStates
    BY <2>1, <2>2, ClaimedTyped DEF ChannelStates
  <2>4. QED
    BY <2>1, <2>3, RestsTyped, <1>quiet DEF world, ChainTyped
<1>6. QED
  BY <1>1, <1>2, <1>3, <1>4, <1>5 DEF Closer

(***************************************************************************)
(* So do crashes and what happens outside the server.                      *)
(***************************************************************************)
Outside == (\E t \in txs : Land(t)) \/ RequestClose \/ Crank \/ Tick

LEMMA CrashTyped ==
  ASSUME TypeOK, NEW p \in Processes, Crash(p)
  PROVE  TypeOK'
<1> /\ ch \in ChannelStates /\ ChainTyped /\ clock \in 0..MaxClock
    /\ LocalsTyped /\ HistoryTyped
  BY TypeParts
<1>1. UNCHANGED <<ch, charged, chain, txs, done, clock, served>>
  BY DEF Crash, record, world
<1>2. crashes' \in 0..MaxCrashes
  BY SettlementAssumption DEF Crash, HistoryTyped
<1>3. LocalsTyped'
  BY FinishTyped, RestsTyped DEF Crash, requestLocals
<1>4. QED
  BY <1>1, <1>2, <1>3, TypePartsNext DEF ChainTyped, HistoryTyped

LEMMA OutsideTyped ==
  ASSUME TypeOK, Outside
  PROVE  TypeOK'
<1> /\ ch \in ChannelStates /\ ChainTyped /\ clock \in 0..MaxClock
    /\ LocalsTyped /\ HistoryTyped
  BY TypeParts
<1>now. clock \in Nat
  BY SettlementAssumption
<1>1. UNCHANGED <<ch, pc, pay, tok, tries, seen, crashes, served, charged, txs>>
  BY DEF Outside, Land, RequestClose, Crank, Tick, server, locals
<1>2. LocalsTyped' /\ HistoryTyped'
  BY <1>1 DEF LocalsTyped, HistoryTyped
<1>3. clock' \in 0..MaxClock
  BY SettlementAssumption DEF Outside, Land, RequestClose, Crank, Tick
<1> DEFINE Accounts == [status : Statuses, settled : Vouchers \cup {0}, closed : Nat,
                        by : {"nobody", "voucher", "deadline"}]
<1>4. ASSUME NEW status \in Statuses, NEW settled \in Vouchers \cup {0},
             NEW by \in {"voucher", "deadline"}, Seals(status, settled, by)
      PROVE  chain' \in Accounts
  BY <1>4, <1>now DEF Seals, ChainTyped
<1>5. chain' \in Accounts
  <2>0. chain \in Accounts /\ {"sealed", "distributed"} \subseteq Statuses
    BY DEF ChainTyped, Statuses
  <2>1. ASSUME NEW t \in txs, Land(t) PROVE chain' \in Accounts
    <3>1. t.cum \in Vouchers \cup {0} /\ chain.settled \in Vouchers \cup {0}
      BY DEF ChainTyped, Txs
    <3>2. \/ chain' = [chain EXCEPT !.settled = t.cum]
          \/ chain' = [chain EXCEPT !.status = "distributed"]
          \/ \E s \in {"sealed", "distributed"}, amount \in {t.cum, chain.settled},
                by \in {"voucher", "deadline"} : Seals(s, amount, by)
      BY <2>1 DEF Land
    <3>3. QED
      BY <1>4, <2>0, <3>1, <3>2
  <2>2. CASE RequestClose
    BY <2>2, <1>now DEF RequestClose, ChainTyped, Statuses
  <2>3. CASE Crank
    <3>1. \/ chain' = [chain EXCEPT !.status = "distributed"]
          \/ Seals("sealed", chain.settled, "deadline")
      BY <2>3 DEF Crank
    <3>2. QED
      BY <1>4, <2>0, <3>1
  <2>4. CASE Tick
    BY <2>4 DEF Tick, ChainTyped
  <2>5. QED
    BY <2>1, <2>2, <2>3, <2>4 DEF Outside
<1>6. ChainTyped'
  BY <1>1, <1>5 DEF Outside, Land, RequestClose, Crank, Tick, ChainTyped
<1>7. QED
  BY <1>1, <1>2, <1>3, <1>6, TypePartsNext

(***************************************************************************)
(* The state stays well typed: the record is one a store can hold, every   *)
(* transaction is one a node can be given, and every read is one the chain *)
(* can answer.                                                             *)
(***************************************************************************)
THEOREM BatchTyped == Spec => []TypeOK
<1>1. TypeOK /\ [Next]_vars => TypeOK'
  <2>1. ASSUME TypeOK, Next PROVE TypeOK'
    BY <2>1, RequestTyped, FinalizerTyped, ClaimerTyped, CloserTyped, CrashTyped,
       OutsideTyped DEF Next, Outside
  <2>2. ASSUME TypeOK, UNCHANGED vars PROVE TypeOK'
    BY <2>2 DEF TypeOK, vars
  <2>3. QED
    BY <2>1, <2>2
<1>2. QED
  BY TypedInit, <1>1, PTL DEF Spec

-----------------------------------------------------------------------------
(***************************************************************************)
(* Reservations are served once and accounted for.                         *)
(***************************************************************************)
LEMMA ServeInit == Init => ServeInv
<1> SUFFICES ASSUME Init PROVE ServeInv
  OBVIOUS
<1>1. /\ ch.pending = {} /\ ch.cum = 1 /\ ch.seq = 1 /\ ch.final = NoFence /\ charged = {1}
      /\ \A r \in Requests : tok[r] = 0 /\ pc[r] = "idle"
      /\ \A v \in Vouchers : served[v] = IF v = 1 THEN 1 ELSE 0
  BY DEF Init, Opened, Processes
<1>2. OneReservation /\ ReservationSteps /\ TokensMinted /\ ChargedUpTo /\ FenceCloses
  BY <1>1 DEF OneReservation, ReservationSteps, TokensMinted, ChargedUpTo, FenceCloses
<1>3. HoldersHold /\ HoldersExclusive /\ HoldersUnserved
  BY <1>1 DEF HoldersHold, HoldersExclusive, HoldersUnserved, Holding
<1>4. HandlerRunsOnce /\ ServedIsAccounted
  BY <1>1 DEF HandlerRunsOnce, ServedIsAccounted
<1>5. QED
  BY <1>2, <1>3, <1>4 DEF ServeInv

(***************************************************************************)
(* A step that leaves the reservation and the watermark alone and gives    *)
(* nobody a token keeps the invariant.                                     *)
(***************************************************************************)
Unmoved ==
    /\ ch'.cum = ch.cum /\ ch'.pending = ch.pending /\ ch'.seq = ch.seq
    /\ ch.final # NoFence => ch'.final # NoFence
    /\ ch.sealed => ch'.sealed
    /\ FenceCloses'
    /\ UNCHANGED <<served, charged>>

Rearranged ==
    \A r \in Requests :
        \/ pc'[r] = pc[r] /\ tok'[r] = tok[r] /\ pay'[r] = pay[r]
        \/ pc'[r] \notin Holding \cup {"commit"} /\ tok'[r] \in {tok[r], 0}

LEMMA UnmovedServes ==
  ASSUME TypeOK, ServeInv, Unmoved, Rearranged
  PROVE  ServeInv'
<1> USE DEF ServeInv, Unmoved, Rearranged
<1>seq. ch.seq \in Nat
  BY DEF TypeOK, ChannelStates
<1>1. (OneReservation /\ ReservationSteps /\ ChargedUpTo /\ FenceCloses)'
  BY DEF OneReservation, ReservationSteps, ChargedUpTo
<1>2. TokensMinted'
  BY <1>seq DEF TokensMinted
<1>3. HoldersHold'
  BY DEF HoldersHold, Reserves
<1>4. HoldersExclusive'
  BY DEF HoldersExclusive
<1>5. HoldersUnserved'
  BY DEF HoldersUnserved, Holding
<1>6. HandlerRunsOnce' /\ ServedIsAccounted'
  BY DEF HandlerRunsOnce, ServedIsAccounted
<1>7. QED
  BY <1>1, <1>2, <1>3, <1>4, <1>5, <1>6

(***************************************************************************)
(* The reservation on record is the one a holder took, and its token is    *)
(* nobody else's.                                                          *)
(***************************************************************************)
LEMMA HolderAlone ==
  ASSUME ServeInv, NEW r \in Requests, pc[r] \in Holding
  PROVE  /\ \E p \in ch.pending : Reserves(r, p)
         /\ \A p \in ch.pending : Reserves(r, p)
         /\ \A q \in Requests, p \in ch.pending :
              pc[q] \in Holding \cup {"commit"} /\ tok[q] = p.seq => q = r
         /\ \A q \in Requests : pc[q] \in Holding => q = r
<1>1. PICK p \in ch.pending : Reserves(r, p)
  BY DEF ServeInv, HoldersHold
<1>2. \A o \in ch.pending : o = p
  BY DEF ServeInv, OneReservation
<1>3. \A q \in Requests :
        pc[q] \in Holding \cup {"commit"} /\ tok[q] = p.seq => q = r
  BY <1>1 DEF ServeInv, HoldersExclusive, Reserves
<1>4. \A q \in Requests : pc[q] \in Holding => tok[q] = p.seq
  BY <1>2 DEF ServeInv, HoldersHold, Reserves
<1>5. QED
  BY <1>1, <1>2, <1>3, <1>4

(***************************************************************************)
(* A request that is over, or goes on without a token, is rearranged.      *)
(***************************************************************************)
LEMMA FinishRearranges ==
  ASSUME TypeOK, NEW r \in Requests, Finish(r)
  PROVE  Rearranged
  BY DEF TypeOK, Processes, Finish, To, Rearranged, Holding

LEMMA AdmittedRearranges ==
  ASSUME TypeOK, NEW r \in Requests, Admitted(r)
  PROVE  Rearranged
<1>1. CASE Finish(r)
  BY <1>1, FinishRearranges
<1>2. CASE To(r, "reserve") /\ UNCHANGED <<pay, tok>>
  BY <1>2 DEF TypeOK, Processes, To, Rearranged, Holding
<1>3. QED
  BY <1>1, <1>2 DEF Admitted

(***************************************************************************)
(* The steps before a reservation.                                         *)
(***************************************************************************)
LEMMA AdmissionServes ==
  ASSUME TypeOK, ServeInv, NEW r \in Requests,
         (\E p \in Payments : Verify(r, p)) \/ Reconcile(r) \/ Fetch(r) \/ Observe(r)
  PROVE  ServeInv'
<1> USE DEF ServeInv
<1>1. CASE Observe(r)
  <2> DEFINE o == Observed(ch, seen[r].status, seen[r].slot, seen[r].at)
  <2>1. UNCHANGED <<served, charged>> /\ ch' = Claimed(o, seen[r].settled)
    BY <1>1 DEF Observe
  <2>0. ch \in ChannelStates /\ seen[r] \in Readings
    BY DEF TypeOK, Processes, Readings
  <2>2. /\ o.cum = ch.cum /\ o.pending = ch.pending /\ o.seq = ch.seq /\ o.final = ch.final
        /\ ch.sealed => o.sealed
        /\ ch.closing => o.closing
        /\ o \in ChannelStates
    BY <2>0, ObservedTyped, ObservedKeeps DEF Readings
  <2> HIDE DEF o
  <2>3. Unmoved
    BY <2>1, <2>2 DEF Unmoved, Claimed, FenceCloses, ChannelStates
  <2>4. Rearranged
    BY <1>1, FinishRearranges, AdmittedRearranges DEF Observe
  <2>5. QED
    BY <2>3, <2>4, UnmovedServes
<1>2. CASE ~Observe(r)
  <2>1. Unmoved
    BY <1>2 DEF Verify, Reconcile, Fetch, record, Unmoved, FenceCloses
  <2>2. CASE \E p \in Payments : Verify(r, p)
    BY <2>1, <2>2, UnmovedServes DEF Verify, Rearranged, To, Holding, TypeOK, Processes
  <2>3. CASE Reconcile(r)
    <3>1. CASE Admitted(r)
      BY <2>1, <3>1, AdmittedRearranges, UnmovedServes
    <3>2. CASE To(r, "fetch") /\ UNCHANGED <<pay, tok>>
      BY <2>1, <3>2, UnmovedServes DEF Rearranged, To, Holding, TypeOK, Processes
    <3>3. QED
      BY <2>3, <3>1, <3>2 DEF Reconcile
  <2>4. CASE Fetch(r)
    <3>1. CASE Finish(r)
      BY <2>1, <3>1, FinishRearranges, UnmovedServes
    <3>2. CASE To(r, "observe") /\ UNCHANGED <<pay, tok>>
      BY <2>1, <3>2, UnmovedServes DEF Rearranged, To, Holding, TypeOK, Processes
    <3>3. QED
      BY <2>4, <3>1, <3>2 DEF Fetch
  <2>5. QED
    BY <1>2, <2>2, <2>3, <2>4
<1>3. QED
  BY <1>1, <1>2

(***************************************************************************)
(* A request is handed an authorization that nobody served, or the token   *)
(* of one whose handler succeeded.                                         *)
(***************************************************************************)
LEMMA ReserveServes ==
  ASSUME TypeOK, ServeInv, NEW r \in Requests, Reserve(r)
  PROVE  ServeInv'
<1> USE DEF ServeInv
<1>same. UNCHANGED <<served, charged>> /\ pc[r] = "reserve"
  BY DEF Reserve
<1>types. /\ ch \in ChannelStates /\ Payment(r) \in Payments /\ pay[r].cum \in Vouchers
          /\ pay[r].amt \in Nat \ {0} /\ pay[r].cum \in Nat
          /\ tok \in [Requests -> Nat] /\ pc \in [Processes -> Phases] /\ r \in Processes
          /\ ch.seq \in Nat /\ ch.cum \in Nat /\ Requests \subseteq Processes
  BY ChannelAssumption DEF TypeOK, Payment, Payments, ChannelStates, Processes
<1> DEFINE outcome == Reservation(ch, Payment(r), clock)
<1>1. CASE outcome = "reserved" /\ ch' \in Reserved(ch, Payment(r), clock)
  <2> DEFINE entry == [cum |-> pay[r].cum, amt |-> pay[r].amt, seq |-> ch.seq + 1,
                       exp |-> clock + Lease, ok |-> FALSE]
  <2>1. /\ ~ch.sealed /\ ~ch.closing /\ ch.pending = {} /\ ch.cum + pay[r].amt = pay[r].cum
    BY <1>1 DEF Reservation, Classify, Payment
  <2>2. PICK S : ch' = [ch EXCEPT !.committed = S, !.seq = @ + 1, !.pending = @ \cup {entry}]
    BY <1>1 DEF Reserved, Payment
  <2>3. /\ ch'.pending = {entry} /\ ch'.seq = ch.seq + 1 /\ ch'.cum = ch.cum
        /\ ch'.final = ch.final /\ ch'.closing = ch.closing /\ ch'.sealed = ch.sealed
    BY <2>1, <2>2, <1>types DEF ChannelStates
  <2>4. /\ \A q \in Requests : pc[q] \notin Holding
        /\ served[pay[r].cum] = 0 /\ ch.final = NoFence
    <3>1. \A q \in Requests : pc[q] \notin Holding
      BY <2>1 DEF HoldersHold
    <3>2. ch.final = NoFence /\ pay[r].cum \notin charged
      BY <2>1, <1>types DEF FenceCloses, ChargedUpTo
    <3>3. served[pay[r].cum] \in Nat /\ ~(served[pay[r].cum] > 0)
      BY <2>1, <3>2, <1>types DEF ServedIsAccounted, Of, TypeOK
    <3>4. QED
      BY <3>1, <3>2, <3>3
  <2>5. /\ entry.cum = pay[r].cum /\ entry.amt = pay[r].amt /\ entry.seq = ch.seq + 1
        /\ ~entry.ok
    OBVIOUS
  <2> HIDE DEF entry
  <2>6. (OneReservation /\ ReservationSteps /\ ChargedUpTo /\ FenceCloses)'
    BY <2>1, <2>3, <2>5, <1>same, <1>types
       DEF OneReservation, ReservationSteps, ChargedUpTo, FenceCloses
  <2>7. HandlerRunsOnce' /\ ServedIsAccounted'
    BY <2>1, <2>3, <1>same DEF HandlerRunsOnce, ServedIsAccounted, Of
  <2>8. CASE tok' = [tok EXCEPT ![r] = ch.seq + 1] /\ To(r, "handler") /\ UNCHANGED pay
    <3>1. TokensMinted'
      BY <2>3, <2>8, <1>types DEF TokensMinted
    <3>2. \A q \in Requests :
            pc'[q] = IF q = r THEN "handler" ELSE pc[q]
      BY <2>8, <1>types DEF To
    <3>3. HoldersHold'
      BY <2>3, <2>4, <2>5, <2>8, <3>2, <1>types DEF HoldersHold, Reserves
    <3>4. HoldersExclusive'
      <4>1. \A q \in Requests : q # r => tok'[q] <= ch.seq
        BY <2>8, <1>types DEF TokensMinted
      <4>2. QED
        BY <2>4, <2>8, <3>2, <4>1, <1>types DEF HoldersExclusive
    <3>5. HoldersUnserved'
      BY <2>4, <2>8, <3>2, <1>same DEF HoldersUnserved, Holding
    <3>6. QED
      BY <2>6, <2>7, <3>1, <3>3, <3>4, <3>5
  <2>9. CASE Finish(r)
    <3>1. /\ \A q \in Requests : pc'[q] = IF q = r THEN "idle" ELSE pc[q]
          /\ \A q \in Requests : tok'[q] \in Nat /\ tok'[q] \in {tok[q], 0}
      BY <2>9, <1>types DEF Finish, To
    <3>2. TokensMinted'
      BY <2>3, <3>1, <1>types DEF TokensMinted
    <3>3. \A q \in Requests : pc'[q] \notin Holding
      BY <2>4, <3>1 DEF Holding
    <3>4. HoldersHold' /\ HoldersExclusive' /\ HoldersUnserved'
      BY <3>3 DEF HoldersHold, HoldersExclusive, HoldersUnserved, Holding
    <3>5. QED
      BY <2>6, <2>7, <3>2, <3>4
  <2>10. QED
    BY <1>1, <2>8, <2>9 DEF Reserve
<1>2. CASE /\ outcome = "succeeded" /\ ch' = ch /\ To(r, "commit") /\ UNCHANGED pay
           /\ \E p \in Of(ch.pending, pay[r].cum) : tok' = [tok EXCEPT ![r] = p.seq]
  <2>1. PICK p \in ch.pending : p.cum = pay[r].cum /\ tok' = [tok EXCEPT ![r] = p.seq]
    BY <1>2 DEF Of
  <2>2. p.ok
    <3> DEFINE mine == Of(ch.pending, pay[r].cum)
    <3>1. p \in mine /\ \A o \in mine : o = p
      BY <2>1 DEF Of, OneReservation
    <3>2. (CHOOSE o \in mine : TRUE) = p
      BY <3>1
    <3>3. Classify(CHOOSE o \in mine : TRUE, Payment(r), clock) = "succeeded"
      BY <1>2, <3>1 DEF Reservation, Payment
    <3> HIDE DEF mine
    <3>4. QED
      BY <3>2, <3>3 DEF Classify
  <2>3. \A q \in Requests : pc[q] \notin Holding
    BY <2>2, HolderAlone DEF Reserves
  <2>4. /\ \A q \in Requests : pc'[q] = IF q = r THEN "commit" ELSE pc[q]
        /\ \A q \in Requests : tok'[q] = IF q = r THEN p.seq ELSE tok[q]
    BY <1>2, <2>1, <1>types DEF To
  <2>5. TokensMinted'
    BY <1>2, <2>4 DEF TokensMinted, ReservationSteps
  <2>6. \A q \in Requests : pc'[q] \notin Holding
    BY <2>3, <2>4 DEF Holding
  <2>7. HoldersHold' /\ HoldersExclusive' /\ HoldersUnserved'
    BY <2>6 DEF HoldersHold, HoldersExclusive, HoldersUnserved, Holding
  <2>8. (OneReservation /\ ReservationSteps /\ ChargedUpTo /\ FenceCloses)'
    BY <1>2, <1>same DEF OneReservation, ReservationSteps, ChargedUpTo, FenceCloses
  <2>9. HandlerRunsOnce' /\ ServedIsAccounted'
    BY <1>2, <1>same DEF HandlerRunsOnce, ServedIsAccounted
  <2>10. QED
    BY <2>5, <2>7, <2>8, <2>9
<1>3. CASE Finish(r) /\ UNCHANGED ch
  <2>1. Unmoved
    BY <1>3, <1>same DEF Unmoved, FenceCloses
  <2>2. QED
    BY <1>3, <2>1, FinishRearranges, UnmovedServes
<1>4. QED
  BY <1>1, <1>2, <1>3 DEF Reserve

(***************************************************************************)
(* The handler, the mark and the release of a holder.                      *)
(***************************************************************************)
LEMMA HolderServes ==
  ASSUME TypeOK, ServeInv, NEW r \in Requests,
         Serve(r) \/ Decline(r) \/ ReleaseAuthorization(r) \/ MarkHandlerSucceeded(r)
  PROVE  ServeInv'
<1> USE DEF ServeInv
<1>types. /\ ch \in ChannelStates /\ Payment(r) \in Payments /\ pay[r].cum \in Vouchers
          /\ tok \in [Requests -> Nat] /\ pc \in [Processes -> Phases] /\ r \in Processes
          /\ ch.seq \in Nat /\ ch.cum \in Nat /\ Requests \subseteq Processes
          /\ served \in [Vouchers -> Nat] /\ ch.pending \subseteq Pendings
  BY ChannelAssumption DEF TypeOK, Payment, Payments, ChannelStates, Processes
<1>holds. pc[r] \in Holding
  BY DEF Serve, Decline, ReleaseAuthorization, MarkHandlerSucceeded, Holding
<1>alone. /\ \E p \in ch.pending : Reserves(r, p)
          /\ \A p \in ch.pending : Reserves(r, p)
          /\ \A q \in Requests : pc[q] \in Holding => q = r
  BY <1>holds, HolderAlone
<1>1. CASE Serve(r)
  <2>1. /\ \A q \in Requests : pc'[q] = IF q = r THEN "mark" ELSE pc[q]
        /\ UNCHANGED <<ch, charged, tok, pay>> /\ pc[r] = "handler"
        /\ \A v \in Vouchers : served'[v] = IF v = pay[r].cum THEN served[v] + 1 ELSE served[v]
    BY <1>1, <1>types DEF Serve, Goes, To, locals, record
  <2>2. (OneReservation /\ ReservationSteps /\ ChargedUpTo /\ FenceCloses /\ TokensMinted)'
    BY <2>1 DEF OneReservation, ReservationSteps, ChargedUpTo, FenceCloses, TokensMinted
  <2>3. HoldersHold' /\ HoldersExclusive'
    BY <2>1, <1>holds DEF HoldersHold, HoldersExclusive, Reserves, Holding
  <2>4. HoldersUnserved'
    BY <2>1, <1>alone DEF HoldersUnserved, Holding
  <2>5. HandlerRunsOnce'
    BY <2>1, <1>types DEF HandlerRunsOnce, HoldersUnserved
  <2>6. ServedIsAccounted'
    <3>1. \E p \in Of(ch.pending, pay[r].cum) : ch.cum + p.amt = pay[r].cum
      BY <1>alone DEF Of, ReservationSteps, Reserves
    <3>2. QED
      BY <2>1, <3>1 DEF ServedIsAccounted
  <2>7. QED
    BY <2>2, <2>3, <2>4, <2>5, <2>6
<1>2. CASE Decline(r)
  <2>1. /\ \A q \in Requests : pc'[q] = IF q = r THEN "release" ELSE pc[q]
        /\ UNCHANGED <<ch, charged, tok, pay, served>> /\ pc[r] = "handler"
    BY <1>2, <1>types DEF Decline, Goes, To, locals, record
  <2>2. (OneReservation /\ ReservationSteps /\ ChargedUpTo /\ FenceCloses /\ TokensMinted)'
    BY <2>1 DEF OneReservation, ReservationSteps, ChargedUpTo, FenceCloses, TokensMinted
  <2>3. HoldersHold' /\ HoldersExclusive' /\ HoldersUnserved'
    BY <2>1, <1>holds DEF HoldersHold, HoldersExclusive, HoldersUnserved, Reserves, Holding
  <2>4. HandlerRunsOnce' /\ ServedIsAccounted'
    BY <2>1 DEF HandlerRunsOnce, ServedIsAccounted
  <2>5. QED
    BY <2>2, <2>3, <2>4
<1>3. CASE ReleaseAuthorization(r)
  <2>1. Finish(r) /\ pc[r] = "release" /\ UNCHANGED <<charged, served>>
        /\ (ch' = Released(ch, Payment(r)) \/ UNCHANGED ch)
    BY <1>3 DEF ReleaseAuthorization
  <2>2. CASE UNCHANGED ch
    BY <2>1, <2>2, FinishRearranges, UnmovedServes DEF Unmoved, FenceCloses
  <2>3. CASE ch' = Released(ch, Payment(r))
    <3>1. {p \in ch.pending : p.cum # pay[r].cum \/ p.amt # pay[r].amt \/ p.ok} = {}
      BY <1>alone DEF Reserves
    <3>2. /\ ch'.pending = {} /\ ch'.seq = ch.seq /\ ch'.cum = ch.cum
          /\ ch'.final = ch.final /\ ch'.closing = ch.closing /\ ch'.sealed = ch.sealed
      BY <2>3, <3>1, <1>types DEF Released, ChannelStates, Payment
    <3>3. /\ \A q \in Requests : pc'[q] = IF q = r THEN "idle" ELSE pc[q]
          /\ \A q \in Requests : tok'[q] \in Nat /\ tok'[q] \in {tok[q], 0}
      BY <2>1, <1>types DEF Finish, To
    <3>4. \A q \in Requests : pc'[q] \notin Holding
      BY <3>3, <1>alone DEF Holding
    <3>5. HoldersHold' /\ HoldersExclusive' /\ HoldersUnserved'
      BY <3>4 DEF HoldersHold, HoldersExclusive, HoldersUnserved, Holding
    <3>6. (OneReservation /\ ReservationSteps /\ ChargedUpTo /\ FenceCloses /\ TokensMinted)'
      BY <2>1, <3>2, <3>3, <1>types
         DEF OneReservation, ReservationSteps, ChargedUpTo, FenceCloses, TokensMinted
    <3>7. HandlerRunsOnce'
      BY <2>1 DEF HandlerRunsOnce
    <3>8. ServedIsAccounted'
      <4>1. served[pay[r].cum] = 0
        BY <2>1 DEF HoldersUnserved
      <4>2. \A v \in Vouchers : Of(ch.pending, v) # {} => v = pay[r].cum
        BY <1>alone DEF Of, Reserves
      <4>3. QED
        BY <2>1, <3>2, <4>1, <4>2 DEF ServedIsAccounted
    <3>9. QED
      BY <3>5, <3>6, <3>7, <3>8
  <2>4. QED
    BY <2>1, <2>2, <2>3
<1>4. CASE MarkHandlerSucceeded(r)
  <2>1. /\ \A q \in Requests : pc'[q] = IF q = r THEN "commit" ELSE pc[q]
        /\ UNCHANGED <<charged, tok, pay, served>> /\ pc[r] = "mark"
        /\ ch' = Marked(ch, Payment(r), tok[r]) \/ UNCHANGED ch
    BY <1>4, <1>types DEF MarkHandlerSucceeded, Goes, To, locals
  <2>2. \A q \in Requests : pc'[q] \notin Holding
    BY <2>1, <1>alone DEF Holding
  <2>3. HoldersHold' /\ HoldersExclusive' /\ HoldersUnserved'
    BY <2>2 DEF HoldersHold, HoldersExclusive, HoldersUnserved, Holding
  <2>4. PICK p \in ch.pending : \A o \in ch.pending : o = p
    BY <1>alone DEF OneReservation
  <2>5. /\ ch'.seq = ch.seq /\ ch'.cum = ch.cum
        /\ ch'.final = ch.final /\ ch'.closing = ch.closing /\ ch'.sealed = ch.sealed
        /\ ch'.pending = ch.pending \/ ch'.pending = {[p EXCEPT !.ok = TRUE]}
    <3> DEFINE H == Held(ch, Payment(r), tok[r])
               M == (ch.pending \ H) \cup {[o EXCEPT !.ok = TRUE] : o \in H}
    <3>1. ch.pending = {p} /\ (H = {} \/ H = {p})
      BY <2>4 DEF Held
    <3>2. M = ch.pending \/ M = {[p EXCEPT !.ok = TRUE]}
      <4>1. CASE H = {}
        BY <4>1, Zenon
      <4>2. CASE H = {p}
        <5>1. {[o EXCEPT !.ok = TRUE] : o \in H} = {[p EXCEPT !.ok = TRUE]}
          BY <4>2
        <5>2. QED
          BY <4>2, <5>1, <3>1
      <4>3. QED
        BY <3>1, <4>1, <4>2
    <3>3. ch' = ch \/ ch' = [ch EXCEPT !.pending = M]
      BY <2>1 DEF Marked
    <3> HIDE DEF M
    <3>4. QED
      BY <3>2, <3>3, <1>types DEF ChannelStates
  <2>6. p \in Pendings
    BY <1>types
  <2> DEFINE marked == [p EXCEPT !.ok = TRUE]
  <2>7. marked.cum = p.cum /\ marked.amt = p.amt /\ marked.seq = p.seq
    BY <2>6 DEF Pendings
  <2>8. ch.pending = {p} /\ (ch'.pending = {p} \/ ch'.pending = {marked})
    BY <2>4, <2>5
  <2> HIDE DEF marked
  <2>9. (OneReservation /\ ReservationSteps /\ ChargedUpTo /\ FenceCloses /\ TokensMinted)'
    BY <2>1, <2>5, <2>7, <2>8
       DEF OneReservation, ReservationSteps, ChargedUpTo, FenceCloses, TokensMinted
  <2>10. HandlerRunsOnce'
    BY <2>1 DEF HandlerRunsOnce
  <2>11. ServedIsAccounted'
    BY <2>1, <2>5, <2>7, <2>8 DEF ServedIsAccounted, Of
  <2>12. QED
    BY <2>3, <2>9, <2>10, <2>11
<1>5. QED
  BY <1>1, <1>2, <1>3, <1>4

(***************************************************************************)
(* A charge takes the reservation it was served under off the record.      *)
(***************************************************************************)
LEMMA ChargeMoves ==
  ASSUME TypeOK, ServeInv, NEW r \in Requests, pc[r] = "commit", Charge(r)
  PROVE  /\ ch'.pending = {} /\ ch'.cum = pay[r].cum /\ ch'.seq = ch.seq
         /\ ch'.final = ch.final /\ ch'.closing = ch.closing /\ ch'.sealed = ch.sealed
         /\ ch'.claimed = ch.claimed /\ ch'.closedAt = ch.closedAt
         /\ ch'.seenAt = ch.seenAt /\ ch'.seenSlot = ch.seenSlot
         /\ ch.final = NoFence /\ ~ch.sealed
         /\ ch.cum + pay[r].amt = pay[r].cum /\ ch.cum < pay[r].cum
         /\ charged' = charged \cup {pay[r].cum}
         /\ \A q \in Requests : pc[q] \notin Holding
         /\ \A p \in ch.pending : p.cum = pay[r].cum
<1>types. /\ ch \in ChannelStates /\ pay[r].cum \in Nat /\ pay[r].amt \in Nat \ {0}
          /\ ch.cum \in Nat
  BY ChannelAssumption DEF TypeOK, ChannelStates
<1>1. PICK p \in ch.pending : p.cum = pay[r].cum /\ p.seq = tok[r]
  BY DEF Charge, CommitAllowed, Held, Payment
<1>2. \A o \in ch.pending : o = p
  BY DEF ServeInv, OneReservation
<1>3. ch.pending \ Of(ch.pending, pay[r].cum) = {}
  BY <1>1, <1>2 DEF Of
<1>4. \A q \in Requests : pc[q] \notin Holding
  <2>1. SUFFICES ASSUME NEW q \in Requests, pc[q] \in Holding PROVE FALSE
    OBVIOUS
  <2>2. r = q
    BY <2>1, <1>1, HolderAlone
  <2>3. QED
    BY <2>1, <2>2 DEF Holding
<1>5. PICK S : ch' = [ch EXCEPT !.cum = pay[r].cum, !.committed = S,
                                !.pending = @ \ Of(@, pay[r].cum)]
  BY DEF Charge, Committed, Payment
<1>6. /\ ch'.pending = {} /\ ch'.cum = pay[r].cum /\ ch'.seq = ch.seq
      /\ ch'.final = ch.final /\ ch'.closing = ch.closing /\ ch'.sealed = ch.sealed
      /\ ch'.claimed = ch.claimed /\ ch'.closedAt = ch.closedAt
      /\ ch'.seenAt = ch.seenAt /\ ch'.seenSlot = ch.seenSlot
  BY <1>3, <1>5, <1>types DEF ChannelStates
<1>7. /\ ch.final = NoFence /\ ~ch.sealed /\ ch.cum + pay[r].amt = pay[r].cum
      /\ charged' = charged \cup {pay[r].cum}
  BY DEF Charge, CommitAllowed, Payment
<1>8. ch.cum < pay[r].cum
  BY <1>7, <1>types
<1>9. QED
  BY <1>1, <1>2, <1>4, <1>6, <1>7, <1>8

LEMMA CommitServes ==
  ASSUME TypeOK, ServeInv, NEW r \in Requests, FinishCommit(r)
  PROVE  ServeInv'
<1> USE DEF ServeInv
<1>types. /\ tok \in [Requests -> Nat] /\ pc \in [Processes -> Phases] /\ r \in Processes
          /\ ch.seq \in Nat /\ ch.cum \in Nat /\ Requests \subseteq Processes
          /\ pay[r].cum \in Nat /\ charged \subseteq Nat
  BY ChannelAssumption DEF TypeOK, ChannelStates, Processes
<1>1. pc[r] = "commit" /\ UNCHANGED served /\ (Finish(r) \/ CommitFails(r))
  BY DEF FinishCommit
<1>2. Rearranged
  BY <1>1, FinishRearranges DEF CommitFails, Rearranged
<1>3. CASE UNCHANGED record
  BY <1>1, <1>2, <1>3, UnmovedServes DEF Unmoved, FenceCloses, record
<1>4. CASE Charge(r)
  <2>1. /\ ch'.pending = {} /\ ch'.cum = pay[r].cum /\ ch'.seq = ch.seq
        /\ ch'.final = ch.final /\ ch'.closing = ch.closing /\ ch'.sealed = ch.sealed
        /\ ch.cum < pay[r].cum /\ charged' = charged \cup {pay[r].cum}
        /\ \A q \in Requests : pc[q] \notin Holding
        /\ \A p \in ch.pending : p.cum = pay[r].cum
    BY <1>1, <1>4, ChargeMoves
  <2>2. \A q \in Requests : pc'[q] \notin Holding
    BY <1>2, <2>1 DEF Rearranged
  <2>3. HoldersHold' /\ HoldersExclusive' /\ HoldersUnserved'
    BY <2>2 DEF HoldersHold, HoldersExclusive, HoldersUnserved, Holding
  <2>4. TokensMinted'
    BY <1>2, <2>1, <1>types DEF TokensMinted, Rearranged
  <2>5. (OneReservation /\ ReservationSteps /\ FenceCloses)'
    BY <2>1 DEF OneReservation, ReservationSteps, FenceCloses
  <2>6. ChargedUpTo'
    BY <2>1, <1>types DEF ChargedUpTo
  <2>7. HandlerRunsOnce' /\ ServedIsAccounted'
    BY <1>1, <2>1 DEF HandlerRunsOnce, ServedIsAccounted, Of
  <2>8. QED
    BY <2>3, <2>4, <2>5, <2>6, <2>7
<1>5. QED
  BY <1>3, <1>4 DEF FinishCommit

(***************************************************************************)
(* Workers, closes, crashes and the chain leave reservations alone.        *)
(***************************************************************************)
RecordKept ==
    /\ ch'.cum = ch.cum /\ ch'.pending = ch.pending /\ ch'.seq = ch.seq
    /\ ch'.seenAt = ch.seenAt /\ ch'.seenSlot = ch.seenSlot
    /\ ch.final # NoFence => ch'.final # NoFence
    /\ ch.sealed => ch'.sealed
    /\ ch.closing => ch'.closing
    /\ ch'.final # ch.final => ch'.closing

WorkerStep ==
    \/ \E f \in Finalizers : Finalizer(f)
    \/ \E q \in Claimers : Claimer(q)
    \/ \E k \in Closers : Closer(k)

LEMMA WorkersKeep ==
  ASSUME TypeOK, WorkerStep
  PROVE  /\ RecordKept
         /\ UNCHANGED <<pay, tok, served, charged, clock, crashes>>
         /\ \A r \in Requests : pc'[r] = pc[r] /\ seen'[r] = seen[r]
<1>types. /\ ch \in ChannelStates /\ pc \in [Processes -> Phases]
          /\ seen \in [Processes -> Readings] /\ chain.settled \in Vouchers \cup {0}
  BY DEF TypeOK, Readings
<1>claimed. ASSUME NEW amount
            PROVE  LET c == Claimed(ch, amount) IN
                   /\ c.cum = ch.cum /\ c.pending = ch.pending /\ c.seq = ch.seq
                   /\ c.seenAt = ch.seenAt /\ c.seenSlot = ch.seenSlot
                   /\ c.final = ch.final /\ c.sealed = ch.sealed /\ c.closing = ch.closing
  BY <1>types DEF Claimed, ChannelStates
<1>1. ASSUME NEW p \in Finalizers \cup Claimers \cup Closers,
             \A o \in Processes : o # p => pc'[o] = pc[o] /\ seen'[o] = seen[o]
      PROVE  \A r \in Requests : pc'[r] = pc[r] /\ seen'[r] = seen[r]
  BY <1>1, SettlementAssumption DEF Processes
<1>2. ASSUME NEW f \in Finalizers, Finalizer(f)
      PROVE  /\ RecordKept /\ UNCHANGED <<pay, tok, served, charged, clock, crashes>>
             /\ \A o \in Processes : o # f => pc'[o] = pc[o] /\ seen'[o] = seen[o]
  <2>1. /\ UNCHANGED <<pay, tok, served, charged, clock, crashes>>
        /\ \A o \in Processes : o # f => pc'[o] = pc[o] /\ seen'[o] = seen[o]
    BY <1>2, <1>types DEF Finalizer, Lookup, PlanClose, AwaitSeal, RecordSeal, quiet,
       requestLocals, world, Submits, Rests, To, Sees
  <2> SUFFICES RecordKept
    BY <2>1
  <2>2. CASE Lookup(f) \/ AwaitSeal(f)
    BY <2>2 DEF Lookup, AwaitSeal, RecordKept
  <2>3. CASE PlanClose(f)
    <3> DEFINE s == seen[f]
               past == s.at >= chain.closed + Grace
               F == CASE Plan(ch, s.settled, past, s.at) = "apply" -> ch.cum
                      [] Plan(ch, s.settled, past, s.at) = "frozen" -> s.settled
                      [] OTHER -> ch.final
    <3>1. ch' = [ch EXCEPT !.closing = TRUE, !.final = F]
      BY <2>3 DEF PlanClose, Planned
    <3>2. F = ch.final \/ F \in Nat
      BY <1>types, ChannelAssumption DEF ChannelStates, Processes, Readings
    <3> HIDE DEF F
    <3>3. QED
      BY <3>1, <3>2, <1>types DEF RecordKept, ChannelStates, NoFence
  <2>4. CASE RecordSeal(f)
    <3> DEFINE c == Claimed(ch, IF seen[f].kind = "apply" THEN seen[f].cum ELSE 0)
    <3>1. ch' = [c EXCEPT !.sealed = TRUE]
      BY <2>4 DEF RecordSeal
    <3>2. c = [ch EXCEPT !.claimed = c.claimed]
      BY <1>types DEF Claimed, ChannelStates
    <3> HIDE DEF c
    <3>3. QED
      BY <3>1, <3>2, <1>types DEF RecordKept, ChannelStates
  <2>5. QED
    BY <1>2, <2>2, <2>3, <2>4 DEF Finalizer
<1>3. ASSUME NEW q \in Claimers, Claimer(q)
      PROVE  /\ RecordKept /\ UNCHANGED <<pay, tok, served, charged, clock, crashes>>
             /\ \A o \in Processes : o # q => pc'[o] = pc[o] /\ seen'[o] = seen[o]
  <2>1. /\ UNCHANGED <<pay, tok, served, charged, clock, crashes>>
        /\ \A o \in Processes : o # q => pc'[o] = pc[o] /\ seen'[o] = seen[o]
    BY <1>3, <1>types DEF Claimer, Claim, AwaitClaim, quiet,
       requestLocals, world, Submits, Rests, To, Sees
  <2>2. ch' = ch \/ \E amount : ch' = Claimed(ch, amount)
    BY <1>3 DEF Claimer, Claim, AwaitClaim
  <2>3. QED
    BY <2>1, <2>2, <1>claimed DEF RecordKept
<1>4. ASSUME NEW k \in Closers, Closer(k)
      PROVE  /\ RecordKept /\ UNCHANGED <<pay, tok, served, charged, clock, crashes>>
             /\ \A o \in Processes : o # k => pc'[o] = pc[o] /\ seen'[o] = seen[o]
  <2>1. /\ UNCHANGED <<pay, tok, served, charged, clock, crashes>>
        /\ \A o \in Processes : o # k => pc'[o] = pc[o] /\ seen'[o] = seen[o]
    BY <1>4, <1>types DEF Closer, Refund, FenceCooperativeClose, AwaitClose, CheckClose,
       RecordClose, quiet, requestLocals, world, Submits, Closing, Rests, To, Sees
  <2> SUFFICES RecordKept
    BY <2>1
  <2>2. CASE Refund(k) \/ AwaitClose(k) \/ CheckClose(k)
    BY <2>2, <1>types DEF Refund, AwaitClose, CheckClose, RecordKept, ChannelStates
  <2>3. CASE FenceCooperativeClose(k)
    <3>1. seen[k].cum # NoFence
      BY <1>types, ChannelAssumption DEF Processes, Readings, NoFence
    <3>2. QED
      BY <2>3, <3>1, <1>types DEF FenceCooperativeClose, RecordKept, ChannelStates
  <2>4. CASE RecordClose(k)
    <3> DEFINE c == Claimed(ch, seen[k].cum)
    <3>1. ch' = [c EXCEPT !.sealed = TRUE, !.closedAt = seen[k].cum]
      BY <2>4 DEF RecordClose
    <3>2. c = [ch EXCEPT !.claimed = c.claimed]
      BY <1>types DEF Claimed, ChannelStates
    <3> HIDE DEF c
    <3>3. QED
      BY <3>1, <3>2, <1>types DEF RecordKept, ChannelStates
  <2>5. QED
    BY <1>4, <2>2, <2>3, <2>4 DEF Closer
<1>5. QED
  BY <1>1, <1>2, <1>3, <1>4 DEF WorkerStep

LEMMA OthersServe ==
  ASSUME TypeOK, ServeInv, WorkerStep \/ Outside \/ \E p \in Processes : Crash(p)
  PROVE  ServeInv'
<1>1. CASE WorkerStep
  <2>1. Unmoved /\ Rearranged
    BY <1>1, WorkersKeep DEF RecordKept, Unmoved, Rearranged, ServeInv, FenceCloses
  <2>2. QED
    BY <2>1, UnmovedServes
<1>2. CASE Outside
  <2>1. UNCHANGED <<ch, pc, pay, tok, served, charged>>
    BY <1>2 DEF Outside, Land, RequestClose, Crank, Tick, server, locals
  <2>2. Unmoved /\ Rearranged
    BY <2>1 DEF Unmoved, Rearranged, ServeInv, FenceCloses
  <2>3. QED
    BY <2>2, UnmovedServes
<1>3. ASSUME NEW p \in Processes, Crash(p) PROVE ServeInv'
  <2>1. Unmoved
    BY <1>3 DEF Crash, record, Unmoved, ServeInv, FenceCloses
  <2>2. CASE p \in Requests
    BY <1>3, <2>1, <2>2, FinishRearranges, UnmovedServes DEF Crash
  <2>3. CASE p \notin Requests
    <3>1. Rearranged
      BY <1>3, <2>3 DEF Crash, Rests, To, Rearranged, requestLocals, TypeOK, Processes
    <3>2. QED
      BY <2>1, <3>1, UnmovedServes
  <2>4. QED
    BY <2>2, <2>3
<1>4. QED
  BY <1>1, <1>2, <1>3

(***************************************************************************)
(* Every step keeps the types and the reservations.                        *)
(***************************************************************************)
LEMMA NextSteps ==
  ASSUME Next
  PROVE  \/ \E r \in Requests : Request(r)
         \/ WorkerStep \/ Outside
         \/ \E p \in Processes : Crash(p)
  BY DEF Next, WorkerStep, Outside

LEMMA ServeStep ==
  ASSUME TypeOK, ServeInv, [Next]_vars
  PROVE  ServeInv'
<1>1. CASE UNCHANGED vars
  BY <1>1, UnmovedServes DEF vars, Unmoved, Rearranged, ServeInv, FenceCloses
<1>2. ASSUME NEW r \in Requests, Request(r) PROVE ServeInv'
  BY <1>2, AdmissionServes, ReserveServes, HolderServes, CommitServes DEF Request
<1>3. QED
  BY <1>1, <1>2, NextSteps, OthersServe

(***************************************************************************)
(* The inductive invariant of the reservations, with no assumption on the  *)
(* delays, the lag, the crashes or the store errors.                       *)
(***************************************************************************)
THEOREM ServeInvariant == Spec => [](TypeOK /\ ServeInv)
<1>1. TypeOK /\ TypeOK' /\ ServeInv /\ [Next]_vars => ServeInv'
  BY ServeStep
<1>2. QED
  BY BatchTyped, ServeInit, <1>1, PTL DEF Spec

(***************************************************************************)
(* One voucher runs the resource handler at most once: the reservation is  *)
(* taken in one store transition, and one that may have been served is     *)
(* never handed out again.                                                 *)
(***************************************************************************)
THEOREM HandlerOnceHolds == Spec => []HandlerRunsOnce
<1>1. ServeInv => HandlerRunsOnce
  BY DEF ServeInv
<1>2. QED
  BY ServeInvariant, <1>1, PTL

(***************************************************************************)
(* What the handler served is charged, or can still be charged from its    *)
(* reservation, until a close fences the channel: a release, a commit or a *)
(* prune loses none of it.                                                 *)
(***************************************************************************)
THEOREM ServedAccountedHolds == Spec => []ServedIsAccounted
<1>1. ServeInv => ServedIsAccounted
  BY DEF ServeInv
<1>2. QED
  BY ServeInvariant, <1>1, PTL

-----------------------------------------------------------------------------
(***************************************************************************)
(* What seals the channel with a voucher carries everything charged.       *)
(***************************************************************************)
LEMMA FenceInit == Init => FenceInv
  BY DEF Init, FenceInv, TxsFenced, DoneSettled, SettledCharged, SealedFenced,
     ClosersFenced, CloserFits, Processes

(***************************************************************************)
(* Nothing is settled beyond the watermark.                                *)
(***************************************************************************)
LEMMA SettledUpTo ==
  ASSUME TypeOK, ServeInv, FenceInv
  PROVE  /\ chain.settled <= ch.cum /\ ch.cum \in charged
         /\ chain.settled \in Nat /\ ch.cum \in Nat \ {0}
<1>1. /\ chain.settled \in Vouchers \cup {0} /\ ch.cum \in Vouchers /\ charged \subseteq Vouchers
  BY DEF TypeOK, ChannelStates
<1>2. chain.settled \in Nat /\ ch.cum \in Nat \ {0}
  BY <1>1, VoucherNat
<1>3. /\ ch.cum \in charged /\ \A v \in charged : v <= ch.cum
      /\ chain.settled = 0 \/ chain.settled \in charged
  BY DEF ServeInv, ChargedUpTo, FenceInv, SettledCharged
<1>4. chain.settled <= ch.cum
  BY <1>2, <1>3
<1>5. QED
  BY <1>2, <1>3, <1>4

(***************************************************************************)
(* A step of the server keeps the invariant when the watermark moves only  *)
(* while it is not fenced, and when what it submits and what closers carry *)
(* fits.                                                                   *)
(***************************************************************************)
ChargesGrow ==
    charged \subseteq charged' /\ (Fenced => Fenced' /\ ch'.cum = ch.cum)

CloserKept(k) == pc'[k] = pc[k] /\ seen'[k] = seen[k]

LEMMA ServerFences ==
  ASSUME FenceInv, ChargesGrow, UNCHANGED <<chain, done>>, txs \subseteq txs',
         \A t \in txs' : t \in txs \/ TxFits(t)',
         \A k \in Closers : CloserKept(k) \/ CloserFits(k)'
  PROVE  FenceInv'
<1> USE DEF FenceInv, ChargesGrow
<1>1. TxsFenced'
  <2>1. ASSUME NEW t \in txs PROVE TxFits(t)'
    BY DEF TxsFenced, TxFits, Sealing
  <2>2. QED
    BY <2>1 DEF TxsFenced
<1>2. DoneSettled' /\ SettledCharged' /\ SealedFenced'
  BY DEF DoneSettled, SettledCharged, SealedFenced
<1>3. ClosersFenced'
  <2>1. ASSUME NEW k \in Closers, CloserKept(k) PROVE CloserFits(k)'
    BY <2>1 DEF CloserKept, ClosersFenced, CloserFits
  <2>2. QED
    BY <2>1 DEF ClosersFenced
<1>4. QED
  BY <1>1, <1>2, <1>3

(***************************************************************************)
(* A request moves nobody else and nothing on chain.                       *)
(***************************************************************************)
LEMMA RequestLocal ==
  ASSUME TypeOK, NEW r \in Requests, Request(r)
  PROVE  /\ UNCHANGED <<chain, txs, done, clock>>
         /\ \A p \in Processes : p # r => pc'[p] = pc[p] /\ seen'[p] = seen[p]
         /\ \A p \in Finalizers \cup Claimers \cup Closers :
              pc'[p] = pc[p] /\ seen'[p] = seen[p]
<1>types. /\ pc \in [Processes -> Phases] /\ seen \in [Processes -> Readings]
          /\ Requests \subseteq Processes
  BY DEF TypeOK, Readings, Processes
<1>1. UNCHANGED <<chain, txs, done, clock>>
  BY DEF Request, Verify, Reconcile, Fetch, Observe, Reserve, Serve, Decline,
     ReleaseAuthorization, MarkHandlerSucceeded, FinishCommit, world
<1>2. \A p \in Processes : p # r => pc'[p] = pc[p] /\ seen'[p] = seen[p]
  BY <1>types DEF Request, Verify, Reconcile, Fetch, Observe, Reserve, Serve, Decline,
     ReleaseAuthorization, MarkHandlerSucceeded, FinishCommit, CommitFails, Admitted,
     Finish, Goes, To, Sees, locals
<1>3. QED
  BY <1>1, <1>2, SettlementAssumption DEF Processes

LEMMA RequestFences ==
  ASSUME TypeOK, ServeInv, FenceInv, NEW r \in Requests, Request(r)
  PROVE  FenceInv'
<1>types. /\ ch \in ChannelStates /\ pc \in [Processes -> Phases]
          /\ seen \in [Processes -> Readings] /\ Requests \subseteq Processes
  BY DEF TypeOK, Readings, Processes
<1>1. UNCHANGED <<chain, txs, done>> /\ \A k \in Closers : CloserKept(k)
  BY RequestLocal DEF CloserKept
<1>4. ChargesGrow
  <2>1. CASE FinishCommit(r) /\ Charge(r)
    <3>1. ch.final = NoFence /\ charged' = charged \cup {pay[r].cum}
      BY <2>1, ChargeMoves DEF FinishCommit
    <3>2. QED
      BY <3>1 DEF ChargesGrow, Fenced
  <2>2. CASE Observe(r)
    <3> DEFINE o == Observed(ch, seen[r].status, seen[r].slot, seen[r].at)
    <3>1. charged' = charged /\ ch' = Claimed(o, seen[r].settled)
      BY <2>2 DEF Observe
    <3>2. o.cum = ch.cum /\ o.final = ch.final /\ o \in ChannelStates
      BY ObservedKeeps, ObservedTyped, <1>types DEF Readings
    <3> HIDE DEF o
    <3>3. ch'.cum = ch.cum /\ ch'.final = ch.final
      BY <3>1, <3>2 DEF Claimed, ChannelStates
    <3>4. QED
      BY <3>1, <3>3 DEF ChargesGrow, Fenced
  <2>3. CASE Reserve(r)
    BY <2>3, <1>types DEF Reserve, Reserved, ChannelStates, ChargesGrow, Fenced
  <2>4. CASE ReleaseAuthorization(r)
    BY <2>4, <1>types DEF ReleaseAuthorization, Released, ChannelStates, ChargesGrow, Fenced
  <2>5. CASE MarkHandlerSucceeded(r)
    BY <2>5, <1>types DEF MarkHandlerSucceeded, Marked, ChannelStates, ChargesGrow, Fenced
  <2>6. CASE UNCHANGED record
    BY <2>6 DEF record, ChargesGrow, Fenced
  <2>7. QED
    BY <2>1, <2>2, <2>3, <2>4, <2>5, <2>6 DEF Request, Verify, Reconcile, Fetch, Serve,
       Decline, FinishCommit
<1>5. QED
  BY <1>1, <1>4, ServerFences

LEMMA WorkerFences ==
  ASSUME TypeOK, ServeInv, FenceInv, WorkerStep
  PROVE  FenceInv'
<1>types. /\ ch \in ChannelStates /\ pc \in [Processes -> Phases]
          /\ seen \in [Processes -> Readings] /\ Nothing \in Readings
          /\ chain.settled \in Nat /\ ch.cum \in Nat
  BY NothingTyped, SettledUpTo DEF TypeOK, Readings
<1>grow. ChargesGrow /\ charged' = charged /\ ch'.cum = ch.cum
  BY WorkersKeep DEF RecordKept, ChargesGrow, Fenced
<1>1. ASSUME NEW f \in Finalizers, Finalizer(f) PROVE FenceInv'
  <2>1. \A p \in Processes : p # f => pc'[p] = pc[p] /\ seen'[p] = seen[p]
    BY <1>1, <1>types DEF Finalizer, Lookup, PlanClose, AwaitSeal, RecordSeal, Submits,
       Rests, To, Sees
  <2>2. \A k \in Closers : CloserKept(k)
    BY <2>1, SettlementAssumption DEF CloserKept, Processes
  <2>3. UNCHANGED <<chain, done>>
    BY <1>1 DEF Finalizer, Lookup, PlanClose, AwaitSeal, RecordSeal, Submits, world
  <2>4. txs \subseteq txs' /\ \A t \in txs' : t \in txs \/ TxFits(t)'
    <3>1. CASE UNCHANGED world
      BY <3>1 DEF world
    <3>2. CASE \E kind \in {"distribute", "seal"} : Submits(f, [Nothing EXCEPT !.kind = kind])
      BY <3>2, <1>types DEF Submits, TxFits, Sealing, Readings
    <3>3. CASE PlanClose(f) /\ Submits(f, [Nothing EXCEPT !.kind = "apply", !.cum = ch.cum])
      <4>1. Fenced'
        <5> DEFINE s == seen[f]
                   past == s.at >= chain.closed + Grace
        <5>1. Plan(ch, s.settled, past, s.at) = "apply"
          <6>1. [Nothing EXCEPT !.kind = "apply", !.cum = ch.cum].kind = "apply"
                /\ [Nothing EXCEPT !.kind = "seal"].kind = "seal"
            BY <1>types DEF Readings
          <6>2. pc'[f] = "wait" /\ seen'[f] = [Nothing EXCEPT !.kind = "apply", !.cum = ch.cum]
            BY <3>3, <1>types DEF Submits, To, Sees, Processes
          <6>3. CASE Submits(f, [Nothing EXCEPT !.kind = "seal"])
            <7>1. seen'[f] = [Nothing EXCEPT !.kind = "seal"]
              BY <6>3, <1>types DEF Submits, Sees, Processes
            <7>2. QED
              BY <6>1, <6>2, <7>1
          <6>4. CASE Rests(f)
            <7>1. pc'[f] = "idle"
              BY <6>4, <1>types DEF Rests, To, Processes
            <7>2. QED
              BY <6>2, <7>1
          <6>5. QED
            BY <3>3, <6>3, <6>4 DEF PlanClose
        <5>2. ch'.final = ch.cum
          BY <3>3, <5>1, <1>types DEF PlanClose, Planned, ChannelStates
        <5>3. QED
          BY <5>2, <1>types, <1>grow DEF Fenced, NoFence
      <4>2. QED
        BY <3>3, <4>1, <1>grow, <1>types DEF Submits, TxFits, Sealing, Readings
    <3>4. QED
      BY <1>1, <3>1, <3>2, <3>3 DEF Finalizer, Lookup, PlanClose, AwaitSeal, RecordSeal
  <2>5. QED
    BY <2>2, <2>3, <2>4, <1>grow, ServerFences
<1>2. ASSUME NEW q \in Claimers, Claimer(q) PROVE FenceInv'
  <2>1. \A p \in Processes : p # q => pc'[p] = pc[p] /\ seen'[p] = seen[p]
    BY <1>2, <1>types DEF Claimer, Claim, AwaitClaim, Submits, Rests, To, Sees
  <2>2. \A k \in Closers : CloserKept(k)
    BY <2>1, SettlementAssumption DEF CloserKept, Processes
  <2>3. UNCHANGED <<chain, done>>
    BY <1>2 DEF Claimer, Claim, AwaitClaim, Submits, world
  <2>4. CASE UNCHANGED txs
    BY <2>2, <2>3, <2>4, <1>grow, ServerFences
  <2>5. CASE Submits(q, [Nothing EXCEPT !.cum = ch.cum])
    <3> DEFINE reading == [Nothing EXCEPT !.cum = ch.cum]
    <3>1. reading.kind = "settle" /\ reading.cum = ch.cum
      BY <1>types DEF Readings, Nothing
    <3>2. txs' = txs \cup {[kind |-> "settle", cum |-> ch.cum]}
      BY <2>5, <3>1 DEF Submits
    <3>3. TxFits([kind |-> "settle", cum |-> ch.cum])'
      BY <1>grow, SettledUpTo DEF TxFits, Sealing
    <3>4. \A t \in txs' : t \in txs \/ TxFits(t)'
      BY <3>2, <1>grow, SettledUpTo DEF TxFits, Sealing
    <3>5. QED
      BY <2>2, <2>3, <3>2, <3>4, <1>grow, ServerFences
  <2>6. QED
    BY <1>2, <2>4, <2>5 DEF Claimer, Claim, AwaitClaim, world
<1>3. ASSUME NEW k \in Closers, Closer(k) PROVE FenceInv'
  <2>0. k \in Processes /\ seen[k] \in Readings /\ seen[k].settled \in Nat /\ seen[k].cum \in Nat
    <3>1. k \in Processes /\ seen[k] \in Readings
      BY <1>types DEF Processes
    <3>2. seen[k].settled \in Vouchers \cup {0} /\ seen[k].cum \in Vouchers
      BY <3>1 DEF Readings
    <3>3. QED
      BY <3>1, <3>2, VoucherNat
  <2>1. \A p \in Processes : p # k => pc'[p] = pc[p] /\ seen'[p] = seen[p]
    BY <1>3, <1>types DEF Closer, Refund, FenceCooperativeClose, AwaitClose, CheckClose,
       RecordClose, Closing, Submits, Rests, To, Sees
  <2>2. \A o \in Closers : o # k => CloserKept(o)
    BY <2>1 DEF CloserKept, Processes
  <2>3. UNCHANGED <<chain, done>>
    BY <1>3 DEF Closer, Refund, FenceCooperativeClose, AwaitClose, CheckClose,
       RecordClose, Closing, Submits, world
  <2>4. ASSUME NEW settled \in Nat, NEW rebuilt, Closing(k, settled, rebuilt),
               settled <= chain.settled, Fenced', seen[k].cum = ch.cum
        PROVE  FenceInv'
    <3> DEFINE kind == IF settled < seen[k].cum THEN "close" ELSE "close_bare"
               reading == [seen[k] EXCEPT !.settled = settled, !.rebuilt = rebuilt, !.kind = kind]
    <3>1. reading.kind = kind /\ reading.cum = ch.cum /\ reading.settled = settled
      BY <2>0, <2>4 DEF Readings
    <3>2. Submits(k, reading)
      BY <2>4 DEF Closing
    <3> HIDE DEF reading
    <3>3. txs' = txs \cup {[kind |-> kind, cum |-> ch.cum]}
      BY <3>1, <3>2 DEF Submits
    <3>4. kind = "close_bare" => chain.settled = ch.cum
      BY <2>4, SettledUpTo
    <3>5. kind \in {"close", "close_bare"}
      OBVIOUS
    <3> HIDE DEF kind
    <3>6. \A t \in txs' : t \in txs \/ TxFits(t)'
      BY <3>3, <3>4, <3>5, <2>3, <2>4, <1>grow DEF TxFits, Sealing
    <3>7. pc'[k] = "wait" /\ seen'[k] = reading
      BY <3>2, <2>0, <1>types DEF Submits, To, Sees
    <3>8. CloserFits(k)'
      BY <3>1, <3>7, <2>3, <2>4, <1>grow DEF CloserFits
    <3>9. QED
      BY <2>2, <2>3, <3>3, <3>6, <3>8, <1>grow, ServerFences
  <2>5. ASSUME UNCHANGED txs, CloserKept(k) \/ CloserFits(k)' PROVE FenceInv'
    BY <2>2, <2>3, <2>5, <1>grow, ServerFences
  <2>6. ASSUME Rests(k) PROVE CloserFits(k)'
    BY <2>6, <2>0, <1>types DEF Rests, To, CloserFits
  <2>7. CASE Refund(k)
    <3>1. UNCHANGED txs
      BY <2>7 DEF Refund, world
    <3>2. CASE UNCHANGED <<pc, seen>>
      BY <3>1, <3>2, <2>5 DEF CloserKept
    <3>3. CASE Sees(k, [Nothing EXCEPT !.settled = chain.settled, !.cum = ch.cum])
               /\ To(k, "fence")
      <4>1. pc'[k] = "fence" /\ seen'[k].settled = chain.settled
        BY <3>3, <2>0, <1>types DEF Sees, To, Readings
      <4>2. CloserFits(k)'
        BY <4>1, <2>3, <1>types DEF CloserFits
      <4>3. QED
        BY <3>1, <4>2, <2>5
    <3>4. QED
      BY <2>7, <3>2, <3>3 DEF Refund
  <2>8. CASE FenceCooperativeClose(k)
    <3>1. CASE Rests(k) /\ UNCHANGED world
      BY <3>1, <2>5, <2>6 DEF world
    <3>2. CASE /\ ch.cum = seen[k].cum /\ Closing(k, seen[k].settled, FALSE)
               /\ ch' = [ch EXCEPT !.closing = TRUE, !.final = seen[k].cum]
      <4>1. seen[k].settled <= chain.settled
        BY <2>8 DEF FenceCooperativeClose, FenceInv, ClosersFenced, CloserFits
      <4>2. Fenced'
        BY <3>2, <2>0, <1>types DEF Fenced, NoFence, ChannelStates
      <4>3. Closing(k, seen[k].settled, FALSE) /\ seen[k].cum = ch.cum /\ seen[k].settled \in Nat
        BY <3>2, <2>0
      <4>4. QED
        BY <4>1, <4>2, <4>3, <2>4, Zenon
    <3>3. QED
      BY <2>8, <3>1, <3>2 DEF FenceCooperativeClose
  <2>9. CASE AwaitClose(k)
    <3>0. Fenced /\ seen[k].cum = ch.cum
      BY <2>9 DEF AwaitClose, FenceInv, ClosersFenced, CloserFits
    <3>1. CASE Closing(k, chain.settled, TRUE)
      <4>1. chain.settled \in Nat /\ chain.settled <= chain.settled
        BY <1>types
      <4>2. Fenced'
        BY <3>0, <1>grow DEF ChargesGrow
      <4>3. QED
        BY <3>0, <3>1, <4>1, <4>2, <2>4, Zenon
    <3>2. CASE To(k, "check") /\ UNCHANGED <<seen, world>>
      <4>1. pc'[k] = "check" /\ seen'[k] = seen[k] /\ UNCHANGED txs
        BY <3>2, <2>0, <1>types DEF To, world
      <4>2. CloserFits(k)'
        BY <3>0, <4>1, <1>grow DEF CloserFits, ChargesGrow
      <4>3. QED
        BY <4>1, <4>2, <2>5
    <3>3. CASE Rests(k) /\ UNCHANGED world
      BY <3>3, <2>5, <2>6 DEF world
    <3>4. QED
      BY <2>9, <3>1, <3>2, <3>3 DEF AwaitClose
  <2>10. CASE CheckClose(k)
    <3>0. Fenced /\ seen[k].cum = ch.cum /\ UNCHANGED txs
      BY <2>10 DEF CheckClose, FenceInv, ClosersFenced, CloserFits, world
    <3>1. CASE To(k, "record") /\ UNCHANGED seen
      <4>1. pc'[k] = "record" /\ seen'[k] = seen[k]
        BY <3>1, <2>0, <1>types DEF To
      <4>2. CloserFits(k)'
        BY <3>0, <4>1, <1>grow DEF CloserFits, ChargesGrow
      <4>3. QED
        BY <3>0, <4>2, <2>5
    <3>2. CASE Rests(k)
      BY <3>0, <3>2, <2>5, <2>6
    <3>3. QED
      BY <2>10, <3>1, <3>2 DEF CheckClose
  <2>11. CASE RecordClose(k)
    BY <2>11, <2>5, <2>6 DEF RecordClose, world
  <2>12. QED
    BY <1>3, <2>7, <2>8, <2>9, <2>10, <2>11 DEF Closer
<1>4. QED
  BY <1>1, <1>2, <1>3 DEF WorkerStep

LEMMA OutsideFences ==
  ASSUME TypeOK, ServeInv, FenceInv, Outside
  PROVE  FenceInv' /\ chain.settled <= chain'.settled
<1>same. UNCHANGED <<ch, pc, seen, charged, txs>>
  BY DEF Outside, Land, RequestClose, Crank, Tick, server, locals
<1>types. /\ chain \in [status : Statuses, settled : Vouchers \cup {0}, closed : Nat,
                        by : {"nobody", "voucher", "deadline"}]
          /\ chain.settled \in Nat /\ ch.cum \in Nat /\ Vouchers \subseteq Nat
          /\ txs \subseteq Txs /\ done \subseteq Txs /\ seen \in [Processes -> Readings]
  BY ChannelAssumption, SettledUpTo DEF TypeOK, Readings
<1>upto. chain.settled <= ch.cum /\ ch.cum \in charged /\ \A v \in charged : v <= ch.cum
  BY SettledUpTo DEF ServeInv, ChargedUpTo
(* The account's amount grows, to something charged, and reaches the       *)
(* watermark when a voucher seals it.                                      *)
<1> DEFINE Grows ==
      /\ chain'.settled \in Nat /\ chain.settled <= chain'.settled
      /\ chain'.settled \in {chain.settled} \cup charged
      /\ (chain'.status \in {"open", "closing"} <=> chain'.by = "nobody")
      /\ chain'.by = "voucher" =>
           \/ chain'.by = chain.by /\ chain'.settled = chain.settled
           \/ Fenced /\ chain'.settled = ch.cum
      /\ \A t \in done' : t \in done \/ (t \in txs /\ t.cum <= chain'.settled)
                          \/ (t \in txs /\ t.kind \notin Sealing \cup {"settle"})
<1>1. ASSUME Grows PROVE FenceInv' /\ chain.settled <= chain'.settled
  <2>1. TxsFenced'
    <3>1. ASSUME NEW t \in txs PROVE TxFits(t)'
      <4>1. TxFits(t)
        BY DEF FenceInv, TxsFenced
      <4>2. chain.settled = ch.cum => chain'.settled = ch.cum
        BY <1>1, <1>upto, <1>types
      <4>3. QED
        BY <4>1, <4>2, <1>same DEF TxFits, Fenced
    <3>2. QED
      BY <3>1, <1>same DEF TxsFenced
  <2>2. DoneSettled'
    <3>1. ASSUME NEW t \in done
          PROVE  t \in txs' /\ (t.kind \in Sealing \cup {"settle"} => t.cum <= chain'.settled)
      <4>1. t.cum \in Nat
        BY <1>types DEF Txs
      <4>2. t \in txs /\ (t.kind \in Sealing \cup {"settle"} => t.cum <= chain.settled)
        BY DEF FenceInv, DoneSettled
      <4>3. QED
        BY <1>1, <1>same, <1>types, <4>1, <4>2
    <3>2. QED
      BY <1>1, <1>same, <3>1 DEF DoneSettled
  <2>3. SettledCharged' /\ SealedFenced'
    BY <1>1, <1>same DEF FenceInv, SettledCharged, SealedFenced, Fenced
  <2>4. ClosersFenced'
    <3>1. ASSUME NEW k \in Closers PROVE CloserFits(k)'
      <4>1. seen[k].settled \in Nat
        BY <1>types, VoucherNat DEF Processes, Readings
      <4>2. CloserFits(k)
        BY DEF FenceInv, ClosersFenced
      <4>3. QED
        BY <1>1, <1>same, <1>types, <4>1, <4>2 DEF CloserFits, Fenced
    <3>2. QED
      BY <3>1 DEF ClosersFenced
  <2>5. QED
    BY <1>1, <2>1, <2>2, <2>3, <2>4 DEF FenceInv
<1>nobody. chain.status \in {"open", "closing"} <=> chain.by = "nobody"
  BY DEF FenceInv, SealedFenced
<1>seals. ASSUME NEW status, NEW settled, NEW by, Seals(status, settled, by)
          PROVE  chain'.status = status /\ chain'.settled = settled /\ chain'.by = by
  BY <1>seals, <1>types DEF Seals
<1>2. ASSUME NEW t \in txs, Land(t) PROVE Grows
  <2>1. /\ t.cum \in Nat /\ TxFits(t)
        /\ \A u \in done' : u \in done \/ u = t
    BY <1>2, <1>types DEF Txs, FenceInv, TxsFenced, Land
  <2>2. CASE t.kind = "settle" /\ t.cum > chain.settled
             /\ chain' = [chain EXCEPT !.settled = t.cum]
    <3>1. /\ chain'.settled = t.cum /\ t.cum \in charged
          /\ chain'.status = chain.status /\ chain'.by = chain.by
      BY <2>1, <2>2, <1>types DEF TxFits
    <3>2. chain.by # "voucher"
      BY <2>1, <2>2, <3>1, <1>types, <1>upto DEF FenceInv, SealedFenced
    <3>3. QED
      BY <2>1, <2>2, <3>1, <3>2, <1>types, <1>nobody
  <2>3. CASE /\ t.kind \in {"apply", "close"} /\ t.cum > chain.settled
             /\ \E s \in {"sealed", "distributed"} : Seals(s, t.cum, "voucher")
    <3>1. /\ Fenced /\ t.cum = ch.cum
          /\ chain'.status \in {"sealed", "distributed"}
          /\ chain'.settled = t.cum /\ chain'.by = "voucher"
      BY <2>1, <2>3, <1>seals DEF TxFits, Sealing
    <3>2. QED
      BY <2>1, <2>3, <3>1, <1>types, <1>upto
  <2>4. CASE t.kind = "close_bare" /\ Seals("distributed", chain.settled, "voucher")
    <3>1. /\ Fenced /\ t.cum = ch.cum /\ chain.settled = ch.cum
          /\ chain'.status = "distributed"
          /\ chain'.settled = chain.settled /\ chain'.by = "voucher"
      BY <2>1, <2>4, <1>seals DEF TxFits, Sealing
    <3>2. QED
      BY <2>1, <3>1, <1>types
  <2>5. CASE /\ t.kind = "seal"
             /\ \E s \in {"sealed", "distributed"} : Seals(s, chain.settled, "deadline")
    <3>1. /\ chain'.status \in {"sealed", "distributed"}
          /\ chain'.settled = chain.settled /\ chain'.by = "deadline"
      BY <2>5, <1>seals
    <3>2. QED
      BY <2>1, <2>5, <3>1, <1>types DEF Sealing
  <2>6. CASE /\ t.kind = "distribute" /\ chain.status = "sealed"
             /\ chain' = [chain EXCEPT !.status = "distributed"]
    BY <2>1, <2>6, <1>types, <1>nobody DEF Sealing
  <2>7. QED
    BY <1>2, <2>2, <2>3, <2>4, <2>5, <2>6 DEF Land
<1>3. ASSUME RequestClose PROVE Grows
  BY <1>3, <1>types, <1>nobody DEF RequestClose
<1>4. ASSUME Crank PROVE Grows
  <2>1. CASE Seals("sealed", chain.settled, "deadline")
    BY <1>4, <2>1, <1>seals, <1>types DEF Crank
  <2>2. CASE chain.status = "sealed" /\ chain' = [chain EXCEPT !.status = "distributed"]
    BY <1>4, <2>2, <1>types, <1>nobody DEF Crank
  <2>3. QED
    BY <1>4, <2>1, <2>2 DEF Crank
<1>5. ASSUME Tick PROVE Grows
  BY <1>5, <1>types, <1>nobody DEF Tick
<1> HIDE DEF Grows
<1>6. QED
  BY <1>1, <1>2, <1>3, <1>4, <1>5 DEF Outside

LEMMA FenceStep ==
  ASSUME TypeOK, ServeInv, FenceInv, [Next]_vars
  PROVE  FenceInv'
<1>1. CASE UNCHANGED vars
  BY <1>1 DEF vars, FenceInv, TxsFenced, TxFits, DoneSettled, SettledCharged, SealedFenced,
     ClosersFenced, CloserFits, Fenced
<1>2. ASSUME NEW p \in Processes, Crash(p) PROVE FenceInv'
  <2>1. UNCHANGED <<ch, chain, txs, done, charged>>
    BY <1>2 DEF Crash, record, world
  <2>2. ChargesGrow
    BY <2>1 DEF ChargesGrow, Fenced
  <2>3. /\ pc'[p] = "idle"
        /\ \A o \in Processes : o # p => pc'[o] = pc[o] /\ seen'[o] = seen[o]
    BY <1>2 DEF Crash, Finish, Rests, To, Sees, TypeOK
  <2>4. \A k \in Closers : CloserKept(k) \/ CloserFits(k)'
    BY <2>3 DEF CloserKept, CloserFits, Processes
  <2>5. QED
    BY <2>1, <2>2, <2>4, ServerFences
<1>3. QED
  BY <1>1, <1>2, NextSteps, RequestFences, WorkerFences, OutsideFences

(***************************************************************************)
(* The fence of a close holds in every reachable state: what a closer read *)
(* of the record covers every charge made before the record is closing,    *)
(* and nothing is charged afterwards.                                      *)
(***************************************************************************)
THEOREM FenceInvariant == Spec => [](TypeOK /\ ServeInv /\ FenceInv)
<1>1. TypeOK /\ ServeInv /\ FenceInv /\ [Next]_vars => FenceInv'
  BY FenceStep
<1>2. QED
  BY ServeInvariant, FenceInit, <1>1, PTL DEF Spec

(***************************************************************************)
(* A channel sealed with a voucher was sealed at everything charged, even  *)
(* when time passes between any two steps: the fence is set in the         *)
(* transition that chooses the amount, and no commit passes it.            *)
(***************************************************************************)
THEOREM SealRedeemsHolds == Spec => []SealRedeemsCharges
<1>1. FenceInv => SealRedeemsCharges
  BY DEF FenceInv, SealedFenced, SealRedeemsCharges
<1>2. QED
  BY FenceInvariant, <1>1, PTL

-----------------------------------------------------------------------------
(***************************************************************************)
(* A distributed account stays as it is.                                   *)
(***************************************************************************)
LEMMA DistributedStays ==
  ASSUME TypeOK, Outside, chain.status = "distributed"
  PROVE  chain' = chain
<1>1. ASSUME NEW t \in txs, Land(t) PROVE FALSE
  BY <1>1 DEF Land, InGrace, PastGrace
<1>2. ~RequestClose /\ ~Crank
  BY DEF RequestClose, Crank, PastGrace
<1>3. QED
  BY <1>1, <1>2 DEF Outside, Tick

(***************************************************************************)
(* The record shows what happened on chain.                                *)
(***************************************************************************)
LEMMA RecordInit == Init => RecordInv
  BY DEF Init, Opened, RecordInv, ReadsSettled, ClosersChecked, ClaimedSettled, Processes

(***************************************************************************)
(* A step of the server that records no more than is settled.              *)
(***************************************************************************)
LEMMA ClaimKept ==
  ASSUME TypeOK, TypeOK', RecordInv, UNCHANGED chain, ch'.closedAt = ch.closedAt,
         ch'.claimed = ch.claimed \/ ch'.claimed <= chain.settled
  PROVE  ClaimedSettled'
<1>1. chain.settled \in Nat /\ ch'.claimed \in Nat
  <2>1. chain.settled \in Vouchers \cup {0} /\ ch'.claimed \in Vouchers \cup {0}
    BY DEF TypeOK, ChannelStates
  <2>2. QED
    BY <2>1, VoucherNat
<1>2. CASE ch'.claimed = ch.claimed
  BY <1>2 DEF RecordInv, ClaimedSettled
<1>3. CASE ch'.claimed <= chain.settled
  BY <1>1, <1>3 DEF RecordInv, ClaimedSettled
<1>4. QED
  BY <1>2, <1>3

LEMMA RequestRecords ==
  ASSUME TypeOK, ServeInv, FenceInv, RecordInv, NEW r \in Requests, Request(r)
  PROVE  RecordInv'
<1>types. /\ ch \in ChannelStates /\ pc \in [Processes -> Phases]
          /\ seen \in [Processes -> Readings] /\ Requests \subseteq Processes
          /\ chain.settled \in Nat
  BY SettledUpTo DEF TypeOK, Readings, Processes
<1>same. /\ UNCHANGED <<chain, clock>>
         /\ \A p \in Processes : p # r => pc'[p] = pc[p] /\ seen'[p] = seen[p]
         /\ \A p \in Finalizers \cup Claimers \cup Closers :
              pc'[p] = pc[p] /\ seen'[p] = seen[p]
  BY RequestLocal
<1>1. ClosersChecked'
  BY <1>same DEF RecordInv, ClosersChecked
<1>2. ReadsSettled'
  <2>1. pc'[r] = "observe" => seen'[r].settled <= chain.settled
    <3>1. CASE Fetch(r)
      <4>1. SUFFICES ASSUME pc'[r] = "observe" PROVE seen'[r].settled = chain.settled
        BY <1>types
      <4>2. ~Finish(r)
        BY <4>1, <1>types DEF Finish, To
      <4>3. QED
        BY <3>1, <4>2, <1>types DEF Fetch, Sees, Readings
    <3>2. CASE ~Fetch(r)
      BY <3>2, <1>types DEF Request, Verify, Reconcile, Observe, Reserve, Serve, Decline,
         ReleaseAuthorization, MarkHandlerSucceeded, FinishCommit, CommitFails, Admitted,
         Finish, Goes, To, Sees, locals
    <3>3. QED
      BY <3>1, <3>2
  <2>2. QED
    BY <2>1, <1>same, <1>types DEF RecordInv, ReadsSettled
<1>3. ch'.closedAt = ch.closedAt /\ (ch'.claimed = ch.claimed \/ ch'.claimed <= chain.settled)
  <2>1. CASE FinishCommit(r) /\ Charge(r)
    BY <2>1, ChargeMoves DEF FinishCommit
  <2>2. CASE Observe(r)
    <3> DEFINE o == Observed(ch, seen[r].status, seen[r].slot, seen[r].at)
    <3>1. ch' = Claimed(o, seen[r].settled) /\ seen[r].settled <= chain.settled
      BY <2>2 DEF Observe, RecordInv, ReadsSettled
    <3>2. o.claimed = ch.claimed /\ o.closedAt = ch.closedAt /\ o \in ChannelStates
      BY ObservedKeeps, ObservedTyped, <1>types DEF Readings
    <3> HIDE DEF o
    <3>3. ch'.closedAt = ch.closedAt /\ ch'.claimed = Larger(ch.claimed, seen[r].settled)
      BY <3>1, <3>2 DEF Claimed, ChannelStates
    <3>4. QED
      BY <3>1, <3>3 DEF Larger
  <2>3. CASE Reserve(r)
    BY <2>3, <1>types DEF Reserve, Reserved, ChannelStates
  <2>4. CASE ReleaseAuthorization(r)
    BY <2>4, <1>types DEF ReleaseAuthorization, Released, ChannelStates
  <2>5. CASE MarkHandlerSucceeded(r)
    BY <2>5, <1>types DEF MarkHandlerSucceeded, Marked, ChannelStates
  <2>6. CASE UNCHANGED record
    BY <2>6 DEF record
  <2>7. QED
    BY <2>1, <2>2, <2>3, <2>4, <2>5, <2>6 DEF Request, Verify, Reconcile, Fetch, Serve,
       Decline, FinishCommit
<1>4. ClaimedSettled'
  BY <1>3, <1>same, RequestTyped, ClaimKept
<1>5. QED
  BY <1>1, <1>2, <1>4 DEF RecordInv

LEMMA WorkerRecords ==
  ASSUME TypeOK, ServeInv, FenceInv, RecordInv, WorkerStep
  PROVE  RecordInv'
<1>types. /\ ch \in ChannelStates /\ pc \in [Processes -> Phases]
          /\ seen \in [Processes -> Readings] /\ Nothing \in Readings
          /\ chain.settled \in Nat /\ ch.claimed \in Nat
          /\ \A p \in Processes : seen[p].cum \in Nat
  <2>1. /\ ch \in ChannelStates /\ pc \in [Processes -> Phases]
        /\ seen \in [Processes -> Readings] /\ Nothing \in Readings /\ chain.settled \in Nat
    BY NothingTyped, SettledUpTo DEF TypeOK, Readings
  <2>2. ch.claimed \in Vouchers \cup {0} /\ \A p \in Processes : seen[p].cum \in Vouchers
    BY <2>1 DEF ChannelStates, Readings
  <2>3. QED
    BY <2>1, <2>2, VoucherNat
<1>requests. \A r \in Requests : pc'[r] = pc[r] /\ seen'[r] = seen[r]
  BY WorkersKeep
<1>claim. ASSUME NEW amount \in Nat, amount <= chain.settled
          PROVE  /\ \/ Claimed(ch, amount).claimed = ch.claimed
                    \/ Claimed(ch, amount).claimed <= chain.settled
                 /\ Claimed(ch, amount).closedAt = ch.closedAt
  BY <1>claim, <1>types DEF Claimed, Larger, ChannelStates
<1>keeps. ASSUME ch'.closedAt = ch.closedAt,
                 ch'.claimed = ch.claimed \/ ch'.claimed <= chain.settled, UNCHANGED chain
          PROVE  ClaimedSettled'
  <2>1. TypeOK'
    BY FinalizerTyped, ClaimerTyped, CloserTyped DEF WorkerStep
  <2>2. QED
    BY <2>1, <1>keeps, ClaimKept
<1>same. UNCHANGED <<chain, clock>>
  BY DEF WorkerStep, Finalizer, Lookup, PlanClose, AwaitSeal, RecordSeal, Claimer, Claim,
     AwaitClaim, Closer, Refund, FenceCooperativeClose, AwaitClose, CheckClose, RecordClose,
     Closing, Submits, world
<1>1. ASSUME NEW f \in Finalizers, Finalizer(f) PROVE RecordInv'
  <2>0. f \in Processes
    BY DEF Processes
  <2>1. \A p \in Processes : p # f => pc'[p] = pc[p] /\ seen'[p] = seen[p]
    BY <1>1, <1>types DEF Finalizer, Lookup, PlanClose, AwaitSeal, RecordSeal, Submits,
       Rests, To, Sees
  <2>2. ClosersChecked'
    BY <2>1, <1>same, SettlementAssumption DEF RecordInv, ClosersChecked, Processes
  <2>3. pc'[f] = "record" /\ seen'[f].kind = "apply" => seen'[f].cum <= chain.settled
    <3>1. CASE AwaitSeal(f)
      <4>1. SUFFICES ASSUME pc'[f] = "record", seen'[f].kind = "apply"
                     PROVE  seen'[f].cum <= chain.settled
        OBVIOUS
      <4>2. Tx(f) \in done /\ seen' = seen
        BY <3>1, <4>1, <2>0, <1>types DEF AwaitSeal, Rests, To
      <4>3. QED
        BY <4>1, <4>2 DEF Tx, FenceInv, DoneSettled, Sealing
    <3>2. CASE Lookup(f)
      BY <3>2, <2>0, <1>types DEF Lookup, Submits, To, Sees, Readings
    <3>3. CASE PlanClose(f) \/ RecordSeal(f)
      BY <3>3, <2>0, <1>types DEF PlanClose, RecordSeal, Submits, Rests, To
    <3>4. QED
      BY <1>1, <3>1, <3>2, <3>3 DEF Finalizer
  <2>4. ReadsSettled'
    BY <2>1, <2>3, <1>same, <1>requests, SettlementAssumption DEF RecordInv, ReadsSettled, Processes
  <2>5. ClaimedSettled'
    <3>1. CASE RecordSeal(f)
      <4> DEFINE amount == IF seen[f].kind = "apply" THEN seen[f].cum ELSE 0
                 c == Claimed(ch, amount)
      <4>1. amount \in Nat /\ amount <= chain.settled
        BY <3>1, <2>0, <1>types DEF RecordSeal, RecordInv, ReadsSettled
      <4>2. ch' = [c EXCEPT !.sealed = TRUE]
        BY <3>1 DEF RecordSeal
      <4> HIDE DEF amount
      <4>3. (c.claimed = ch.claimed \/ c.claimed <= chain.settled) /\ c.closedAt = ch.closedAt
        BY <4>1, <1>claim
      <4>4. c = [ch EXCEPT !.claimed = c.claimed]
        BY <1>types DEF Claimed, ChannelStates
      <4> HIDE DEF c
      <4>5. ch'.claimed = c.claimed /\ ch'.closedAt = ch.closedAt
        BY <4>2, <4>3, <4>4, <1>types DEF ChannelStates
      <4>6. QED
        BY <4>3, <4>5, <1>same, <1>keeps
    <3>2. CASE PlanClose(f)
      <4>1. ch'.claimed = ch.claimed /\ ch'.closedAt = ch.closedAt
        BY <3>2, <1>types DEF PlanClose, Planned, ChannelStates
      <4>2. QED
        BY <4>1, <1>same DEF RecordInv, ClaimedSettled
    <3>3. CASE UNCHANGED ch
      BY <3>3, <1>same DEF RecordInv, ClaimedSettled
    <3>4. QED
      BY <1>1, <3>1, <3>2, <3>3 DEF Finalizer, Lookup, AwaitSeal
  <2>6. QED
    BY <2>2, <2>4, <2>5 DEF RecordInv
<1>2. ASSUME NEW q \in Claimers, Claimer(q) PROVE RecordInv'
  <2>0. q \in Processes
    BY DEF Processes
  <2>1. \A p \in Processes : p # q => pc'[p] = pc[p] /\ seen'[p] = seen[p]
    BY <1>2, <1>types DEF Claimer, Claim, AwaitClaim, Submits, Rests, To, Sees
  <2>2. ClosersChecked'
    BY <2>1, <1>same, SettlementAssumption DEF RecordInv, ClosersChecked, Processes
  <2>3. pc'[q] = "wait" => seen'[q].kind = "settle"
    <3>1. [Nothing EXCEPT !.cum = ch.cum].kind = "settle"
      BY <1>types DEF Readings, Nothing
    <3>2. QED
      BY <1>2, <3>1, <2>0, <1>types
         DEF Claimer, Claim, AwaitClaim, Submits, Rests, To, Sees, RecordInv, ReadsSettled
  <2>4. ReadsSettled'
    BY <2>1, <2>3, <1>same, <1>requests, SettlementAssumption DEF RecordInv, ReadsSettled, Processes
  <2>5. \/ UNCHANGED ch
        \/ \E amount \in Nat : amount <= chain.settled /\ ch' = Claimed(ch, amount)
    <3>1. CASE Claim(q)
      BY <3>1, <1>types DEF Claim
    <3>2. CASE AwaitClaim(q) /\ Tx(q) \in done
      <4>1. seen[q].cum <= chain.settled
        BY <3>2 DEF AwaitClaim, Tx, RecordInv, ReadsSettled, FenceInv, DoneSettled
      <4>2. QED
        BY <3>2, <4>1, <2>0, <1>types DEF AwaitClaim
    <3>3. QED
      BY <1>2, <3>1, <3>2 DEF Claimer, AwaitClaim
  <2>6. ClaimedSettled'
    <3>1. CASE UNCHANGED ch
      BY <3>1, <1>same, <1>keeps
    <3>2. ASSUME NEW amount \in Nat, amount <= chain.settled, ch' = Claimed(ch, amount)
          PROVE  ClaimedSettled'
      BY <3>2, <1>claim, <1>same, <1>keeps
    <3>3. QED
      BY <2>5, <3>1, <3>2
  <2>7. QED
    BY <2>2, <2>4, <2>6 DEF RecordInv
<1>3. ASSUME NEW k \in Closers, Closer(k) PROVE RecordInv'
  <2>0. k \in Processes
    BY DEF Processes
  <2>1. \A p \in Processes : p # k => pc'[p] = pc[p] /\ seen'[p] = seen[p]
    BY <1>3, <1>types DEF Closer, Refund, FenceCooperativeClose, AwaitClose, CheckClose,
       RecordClose, Closing, Submits, Rests, To, Sees
  <2>2. ReadsSettled'
    BY <2>1, <1>same, <1>requests, SettlementAssumption DEF RecordInv, ReadsSettled, Processes
  <2>3. pc'[k] = "record" => chain.status = "distributed"
    BY <1>3, <2>0, <1>types DEF Closer, Refund, FenceCooperativeClose, AwaitClose,
       CheckClose, RecordClose, Closing, Submits, Rests, To, RecordInv, ClosersChecked
  <2>4. ClosersChecked'
    BY <2>1, <2>3, <1>same DEF RecordInv, ClosersChecked, Processes
  <2>5. ClaimedSettled'
    <3>1. CASE RecordClose(k)
      <4> DEFINE c == Claimed(ch, seen[k].cum)
      <4>1. chain.status = "distributed" /\ Fenced /\ seen[k].cum = ch.cum
        BY <3>1 DEF RecordClose, RecordInv, ClosersChecked, FenceInv, ClosersFenced, CloserFits
      <4>2. /\ chain.by = "voucher" => chain.settled = ch.cum
            /\ chain.by \in {"voucher", "deadline"}
        BY <4>1 DEF FenceInv, SealedFenced, TypeOK
      <4>3. chain.settled <= ch.cum /\ ch.cum # 0
        BY SettledUpTo, VoucherNat, <1>types DEF ChannelStates
      <4>4. ch' = [c EXCEPT !.sealed = TRUE, !.closedAt = seen[k].cum]
        BY <3>1 DEF RecordClose
      <4>5. c.claimed = ch.claimed \/ c.claimed = ch.cum
        BY <4>1, <1>types DEF Claimed, Larger, ChannelStates
      <4>6. c = [ch EXCEPT !.claimed = c.claimed]
        BY <1>types DEF Claimed, ChannelStates
      <4> HIDE DEF c
      <4>7. ch'.claimed = c.claimed /\ ch'.closedAt = ch.cum
        BY <4>1, <4>4, <4>6, <1>types DEF ChannelStates
      <4>8. ch.cum \in Nat
        BY VoucherNat, <1>types DEF ChannelStates
      <4>9. QED
        BY <4>1, <4>2, <4>3, <4>5, <4>7, <4>8, <1>same, <1>types
           DEF RecordInv, ClaimedSettled
    <3>2. CASE ~RecordClose(k)
      <4>1. ch'.claimed = ch.claimed /\ ch'.closedAt = ch.closedAt
        BY <1>3, <3>2, <1>types DEF Closer, Refund, FenceCooperativeClose, AwaitClose,
           CheckClose, ChannelStates
      <4>2. QED
        BY <4>1, <1>same DEF RecordInv, ClaimedSettled
    <3>3. QED
      BY <3>1, <3>2
  <2>6. QED
    BY <2>2, <2>4, <2>5 DEF RecordInv
<1>4. QED
  BY <1>1, <1>2, <1>3 DEF WorkerStep

LEMMA OutsideRecords ==
  ASSUME TypeOK, ServeInv, FenceInv, RecordInv, Outside
  PROVE  RecordInv'
<1>types. /\ seen \in [Processes -> Readings] /\ chain.settled \in Nat /\ ch.claimed \in Nat
          /\ chain'.settled \in Nat /\ chain.closed \in Nat /\ clock \in Nat
          /\ \A p \in Processes : seen[p].cum \in Nat /\ seen[p].settled \in Nat
  <2>1. /\ seen \in [Processes -> Readings] /\ chain.settled \in Nat
        /\ chain.closed \in Nat /\ clock \in Nat /\ ch.claimed \in Vouchers \cup {0}
    BY SettledUpTo, SettlementAssumption DEF TypeOK, Readings, ChannelStates
  <2>2. TypeOK'
    BY OutsideTyped
  <2>3. chain'.settled \in Vouchers \cup {0}
    BY <2>2 DEF TypeOK
  <2>4. \A p \in Processes : seen[p].cum \in Vouchers /\ seen[p].settled \in Vouchers \cup {0}
    BY <2>1 DEF Readings
  <2>5. QED
    BY <2>1, <2>3, <2>4, VoucherNat
<1>same. UNCHANGED <<ch, pc, seen>> /\ chain.settled <= chain'.settled
  BY OutsideFences DEF Outside, Land, RequestClose, Crank, Tick, server, locals
<1>1. ReadsSettled'
  BY <1>same, <1>types DEF RecordInv, ReadsSettled, Processes
<1>2. ClaimedSettled'
  <2>1. CASE ch.closedAt # 0
    <3>1. chain' = chain
      BY <2>1, DistributedStays DEF RecordInv, ClaimedSettled
    <3>2. QED
      BY <3>1, <1>same DEF RecordInv, ClaimedSettled
  <2>2. CASE ch.closedAt = 0
    BY <2>2, <1>same, <1>types DEF RecordInv, ClaimedSettled
  <2>3. QED
    BY <2>1, <2>2
<1>3. ClosersChecked'
  BY DistributedStays, <1>same DEF RecordInv, ClosersChecked
<1>4. QED
  BY <1>1, <1>2, <1>3 DEF RecordInv

LEMMA RecordStep ==
  ASSUME TypeOK, ServeInv, FenceInv, RecordInv, [Next]_vars
  PROVE  RecordInv'
<1>1. CASE UNCHANGED vars
  BY <1>1 DEF vars, RecordInv, ReadsSettled, ClosersChecked, ClaimedSettled
<1>2. ASSUME NEW p \in Processes, Crash(p) PROVE RecordInv'
  <2>1. UNCHANGED <<ch, chain, clock>>
    BY <1>2 DEF Crash, record, world
  <2>2. \A o \in Processes : pc'[o] = "idle" \/ (pc'[o] = pc[o] /\ seen'[o] = seen[o])
    BY <1>2 DEF Crash, Finish, Rests, To, Sees, TypeOK
  <2>3. QED
    BY <2>1, <2>2 DEF RecordInv, ReadsSettled, ClosersChecked, ClaimedSettled, Processes
<1>3. QED
  BY <1>1, <1>2, NextSteps, RequestRecords, WorkerRecords, OutsideRecords

(***************************************************************************)
(* What the record says was settled was settled, except by a cooperative   *)
(* close recorded of a channel that the deadline sealed.  No refund it     *)
(* reports is larger than the one paid, and that of a channel sealed with  *)
(* a voucher is the one paid.  Nothing is assumed of how fast a process    *)
(* uses what it read.                                                      *)
(***************************************************************************)
THEOREM RecordedHolds == Spec => []RecordedIsSettled
<1>1. TypeOK /\ ServeInv /\ FenceInv /\ RecordInv /\ [Next]_vars => RecordInv'
  BY RecordStep
<1>2. FenceInv /\ RecordInv => RecordedIsSettled
  BY DEF FenceInv, SettledCharged, RecordInv, ClaimedSettled, RecordedIsSettled
<1>3. QED
  BY FenceInvariant, RecordInit, <1>1, <1>2, PTL DEF Spec

=============================================================================

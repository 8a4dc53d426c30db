--------------------------- MODULE SettlementWorker ---------------------------
(***************************************************************************)
(* The batched-settlement worker (core/settlement/worker.rs): an actor     *)
(* that gathers per-channel settlements, flush tasks that pack them into   *)
(* transactions under a cap on concurrent sends, and confirmation tasks    *)
(* that settle the channels of a failed packed transaction one by one.     *)
(* A send may fail with or without reaching a node, a sent transaction may *)
(* land late or never, and a payer may close a channel at any time, after  *)
(* which every transaction that settles it fails as a whole.               *)
(***************************************************************************)
EXTENDS Integers, Sequences, FiniteSets, SequencesExt, FiniteSetsExt

CONSTANTS
    Units,        \* the settlements submitted, one per channel
    Size,         \* what each adds to a transaction's wire size
    MaxPerTx,     \* max_voucher_settlements_per_tx
    WireLimit,    \* the size a transaction may have
    MaxInFlight,  \* max_in_flight_tx
    MaxQueued,    \* the capacity of the worker's channel
    MaxBad        \* bound on channels that are closed under the worker

ASSUME WorkerAssumption ==
    /\ Size \in [Units -> Nat \ {0}]
    /\ {MaxPerTx, WireLimit, MaxInFlight, MaxBad} \subseteq Nat
    /\ MaxQueued \in Nat \ {0}

VARIABLES
    awaits,     \* the units submitted with await_confirmation
    bad,        \* the units whose instructions fail on chain
    unsent,     \* the units not submitted yet
    open,       \* some SettlementHandle is left
    running,    \* the actor's loop has not ended
    queue,      \* the mpsc channel
    pending,    \* the batch being gathered
    deadline,   \* the linger timer is set
    flushes,    \* flush tasks: the groups left, and whether a permit is held
    permits,    \* the semaphore
    tasks,      \* confirmation tasks
    txs,        \* history: the transactions a node may have got
    tried,      \* history: the units settle_alone was started for
    reply       \* what each submitter was told

actor == <<unsent, open, running, queue, pending, deadline>>
vars == <<awaits, bad, unsent, open, running, queue, pending, deadline, flushes,
          permits, tasks, txs, tried, reply>>

Replies == {"none", "sent", "confirmed", "failed", "unconfirmed", "error"}

MayApply == {"flying", "applied"}

TypeOK ==
    /\ awaits \subseteq Units /\ bad \subseteq Units /\ tried \subseteq Units
    /\ unsent \subseteq Units
    /\ {open, running, deadline} \subseteq BOOLEAN
    /\ queue \in Seq(Units) /\ pending \in Seq(Units)
    /\ \A f \in flushes : f.groups \in Seq(Seq(Units)) /\ f.holds \in BOOLEAN
    /\ \A t \in tasks :
         /\ t.group \in Seq(Units) /\ t.todo \in Seq(Units)
         /\ t.at \in {"poll", "permit", "send", "alone"}
    /\ \A t \in txs : t.units \subseteq Units /\ t.alone \in BOOLEAN
                      /\ t.state \in MayApply \cup {"failed"}
    /\ permits + Cardinality({f \in flushes : f.holds})
               + Cardinality({t \in tasks : t.at = "send"}) = Max({MaxInFlight, 1})
    /\ reply \in [Units -> Replies]

Init ==
    /\ awaits \in SUBSET Units /\ bad = {} /\ unsent = Units
    /\ open = TRUE /\ running = TRUE
    /\ queue = <<>> /\ pending = <<>> /\ deadline = FALSE
    /\ flushes = {} /\ permits = Max({MaxInFlight, 1}) /\ tasks = {}
    /\ txs = {} /\ tried = {}
    /\ reply = [u \in Units |-> "none"]

-----------------------------------------------------------------------------
(***************************************************************************)
(* Greedy packing: fits_tx, would_overflow_tx and regroup.                 *)
(***************************************************************************)
Fits(us) == MapThenSumSet(LAMBDA u : Size[u], us) <= WireLimit

WouldOverflow(cur, u) ==
    Len(cur) >= Max({MaxPerTx, 1}) \/ ~Fits(ToSet(cur) \cup {u})

Place(acc, u) ==
    IF acc.cur # <<>> /\ WouldOverflow(acc.cur, u)
    THEN [out |-> Append(acc.out, acc.cur), cur |-> <<u>>]
    ELSE [out |-> acc.out, cur |-> Append(acc.cur, u)]

Regroup(units) ==
    LET packed[n \in 0..Len(units)] ==
          IF n = 0 THEN [out |-> <<>>, cur |-> <<>>] ELSE Place(packed[n - 1], units[n])
        last == packed[Len(units)]
    IN  IF last.cur = <<>> THEN last.out ELSE Append(last.out, last.cur)

SpawnFlush(units) ==
    flushes' = flushes \cup {[groups |-> Regroup(units), holds |-> FALSE]}

-----------------------------------------------------------------------------
(***************************************************************************)
(* The actor.                                                              *)
(***************************************************************************)
Submit(u) ==
    /\ open /\ u \in unsent /\ Len(queue) < MaxQueued
    /\ unsent' = unsent \ {u}
    /\ queue' = Append(queue, u)
    /\ UNCHANGED <<awaits, bad, open, running, pending, deadline, flushes,
                   permits, tasks, txs, tried, reply>>

ReceiveUntimed ==
    /\ running /\ queue # <<>>
    /\ queue' = Tail(queue) /\ pending' = Append(pending, Head(queue))
    /\ UNCHANGED <<awaits, bad, unsent, open, running, deadline, flushes, permits,
                   tasks, txs, tried, reply>>

Receive ==
    /\ running /\ queue # <<>>
    /\ queue' = Tail(queue)
    /\ LET batch == Append(pending, Head(queue)) IN
         \/ /\ Len(batch) >= Max({MaxPerTx, 1})
            /\ SpawnFlush(batch) /\ pending' = <<>> /\ deadline' = FALSE
         \/ /\ Len(batch) < Max({MaxPerTx, 1})
            /\ pending' = batch /\ deadline' = TRUE /\ UNCHANGED flushes
    /\ UNCHANGED <<awaits, bad, unsent, open, running, permits, tasks, txs, tried, reply>>

Linger ==
    /\ running /\ deadline
    /\ SpawnFlush(pending) /\ pending' = <<>> /\ deadline' = FALSE
    /\ UNCHANGED <<awaits, bad, unsent, open, running, queue, permits, tasks, txs,
                   tried, reply>>

(***************************************************************************)
(* The last handle is dropped; the actor drains its channel and ends.      *)
(***************************************************************************)
DropHandles ==
    /\ open /\ open' = FALSE
    /\ UNCHANGED <<awaits, bad, unsent, running, queue, pending, deadline, flushes,
                   permits, tasks, txs, tried, reply>>

Drain ==
    /\ running /\ ~open /\ queue = <<>>
    /\ running' = FALSE
    /\ \/ pending # <<>> /\ SpawnFlush(pending)
       \/ pending = <<>> /\ UNCHANGED flushes
    /\ pending' = <<>> /\ deadline' = FALSE
    /\ UNCHANGED <<awaits, bad, unsent, open, queue, permits, tasks, txs, tried, reply>>

-----------------------------------------------------------------------------
(***************************************************************************)
(* sign_and_send.  A blockhash, build or signing error sends nothing; a    *)
(* send error may come after the node forwarded the transaction.           *)
(***************************************************************************)
Sent(us, alone) == txs' = txs \cup {[units |-> us, alone |-> alone, state |-> "flying"]}

NotSent(us, alone) == UNCHANGED txs \/ (Fits(us) /\ Sent(us, alone))

Answer(us, r) == reply' = [u \in Units |-> IF u \in us THEN r ELSE reply[u]]

(***************************************************************************)
(* A flush task: one permit per transaction, held while it is sent.  An    *)
(* error answers the whole group; otherwise the units that do not wait     *)
(* are answered, and a confirmation task takes over without the permit.    *)
(***************************************************************************)
AcquireForGroup(f) ==
    /\ ~f.holds /\ permits > 0
    /\ permits' = permits - 1
    /\ flushes' = (flushes \ {f}) \cup {[groups |-> f.groups, holds |-> TRUE]}
    /\ UNCHANGED <<awaits, bad, actor, tasks, txs, tried, reply>>

GroupDone(f) ==
    /\ permits' = permits + 1
    /\ flushes' = (flushes \ {f}) \cup
         (IF Len(f.groups) > 1
          THEN {[groups |-> Tail(f.groups), holds |-> FALSE]} ELSE {})

SettleGroupFails(f) ==
    /\ f.holds
    /\ LET us == ToSet(Head(f.groups)) IN NotSent(us, FALSE) /\ Answer(us, "error")
    /\ GroupDone(f)
    /\ UNCHANGED <<awaits, bad, actor, tasks, tried>>

SettleGroup(f) ==
    /\ f.holds
    /\ LET group == Head(f.groups)
           us == ToSet(group)
       IN  /\ Fits(us) /\ Sent(us, FALSE)
           /\ Answer(us \ awaits, "sent")
           /\ tasks' = tasks \cup {[group |-> group, todo |-> <<>>, at |-> "poll"]}
    /\ GroupDone(f)
    /\ UNCHANGED <<awaits, bad, actor, tried>>

-----------------------------------------------------------------------------
(***************************************************************************)
(* confirm_settlement: the outcome the polls of a transaction end with.    *)
(***************************************************************************)
Outcome(us, alone, o) ==
    \/ o = "unconfirmed"
    \/ \E t \in txs : t.units = us /\ t.alone = alone
                      /\ o = CASE t.state = "applied" -> "confirmed"
                               [] t.state = "failed" -> "failed"
                               [] OTHER -> "unconfirmed"

(***************************************************************************)
(* The confirmation task of a group.  A packed transaction that failed on  *)
(* chain applied nothing: each of its units is settled alone, the ones     *)
(* still waiting for an answer first.                                      *)
(***************************************************************************)
Among(group, us) ==
    LET kept[n \in 0..Len(group)] ==
          IF n = 0 THEN <<>>
          ELSE IF group[n] \in us THEN Append(kept[n - 1], group[n]) ELSE kept[n - 1]
    IN  kept[Len(group)]

InTurn(group) == Among(group, awaits) \o Among(group, Units \ awaits)

ConfirmForgetsReplied(t) ==
    /\ t.at = "poll"
    /\ \E o \in {"confirmed", "failed", "unconfirmed"} :
         /\ Outcome(ToSet(t.group), FALSE, o)
         /\ LET left == Among(t.group, awaits) IN
            \/ /\ o = "failed" /\ Len(t.group) > 1 /\ left # <<>>
               /\ tasks' = (tasks \ {t}) \cup
                    {[group |-> t.group, todo |-> left, at |-> "permit"]}
               /\ UNCHANGED reply
            \/ /\ ~(o = "failed" /\ Len(t.group) > 1 /\ left # <<>>)
               /\ tasks' = tasks \ {t}
               /\ Answer(ToSet(t.group) \cap awaits, o)
    /\ UNCHANGED <<awaits, bad, actor, flushes, permits, txs, tried>>

ConfirmRetriesUnseen(t) ==
    /\ t.at = "poll"
    /\ \E o \in {"confirmed", "failed", "unconfirmed"} :
         /\ Outcome(ToSet(t.group), FALSE, o)
         /\ \/ /\ o # "confirmed" /\ Len(t.group) > 1
               /\ tasks' = (tasks \ {t}) \cup
                    {[group |-> t.group, todo |-> InTurn(t.group), at |-> "permit"]}
               /\ UNCHANGED reply
            \/ /\ ~(o # "confirmed" /\ Len(t.group) > 1)
               /\ tasks' = tasks \ {t}
               /\ Answer(ToSet(t.group) \cap awaits, o)
    /\ UNCHANGED <<awaits, bad, actor, flushes, permits, txs, tried>>

ConfirmShares(t) ==
    /\ t.at = "poll"
    /\ \E o \in {"confirmed", "failed", "unconfirmed"} :
         /\ Outcome(ToSet(t.group), FALSE, o)
         /\ tasks' = tasks \ {t}
         /\ Answer(ToSet(t.group) \cap awaits, o)
    /\ UNCHANGED <<awaits, bad, actor, flushes, permits, txs, tried>>

Confirm(t) ==
    /\ t.at = "poll"
    /\ \E o \in {"confirmed", "failed", "unconfirmed"} :
         /\ Outcome(ToSet(t.group), FALSE, o)
         /\ \/ /\ o = "failed" /\ Len(t.group) > 1
               /\ tasks' = (tasks \ {t}) \cup
                    {[group |-> t.group, todo |-> InTurn(t.group), at |-> "permit"]}
               /\ UNCHANGED reply
            \/ /\ o # "failed" \/ Len(t.group) = 1
               /\ tasks' = tasks \ {t}
               /\ Answer(ToSet(t.group) \cap awaits, o)
    /\ UNCHANGED <<awaits, bad, actor, flushes, permits, txs, tried>>

-----------------------------------------------------------------------------
(***************************************************************************)
(* settle_alone: a permit for the send, then the confirmation.             *)
(***************************************************************************)
At(t, p) == tasks' = (tasks \ {t}) \cup {[t EXCEPT !.at = p]}

AcquireAlone(t) ==
    /\ t.at = "permit" /\ permits > 0
    /\ permits' = permits - 1
    /\ tried' = tried \cup {Head(t.todo)}
    /\ At(t, "send")
    /\ UNCHANGED <<awaits, bad, actor, flushes, txs, reply>>

(***************************************************************************)
(* The unit at the head has its outcome: answer it if it waits, and go on. *)
(***************************************************************************)
AloneDone(t, o) ==
    /\ Answer({Head(t.todo)} \cap awaits, o)
    /\ tasks' = (tasks \ {t}) \cup
         (IF Len(t.todo) > 1
          THEN {[group |-> t.group, todo |-> Tail(t.todo), at |-> "permit"]} ELSE {})

SendAlone(t) ==
    /\ t.at = "send"
    /\ LET us == {Head(t.todo)} IN
         \/ Fits(us) /\ Sent(us, TRUE) /\ At(t, "alone") /\ UNCHANGED reply
         \/ NotSent(us, TRUE) /\ AloneDone(t, "error")
    /\ permits' = permits + 1
    /\ UNCHANGED <<awaits, bad, actor, flushes, tried>>

ConfirmAlone(t) ==
    /\ t.at = "alone"
    /\ \E o \in {"confirmed", "failed", "unconfirmed"} :
         Outcome({Head(t.todo)}, TRUE, o) /\ AloneDone(t, o)
    /\ UNCHANGED <<awaits, bad, actor, flushes, permits, txs, tried>>

-----------------------------------------------------------------------------
(***************************************************************************)
(* The cluster and the payers.  A transaction is atomic; a packed one can  *)
(* also fail for what it costs as a whole.  One that never lands stays in   *)
(* flight.                                                                 *)
(***************************************************************************)
Land(t) ==
    /\ t.state = "flying"
    /\ \E s \in {"applied", "failed"} :
         /\ s = "applied" => t.units \cap bad = {}
         /\ s = "failed" => t.units \cap bad # {} \/ Cardinality(t.units) > 1
         /\ txs' = (txs \ {t}) \cup {[t EXCEPT !.state = s]}
    /\ UNCHANGED <<awaits, bad, actor, flushes, permits, tasks, tried, reply>>

PayerCloses(u) ==
    /\ u \notin bad /\ Cardinality(bad) < MaxBad /\ bad' = bad \cup {u}
    /\ UNCHANGED <<awaits, actor, flushes, permits, tasks, txs, tried, reply>>

FlushTask(f) == AcquireForGroup(f) \/ SettleGroupFails(f) \/ SettleGroup(f)

ConfirmTask(t) == Confirm(t) \/ AcquireAlone(t) \/ SendAlone(t) \/ ConfirmAlone(t)

Next ==
    \/ \E u \in Units : Submit(u) \/ PayerCloses(u)
    \/ Receive \/ Linger \/ DropHandles \/ Drain
    \/ \E f \in flushes : FlushTask(f)
    \/ \E t \in tasks : ConfirmTask(t)
    \/ \E t \in txs : Land(t)

Spec == Init /\ [][Next]_vars

(***************************************************************************)
(* The runtime polls the actor and its tasks, the linger timer fires and   *)
(* the semaphore is fair.  Nothing is assumed of nodes and the cluster:    *)
(* every send ends in an answer or an error, and polling ends with its     *)
(* attempts.                                                               *)
(***************************************************************************)
Fairness ==
    /\ WF_vars(Receive) /\ WF_vars(Linger) /\ WF_vars(Drain)
    /\ WF_vars(\E f \in flushes : FlushTask(f))
    /\ WF_vars(\E t \in tasks : ConfirmTask(t))

FairSpec == Spec /\ Fairness

-----------------------------------------------------------------------------
(***************************************************************************)
(* No settlement is in two transactions that may both take effect: only    *)
(* what is known to have failed on chain is sent again.                    *)
(***************************************************************************)
NeverTwoLive ==
    \A s, t \in txs :
        s # t /\ s.state \in MayApply /\ t.state \in MayApply => s.units \cap t.units = {}

(***************************************************************************)
(* Submitters are told the truth: settle_confirmed answers with a          *)
(* signature only for a settlement that took effect, packed or alone, and  *)
(* one is reported as failed on chain only for its own fault, never for    *)
(* that of a channel it was packed with.                                   *)
(***************************************************************************)
AnswersAreTrue ==
    \A u \in Units :
        /\ reply[u] = "confirmed" => \E t \in txs : u \in t.units /\ t.state = "applied"
        /\ reply[u] = "failed" => u \in bad

(***************************************************************************)
(* Every submitter is answered, also when the handles are dropped before   *)
(* the batch is flushed, whatever becomes of its transactions.             *)
(***************************************************************************)
EveryUnitIsAnswered ==
    \A u \in Units : u \in ToSet(queue) ~> reply[u] # "none"

(***************************************************************************)
(* Once a packed transaction is seen to have failed, every channel in it   *)
(* is settled alone, the ones already answered included.                   *)
(***************************************************************************)
SeenFailed(u) == \E t \in tasks : t.at # "poll" /\ u \in ToSet(t.group)

SiblingsAreSettledAlone == \A u \in Units : SeenFailed(u) ~> u \in tried

=============================================================================

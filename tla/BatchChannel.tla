----------------------------- MODULE BatchChannel -----------------------------
(***************************************************************************)
(* The durable record of one x402 batch-settlement channel (ChannelState   *)
(* of core/store.rs) and its transitions.  Each operator is what one       *)
(* atomic store transition computes from the record it finds.  An          *)
(* authorization is named by the cumulative amount its voucher reaches;    *)
(* its request fingerprint is the price of the route it was presented to.  *)
(***************************************************************************)
EXTENDS Integers, FiniteSets

CONSTANTS
    Vouchers,       \* the cumulative amounts the payer signs vouchers for
    Amounts,        \* the prices of the routes
    Lease,          \* reservation_lease
    MaxCommitted,   \* MAX_COMMITTED_AUTHORIZATIONS
    SnapshotAge     \* channel_snapshot_max_age_seconds

NoFence == -1       \* final_cumulative is None

ASSUME ChannelAssumption ==
    /\ Vouchers \subseteq Nat \ {0} /\ Amounts \subseteq Nat \ {0}
    /\ 1 \in Vouchers \cap Amounts
    /\ Lease \in Nat \ {0} /\ SnapshotAge \in Nat
    /\ MaxCommitted \in Nat \ {0}

Payments == [cum : Vouchers, amt : Amounts]

Pendings == [cum : Vouchers, amt : Amounts, seq : Nat, exp : Nat, ok : BOOLEAN]

ChannelStates ==
    [cum : Vouchers,                    \* cumulative
     pending : SUBSET Pendings,         \* pending_deliveries
     committed : SUBSET Payments,       \* committed_deliveries
     seq : Nat,                         \* next_delivery_sequence
     closing : BOOLEAN,                 \* close_requested_at is set
     sealed : BOOLEAN,
     final : Vouchers \cup {0, NoFence},   \* final_cumulative
     claimed : Vouchers \cup {0},       \* settled_on_chain
     closedAt : Vouchers \cup {0},      \* the saved cooperative close, 0 for none
     seenAt : Nat, seenSlot : Nat]      \* the newest onchain observation

(***************************************************************************)
(* The record that seed_state makes for the opening deposit, once the      *)
(* voucher it came with is committed.                                      *)
(***************************************************************************)
Opened ==
    [cum |-> 1, pending |-> {}, committed |-> {[cum |-> 1, amt |-> 1]},
     seq |-> 1, closing |-> FALSE, sealed |-> FALSE, final |-> NoFence,
     claimed |-> 0, closedAt |-> 0, seenAt |-> 0, seenSlot |-> 0]

-----------------------------------------------------------------------------
Of(entries, cum) == {e \in entries : e.cum = cum}

Live(p, now) == p.exp > now

(***************************************************************************)
(* reserve_authorization: what a presented payment is told.                *)
(***************************************************************************)
Classify(p, pay, now) ==
    IF p.amt # pay.amt THEN "conflict"
    ELSE IF p.ok THEN "succeeded"
    ELSE IF Live(p, now) THEN "in_progress" ELSE "abandoned"

ReservationReclaims(ch, pay, now) ==   \* mutant: an expired reservation is handed out again
    LET others == {p \in ch.pending : p.ok \/ Live(p, now)} IN
    IF ch.sealed \/ ch.closing THEN "closing"
    ELSE IF Of(ch.committed, pay.cum) # {} THEN "committed"
    ELSE IF others # {} THEN "in_progress"
    ELSE IF ch.cum + pay.amt # pay.cum THEN "stale"
    ELSE "reserved"

ReservationStepsPast(ch, pay, now) ==   \* mutant: an expired reservation is stepped past
    LET mine == Of(ch.pending, pay.cum)
        others == {p \in ch.pending : p.ok \/ Live(p, now)}
    IN IF ch.sealed \/ ch.closing THEN "closing"
       ELSE IF Of(ch.committed, pay.cum) # {} THEN "committed"
       ELSE IF mine # {} THEN Classify(CHOOSE p \in mine : TRUE, pay, now)
       ELSE IF others # {} THEN "in_progress"
       ELSE IF ch.cum + pay.amt # pay.cum THEN "stale"
       ELSE "reserved"

ReservationWaits(ch, pay, now) ==   \* mutant: a served reservation is never resumed
    IF ch.sealed \/ ch.closing THEN "closing"
    ELSE IF Of(ch.committed, pay.cum) # {} THEN "committed"
    ELSE IF ch.pending # {} THEN "in_progress"
    ELSE IF ch.cum + pay.amt # pay.cum THEN "stale"
    ELSE "reserved"

Reservation(ch, pay, now) ==
    LET done == Of(ch.committed, pay.cum)
        mine == Of(ch.pending, pay.cum)
    IN IF ch.sealed \/ ch.closing THEN "closing"
       ELSE IF done # {} THEN IF pay \in done THEN "committed" ELSE "conflict"
       ELSE IF mine # {} THEN Classify(CHOOSE p \in mine : TRUE, pay, now)
       ELSE IF \E p \in ch.pending : ~p.ok /\ ~Live(p, now) THEN "abandoned"
       ELSE IF ch.pending # {} THEN "in_progress"
       ELSE IF ch.cum + pay.amt # pay.cum THEN "stale"
       ELSE "reserved"

(***************************************************************************)
(* prune_authorizations drops the oldest committed records: those whose    *)
(* retention is over, which may be any of them, and those over the bound.  *)
(***************************************************************************)
Pruned(entries, keep) ==
    {S \in SUBSET entries :
        /\ keep \subseteq S /\ Cardinality(S) <= MaxCommitted
        /\ \A e \in S, d \in entries \ S : d.cum < e.cum}

Reserved(ch, pay, now) ==
    {[ch EXCEPT !.committed = S, !.seq = @ + 1,
                !.pending = @ \cup {[cum |-> pay.cum, amt |-> pay.amt, seq |-> ch.seq + 1,
                                     exp |-> now + Lease, ok |-> FALSE]}] :
        S \in Pruned(ch.committed, {})}

(***************************************************************************)
(* The pending entry a reservation token was minted for, none once a later *)
(* reservation was taken.                                                  *)
(***************************************************************************)
Held(ch, pay, tok) ==
    {p \in ch.pending : p.cum = pay.cum /\ p.amt = pay.amt /\ p.seq = tok /\ ch.seq <= tok}

(***************************************************************************)
(* mark_authorization_handler_succeeded; an authorization that is already  *)
(* committed or no longer held is left alone.                              *)
(***************************************************************************)
Marked(ch, pay, tok) ==
    IF Of(ch.committed, pay.cum) # {} THEN ch
    ELSE [ch EXCEPT !.pending = (@ \ Held(ch, pay, tok))
                        \cup {[p EXCEPT !.ok = TRUE] : p \in Held(ch, pay, tok)}]

(***************************************************************************)
(* release_authorization: by id and fingerprint, never a served handler.   *)
(***************************************************************************)
Released(ch, pay) ==
    [ch EXCEPT !.pending = {p \in @ : p.cum # pay.cum \/ p.amt # pay.amt \/ p.ok}]

(***************************************************************************)
(* commit_authorization                                                    *)
(***************************************************************************)
CommitUnfenced(ch, pay, tok) ==   \* mutant: the commit ignores the fence of a close
    /\ Of(ch.committed, pay.cum) = {}
    /\ Held(ch, pay, tok) # {}
    /\ ch.cum + pay.amt = pay.cum

CommitAllowed(ch, pay, tok) ==
    /\ Of(ch.committed, pay.cum) = {}
    /\ Held(ch, pay, tok) # {}
    /\ ~ch.sealed /\ ch.final = NoFence
    /\ ch.cum + pay.amt = pay.cum

Committed(ch, pay) ==
    {[ch EXCEPT !.cum = pay.cum, !.committed = S,
                !.pending = @ \ Of(@, pay.cum)] :
        S \in Pruned(ch.committed \cup {pay}, {pay})}

(***************************************************************************)
(* has_blocking_authorization: only a live lease holds a close up.         *)
(***************************************************************************)
BlockingAny(ch, now) ==   \* mutant: an expired reservation blocks a close
    ch.pending # {}

Blocking(ch, now) == \E p \in ch.pending : Live(p, now)

-----------------------------------------------------------------------------
(***************************************************************************)
(* grace_seal_plan and plan_close: record the payer's close, choose what   *)
(* the finalizer does, and fence the watermark when it seals.              *)
(***************************************************************************)
Plan(ch, settled, pastDeadline, now) ==
    IF Blocking(ch, now) THEN "in_flight"
    ELSE IF pastDeadline THEN "frozen"
    ELSE IF ch.cum <= settled THEN "nothing" ELSE "apply"

Planned(ch, settled, pastDeadline, now) ==
    LET plan == Plan(ch, settled, pastDeadline, now)
    IN [ch EXCEPT !.closing = TRUE,
                  !.final = CASE plan = "apply" -> ch.cum
                              [] plan = "frozen" -> settled
                              [] OTHER -> ch.final]

(***************************************************************************)
(* record_onchain_observation: fences first, then the snapshot unless the  *)
(* read came from behind the newest slot.                                  *)
(***************************************************************************)
Behind(ch, slot) == slot < ch.seenSlot

Observed(ch, status, slot, now) ==
    [ch EXCEPT !.closing = @ \/ status # "open",
               !.sealed = @ \/ status \in {"sealed", "distributed"},
               !.seenAt = IF Behind(ch, slot) THEN @ ELSE now,
               !.seenSlot = IF Behind(ch, slot) THEN @ ELSE slot]

Larger(a, b) == IF a >= b THEN a ELSE b

Claimed(ch, amount) == [ch EXCEPT !.claimed = Larger(@, amount)]

=============================================================================

----------------------------- MODULE SessionOpen -----------------------------
(***************************************************************************)
(* The open of one MPP session channel (mpp/server/session.rs): requests   *)
(* that present the client's signed open, and the host's reconciliation,   *)
(* reserve a durable intent, broadcast, and activate or retire the record. *)
(* The transaction may also be broadcast by another endpoint that shares   *)
(* the challenge secret.  RPC answers may lag the cluster, any step of a   *)
(* request may fail, and the server may restart, with a memory store       *)
(* losing its records.  A confirmed landing is taken as lasting.           *)
(***************************************************************************)
EXTENDS Integers, FiniteSetsExt

CONSTANTS
    Handlers,     \* requests and reconciliations in flight
    Deposit,      \* the deposit the open funds
    FirstValid,   \* the slot of the transaction's blockhash
    LastValid,    \* the last slot at which that blockhash is valid
    OpenBy,       \* the end of the openSlot window (OPEN_SLOT_WINDOW)
    CacheAge,     \* slots a cached cluster slot may be behind (slot_cache_ttl)
    MaxLag,       \* slots the node that answers getSlot may be behind
    MaxSlot,      \* bound on the cluster slot
    MaxFaults     \* bound on failed requests and restarts of the server

ASSUME OpenAssumption ==
    /\ {Deposit, CacheAge, MaxLag, MaxFaults} \subseteq Nat
    /\ {FirstValid, LastValid, OpenBy, MaxSlot} \subseteq Nat \ {0}
    /\ FirstValid <= MaxSlot

VARIABLES
    slot, final,   \* the confirmed and the finalized slot of the cluster
    fate, at,      \* the transaction: "none", "ok" or "failed", and its slot
    settled,       \* the settled watermark of the channel account
    durable,       \* whether the store outlives the server
    since,         \* the slot at which the server last started
    faults,        \* failed requests and restarts so far
    rec,           \* the channel record
    job,           \* what each handler is doing
    served,        \* history: what was served, over all records of the channel
    behind         \* history: the slot read for an open that had landed was older
                   \* than the server

cluster == <<slot, final, fate, at, settled>>
server == <<durable, since, faults, behind>>
vars == <<cluster, server, rec, job, served>>

None == 0   \* no slot

NoRecord == [state |-> "none", floor |-> None, validAt |-> None, cum |-> 0]

Idle == [at |-> "idle", floor |-> None, validAt |-> None, activating |-> FALSE,
         settled |-> 0, seen |-> NoRecord]

Slots == None..MaxSlot

Records == [state : {"none", "pending", "active", "expired", "elsewhere"},
            floor : Slots, validAt : Slots, cum : 0..Deposit]

(***************************************************************************)
(* From<StoredOpenIntent>: a row without a floor falls back on its         *)
(* finalized observation.  The result is None for AdoptionFloor::Unproven. *)
(***************************************************************************)
AdoptionFloor(r) == IF r.floor # None THEN r.floor ELSE r.validAt

Stages == {"idle", "read", "floor", "blockhash", "reserve", "submit", "activate",
           "retire", "prove", "expire"}

TypeOK ==
    /\ slot \in 1..MaxSlot /\ final \in 1..slot
    /\ fate \in {"none", "ok", "failed"} /\ at \in Slots
    /\ settled \in 0..Deposit
    /\ durable \in BOOLEAN /\ since \in 1..slot /\ faults \in 0..MaxFaults
    /\ rec \in Records
    /\ job \in [Handlers -> [at : Stages, floor : Slots, validAt : Slots,
                             activating : BOOLEAN, settled : 0..Deposit, seen : Records]]
    /\ served \in Nat /\ behind \in BOOLEAN

(***************************************************************************)
(* The store may hold a row an older release left pending, without a floor *)
(* and with or without a finalized observation of the blockhash.           *)
(***************************************************************************)
Init ==
    /\ slot = FirstValid /\ final \in 1..slot
    /\ fate = "none" /\ at = None /\ settled = 0
    /\ durable \in BOOLEAN /\ since = slot /\ faults = 0
    /\ rec \in {NoRecord} \cup
         [state : {"pending"}, floor : {None}, validAt : {None, final}, cum : {0}]
    /\ rec.validAt # None => rec.validAt >= FirstValid
    /\ job = [h \in Handlers |-> Idle]
    /\ served = 0 /\ behind = FALSE

-----------------------------------------------------------------------------
Do(h, j) == job' = [job EXCEPT ![h] = j]

Terminal == rec.state \in {"expired", "elsewhere"}

(***************************************************************************)
(* same_open_intent                                                        *)
(***************************************************************************)
SameIntent(j) == AdoptionFloor(rec) = j.floor /\ rec.validAt = j.validAt

(***************************************************************************)
(* A request that ends with an error because of what it found, or because  *)
(* the transaction did not confirm in time; and one that an RPC or store   *)
(* error ends at any await.                                                *)
(***************************************************************************)
Refused(h) ==
    /\ LET j == job[h] IN
         \/ j.at = "read" /\ (Terminal \/ AdoptionFloor(rec) = None)
         \/ j.at = "floor" /\ slot > OpenBy
         \/ j.at = "reserve" /\ (Terminal \/ (rec.state # "none" /\ ~SameIntent(j)))
         \/ j.at = "submit" /\ fate # "ok"
         \/ j.at = "activate" /\ (Terminal \/ ~SameIntent(j))
         \/ j.at = "retire" /\ ~SameIntent(j)
         \/ j.at = "expire" /\ rec # j.seen
    /\ Do(h, Idle)
    /\ UNCHANGED <<cluster, server, rec, served>>

Fail(h) ==
    /\ job[h] # Idle /\ Do(h, Idle)
    /\ faults < MaxFaults /\ faults' = faults + 1
    /\ UNCHANGED <<cluster, durable, since, behind, rec, served>>

(***************************************************************************)
(* process_open_inner reads the record: a fresh open goes on to observe    *)
(* the cluster, another takes its intent from the record, and a pending    *)
(* one that records no floor is never adopted.                             *)
(***************************************************************************)
OpenRead(h) ==
    /\ job[h].at \in {"idle", "read"} /\ ~Terminal
    /\ \/ rec.state = "none" /\ Do(h, [Idle EXCEPT !.at = "floor"])
       \/ /\ rec.state = "pending" => AdoptionFloor(rec) # None
          /\ rec.state # "none"
          /\ Do(h, [Idle EXCEPT !.at = "reserve", !.floor = AdoptionFloor(rec),
                      !.validAt = rec.validAt, !.activating = (rec.state = "pending")])
    /\ UNCHANGED <<cluster, server, rec, served>>

(***************************************************************************)
(* validate_open_slot over current_slot: the slot a node answered, or the  *)
(* one the server cached since it started.  getSlot asks for no minimum    *)
(* context slot, so the node may be behind the server's start.             *)
(***************************************************************************)
SlotAnswers == Max({1, Max({since, slot - CacheAge}) - MaxLag})..slot

ObserveFloor(h) ==
    /\ job[h].at = "floor"
    /\ \E floor \in SlotAnswers :
         /\ floor <= OpenBy
         /\ Do(h, [job[h] EXCEPT !.at = "blockhash", !.floor = floor])
         /\ behind' = (behind \/ (fate = "ok" /\ floor < since))
    /\ UNCHANGED <<cluster, durable, since, faults, rec, served>>

(***************************************************************************)
(* Whether the finalized bank of slot f knows the blockhash: it does not   *)
(* yet before FirstValid, and no longer after LastValid.                   *)
(***************************************************************************)
ValidAt(f) == f \in FirstValid..LastValid

(***************************************************************************)
(* finalized_blockhash_validity before the first broadcast; the answer may *)
(* come from a node that lags, and an error counts as no observation.      *)
(***************************************************************************)
ObserveBlockhash(h) ==
    /\ job[h].at = "blockhash"
    /\ \E f \in {None} \cup {g \in 1..final : ValidAt(g)} :
         Do(h, [job[h] EXCEPT !.at = "reserve", !.validAt = f, !.activating = TRUE])
    /\ UNCHANGED <<cluster, server, rec, served>>

(***************************************************************************)
(* The reservation: a new row, or the same intent.                         *)
(***************************************************************************)
Reserve(h) ==
    /\ job[h].at = "reserve" /\ ~Terminal
    /\ \/ /\ rec.state = "none"
          /\ rec' = [state |-> "pending", floor |-> job[h].floor,
                     validAt |-> job[h].validAt, cum |-> 0]
       \/ rec.state # "none" /\ SameIntent(job[h]) /\ UNCHANGED rec
    /\ Do(h, [job[h] EXCEPT !.at = "submit"])
    /\ UNCHANGED <<cluster, server, served>>

(***************************************************************************)
(* submit_and_fetch_open, whether it finds the account first or confirms   *)
(* its own broadcast: the transaction has landed.  A reservation is        *)
(* adopted only if it landed after the floor; an active row's account is   *)
(* authoritative.                                                          *)
(***************************************************************************)
LandedOpen(h) ==
    /\ job[h].at = "submit" /\ fate = "ok"
    /\ IF job[h].activating /\ at <= job[h].floor
       THEN Do(h, [job[h] EXCEPT !.at = "retire"])
       ELSE Do(h, [job[h] EXCEPT !.at = "activate", !.settled = settled])
    /\ UNCHANGED <<cluster, server, rec, served>>

RetireElsewhere(h) ==
    /\ job[h].at = "retire" /\ rec.state # "none" /\ SameIntent(job[h])
    /\ rec' = [rec EXCEPT !.state = "elsewhere"] /\ Do(h, Idle)
    /\ UNCHANGED <<cluster, server, served>>

ActivateResets(h) ==
    /\ job[h].at = "activate" /\ rec.state \in {"pending", "active"} /\ SameIntent(job[h])
    /\ rec' = [rec EXCEPT !.state = "active", !.cum = job[h].settled]
    /\ Do(h, Idle)
    /\ UNCHANGED <<cluster, server, served>>

Activate(h) ==
    /\ job[h].at = "activate" /\ rec.state \in {"pending", "active"} /\ SameIntent(job[h])
    /\ rec' = [rec EXCEPT !.state = "active", !.cum = Max({@, job[h].settled})]
    /\ Do(h, Idle)
    /\ UNCHANGED <<cluster, server, served>>

-----------------------------------------------------------------------------
(***************************************************************************)
(* resume_pending_open: an intent whose blockhash was once seen valid by a *)
(* finalized bank and is invalid in a later one can no longer land; if it  *)
(* did not fund the channel either, the row is retired.  Otherwise it goes *)
(* on as process_open_inner does.                                          *)
(***************************************************************************)
ResumeUnseen(h) ==
    /\ job[h] = Idle /\ rec.state = "pending"
    /\ \E f \in 1..final : ~ValidAt(f) /\ Do(h, [Idle EXCEPT !.at = "prove", !.seen = rec])
    /\ UNCHANGED <<cluster, server, rec, served>>

ResumeExpired(h) ==
    /\ job[h] = Idle /\ rec.state = "pending" /\ rec.validAt # None
    /\ \E f \in rec.validAt + 1 .. final :
         ~ValidAt(f) /\ Do(h, [Idle EXCEPT !.at = "prove", !.seen = rec])
    /\ UNCHANGED <<cluster, server, rec, served>>

(***************************************************************************)
(* finalized_unfunded: no account in a finalized bank at or after the one  *)
(* that answered, which has every landing the blockhash allowed, and no    *)
(* signature, or one that finally failed.                                  *)
(***************************************************************************)
UnfundedNow == fate = "none" \/ (fate = "failed" /\ at <= final)

Unfunded(h) ==
    /\ job[h].at = "prove" /\ UnfundedNow
    /\ Do(h, [job[h] EXCEPT !.at = "expire"])
    /\ UNCHANGED <<cluster, server, rec, served>>

FundedEnds(h) ==
    /\ job[h].at = "prove" /\ ~UnfundedNow
    /\ Do(h, Idle)
    /\ UNCHANGED <<cluster, server, rec, served>>

Funded(h) ==
    /\ job[h].at = "prove" /\ ~UnfundedNow
    /\ Do(h, [Idle EXCEPT !.at = "read"])
    /\ UNCHANGED <<cluster, server, rec, served>>

Expire(h) ==
    /\ job[h].at = "expire" /\ rec = job[h].seen
    /\ rec' = [rec EXCEPT !.state = "expired"] /\ Do(h, Idle)
    /\ UNCHANGED <<cluster, server, served>>

-----------------------------------------------------------------------------
(***************************************************************************)
(* The rest of the server accepts a voucher on an active record.           *)
(***************************************************************************)
Serve ==
    /\ rec.state = "active" /\ rec.cum < Deposit
    /\ rec' = [rec EXCEPT !.cum = @ + 1] /\ served' = served + 1
    /\ UNCHANGED <<cluster, server, job>>

Restart ==
    /\ faults < MaxFaults /\ faults' = faults + 1
    /\ since' = slot /\ job' = [h \in Handlers |-> Idle]
    /\ rec' = IF durable THEN rec ELSE NoRecord
    /\ UNCHANGED <<cluster, durable, behind, served>>

(***************************************************************************)
(* The cluster: slots pass and become final, the transaction lands or      *)
(* fails while its blockhash is valid, and someone settles vouchers.       *)
(***************************************************************************)
Tick ==
    /\ slot < MaxSlot /\ slot' = slot + 1
    /\ UNCHANGED <<final, fate, at, settled, server, rec, job, served>>

Finalize ==
    /\ final < slot /\ final' = final + 1
    /\ UNCHANGED <<slot, fate, at, settled, server, rec, job, served>>

Land ==
    /\ fate = "none" /\ slot <= LastValid /\ slot > final
    /\ fate' \in {"ok", "failed"} /\ at' = slot
    /\ UNCHANGED <<slot, final, settled, server, rec, job, served>>

Settle ==
    /\ fate = "ok" /\ settled < Deposit /\ settled' = settled + 1
    /\ UNCHANGED <<slot, final, fate, at, server, rec, job, served>>

Step(h) ==
    \/ OpenRead(h) \/ ObserveFloor(h) \/ ObserveBlockhash(h) \/ Reserve(h)
    \/ LandedOpen(h) \/ RetireElsewhere(h) \/ Activate(h)
    \/ ResumeExpired(h) \/ Unfunded(h) \/ Funded(h) \/ Expire(h) \/ Refused(h)

Next ==
    \/ \E h \in Handlers : Step(h) \/ Fail(h)
    \/ Serve \/ Restart \/ Tick \/ Finalize \/ Land \/ Settle

Spec == Init /\ [][Next]_vars

(***************************************************************************)
(* The cluster makes progress, a request that runs goes on to its end (its *)
(* RPC calls time out), and the host keeps reconciling a pending open.     *)
(***************************************************************************)
FairSpec ==
    /\ Spec
    /\ WF_vars(Tick) /\ WF_vars(Finalize)
    /\ \A h \in Handlers : WF_vars(Step(h)) /\ SF_vars(ResumeExpired(h))

-----------------------------------------------------------------------------
(***************************************************************************)
(* The escrow is spent once: a replayed open never starts a second         *)
(* watermark against the same deposit.  Nor does a server that lost its    *)
(* records, unless the slot it then reads for an open that had landed is   *)
(* older than the server itself: nothing in current_slot rules that out,   *)
(* and such an open is adopted again.                                      *)
(***************************************************************************)
EscrowServedOnce == durable \/ ~behind => served <= Deposit

(***************************************************************************)
(* A channel is spent against only when its open landed, after the floor   *)
(* its record keeps, whichever request or release wrote that record.       *)
(***************************************************************************)
ActiveIsFunded == rec.state = "active" => fate = "ok" /\ at > AdoptionFloor(rec)

(***************************************************************************)
(* An open retired as expired never funds the channel afterwards, so no    *)
(* deposit is stranded behind a tombstone.                                 *)
(***************************************************************************)
RetiredNeverLands == rec.state = "expired" => fate # "ok"

(***************************************************************************)
(* Together: what the record says of its open is so.                       *)
(***************************************************************************)
RecordTellsFate == ActiveIsFunded /\ RetiredNeverLands

(***************************************************************************)
(* A channel in use is never retired by an open that raced its activation. *)
(***************************************************************************)
ActiveIsNeverRetired ==
    [][rec.state = "active" => rec'.state \in {"active", "none"}]_vars

(***************************************************************************)
(* A pending open whose blockhash was seen valid, or whose transaction     *)
(* landed, is in the end activated or retired, whatever crashes.           *)
(***************************************************************************)
Resolvable ==
    /\ rec.state = "pending"
    /\ rec.validAt # None \/ (fate = "ok" /\ AdoptionFloor(rec) # None)

PendingIsResolved == Resolvable ~> rec.state # "pending"

=============================================================================

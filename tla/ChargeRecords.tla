---------------------------- MODULE ChargeRecords ----------------------------
(***************************************************************************)
(* The durable charge records of core/store.rs: what ChargeReplayStore     *)
(* keeps for one challenge id, and the pure part of its operations.        *)
(*                                                                         *)
(* A record is a chain of generations, each under a key of its own, and a  *)
(* generation is only ever written with put_if_absent.  Every operation    *)
(* reads the latest generation (tip), decides, and appends the next one.   *)
(* The read and the append are separate store calls, so ChargeSettlement   *)
(* makes them separate steps; this module says what each of them computes. *)
(***************************************************************************)
EXTENDS Integers

CONSTANTS
    Credentials,      \* the payment credentials clients present
    Signatures,       \* final transaction signatures
    NoCred, NoSig,    \* "none" values outside those sets
    MaxGenerations,   \* MAX_CHARGE_RECORD_GENERATIONS
    Lease             \* CHARGE_RESERVATION_LEASE, in clock ticks

ASSUME NoneAssumption == NoCred \notin Credentials /\ NoSig \notin Signatures

ASSUME BoundAssumption == MaxGenerations \in Nat \ {0} /\ Lease \in Nat \ {0}

Generations == 0 .. MaxGenerations

(***************************************************************************)
(* ChargeRecordState, plus "absent" for a key that holds nothing.          *)
(***************************************************************************)
RecordStates == {"absent", "reserved", "pending", "confirmed", "failed"}

(***************************************************************************)
(* ChargeRecord.  The digest covers the challenge, the request and the     *)
(* credential, so it is represented by the credential itself.  `expires'   *)
(* is read for reserved records only and is 0 elsewhere; updated_at and    *)
(* failure_reason are never read back into a decision and are left out.    *)
(***************************************************************************)
Records == [state : RecordStates, digest : Credentials \cup {NoCred},
            sig : Signatures \cup {NoSig}, expires : Nat]

Absent == [state |-> "absent", digest |-> NoCred, sig |-> NoSig, expires |-> 0]

Chains == [Generations -> Records]

Present(chain, g) == chain[g].state # "absent"

(***************************************************************************)
(* A reservation written by reserve, which read the clock once, at `since'.*)
(***************************************************************************)
Fresh(k, since) ==
    [state |-> "reserved", digest |-> k, sig |-> NoSig, expires |-> since + Lease]

(***************************************************************************)
(* The record a mark_* call derives from the one it read (terminal), and   *)
(* the already expired reservation release_pending derives.                *)
(***************************************************************************)
Terminal(record, state, sig) ==
    [record EXCEPT !.state = state, !.sig = sig, !.expires = 0]

Reclaimable(record, time) ==
    [record EXCEPT !.state = "reserved", !.sig = NoSig, !.expires = time]

(***************************************************************************)
(* tip: generations are read from 0 until one is missing.  There is no tip *)
(* without a root, and the walk fails once it reaches MaxGenerations.      *)
(* Generations are never overwritten, so the whole walk takes effect at    *)
(* its last read.                                                          *)
(***************************************************************************)
IsTip(chain, g) ==
    /\ g < MaxGenerations
    /\ \A h \in 0 .. g : Present(chain, h)
    /\ ~Present(chain, g + 1)

NoTip(chain) == \A g \in Generations : ~IsTip(chain, g)

(***************************************************************************)
(* append: put_if_absent of one generation.                                *)
(***************************************************************************)
CanAppend(chain, g) == g \in Generations /\ ~Present(chain, g)

Append1(chain, g, record) == [chain EXCEPT ![g] = record]

(***************************************************************************)
(* The orphan test of reserve: a later generation without its root.        *)
(***************************************************************************)
Orphaned(chain) == Present(chain, 1) /\ ~Present(chain, 0)

(***************************************************************************)
(* The five operations that resolve a generation the caller owns, the      *)
(* records each of them accepts as owned, and the record each appends.     *)
(***************************************************************************)
Ops == {"mark_pending", "mark_confirmed", "confirm_pending",
        "release_pending", "mark_failed"}

Owned(op, record, sig) ==
    \/ op \in {"mark_pending", "mark_confirmed", "mark_failed"}
       /\ record.state = "reserved"
    \/ op \in {"mark_confirmed", "confirm_pending", "release_pending"}
       /\ record.state = "pending" /\ record.sig = sig
    \/ op = "mark_failed" /\ record.state = "pending"

Successor(op, record, sig, time) ==
    CASE op = "mark_pending"    -> Terminal(record, "pending", sig)
      [] op = "mark_failed"     -> Terminal(record, "failed", NoSig)
      [] op = "release_pending" -> Reclaimable(record, time)
      [] op \in {"mark_confirmed", "confirm_pending"}
                                -> Terminal(record, "confirmed", sig)

=============================================================================

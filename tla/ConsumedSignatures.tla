-------------------------- MODULE ConsumedSignatures --------------------------
(***************************************************************************)
(* The ledger of transaction signatures that already authorized a response *)
(* (ConsumedSignatures of core/store.rs), key by key, for one signature.   *)
(* A claim takes several legacy keys and then the ledger key, each with a  *)
(* store call of its own, while other callers claim, confirm and release   *)
(* the same signature and replicas of the previous release claim it under  *)
(* the one legacy key they know.  A caller may stop between any two calls. *)
(***************************************************************************)
EXTENDS Integers, FiniteSets

CONSTANTS
    Callers,       \* calls to claim or claim_pending, over all replicas
    NumLegacy,     \* how many legacy keys a signature has
    OldReplicas,   \* replicas still running the previous release
    OldKey,        \* the legacy key of the protocol they serve
    MaxCrashes,    \* bound on callers that stop half way
    StoreMayFail   \* store calls may return an error in some behaviours

LegacyKeys == 1..NumLegacy

ASSUME LedgerAssumption ==
    /\ NumLegacy \in Nat \ {0} /\ MaxCrashes \in Nat
    /\ OldKey \in LegacyKeys
    /\ Callers \cap OldReplicas = {}
    /\ StoreMayFail \in BOOLEAN

VARIABLES
    legacy,    \* the legacy keys present in the store
    entry,     \* the ledger key: "absent", "pending", "consumed" or "released"
    pc,        \* where each caller is
    kind,      \* the value its claim writes: "consumed" or "pending"
    hold,      \* `taken` of claim_with; the keys left to delete of a release
    refused,   \* the claim failed with Ok(false), not with an error
    crashes,   \* callers stopped so far
    served,    \* history: the callers and old replicas that served a response
    faulty     \* whether the store of this behaviour ever fails

stored == <<legacy, entry>>
vars == <<legacy, entry, pc, kind, hold, refused, crashes, served, faulty>>

Phases == {"idle", "legacy", "entry", "swap", "giveback", "peek",
           "owner", "resumed", "unlock", "done"}

TypeOK ==
    /\ legacy \subseteq LegacyKeys
    /\ entry \in {"absent", "pending", "consumed", "released"}
    /\ pc \in [Callers -> Phases]
    /\ kind \in [Callers -> {"consumed", "pending"}]
    /\ hold \in [Callers -> SUBSET LegacyKeys]
    /\ refused \in [Callers -> BOOLEAN]
    /\ crashes \in 0..MaxCrashes
    /\ served \subseteq Callers \cup OldReplicas
    /\ faulty \in BOOLEAN

Init ==
    /\ legacy = {} /\ entry = "absent"
    /\ pc = [c \in Callers |-> "idle"]
    /\ kind = [c \in Callers |-> "consumed"]
    /\ hold = [c \in Callers |-> {}]
    /\ refused = [c \in Callers |-> FALSE]
    /\ crashes = 0 /\ served = {}
    /\ faulty \in {FALSE, StoreMayFail}

-----------------------------------------------------------------------------
(***************************************************************************)
(* Keys are taken, and given back, in order.                               *)
(***************************************************************************)
FirstOf(keys, k) == k \in keys /\ \A j \in keys : k <= j

To(c, p) == pc' = [pc EXCEPT ![c] = p]

Holding(c, keys) == hold' = [hold EXCEPT ![c] = keys]

(***************************************************************************)
(* A failing store call reports an error whether or not it took effect.    *)
(***************************************************************************)
Fails(effect, none) == faulty /\ (effect \/ none)

(***************************************************************************)
(* claim_with fails: the keys this call took are given back, and a refused *)
(* claim_pending then reads the ledger key.                                *)
(***************************************************************************)
RefuseKeeps(c, answered) ==
    /\ refused' = [refused EXCEPT ![c] = answered]
    /\ To(c, IF answered /\ kind[c] = "pending" THEN "peek" ELSE "done")
    /\ UNCHANGED <<kind, hold, crashes, served>>

Refuse(c, answered) ==
    /\ refused' = [refused EXCEPT ![c] = answered]
    /\ To(c, IF hold[c] # {} THEN "giveback"
             ELSE IF answered /\ kind[c] = "pending" THEN "peek" ELSE "done")
    /\ UNCHANGED <<kind, hold, crashes, served>>

Begin(c) ==
    /\ pc[c] = "idle"
    /\ \E v \in {"consumed", "pending"} : kind' = [kind EXCEPT ![c] = v]
    /\ To(c, "legacy")
    /\ UNCHANGED <<stored, hold, refused, crashes, served>>

TakeLegacyBlind(c) ==
    /\ pc[c] = "legacy"
    /\ legacy' = LegacyKeys /\ Holding(c, LegacyKeys) /\ To(c, "entry")
    /\ UNCHANGED <<entry, kind, refused, crashes, served>>

TakeLegacy(c) ==
    /\ pc[c] = "legacy"
    /\ \E k \in LegacyKeys :
         /\ FirstOf(LegacyKeys \ hold[c], k)
         /\ \/ /\ k \notin legacy
               /\ legacy' = legacy \cup {k}
               /\ Holding(c, hold[c] \cup {k})
               /\ To(c, IF hold'[c] = LegacyKeys THEN "entry" ELSE "legacy")
               /\ UNCHANGED <<kind, refused, crashes, served>>
            \/ /\ k \in legacy
               /\ Refuse(c, TRUE)
               /\ UNCHANGED legacy
            \/ /\ Fails(legacy' = legacy \cup {k}, legacy' = legacy)
               /\ Refuse(c, FALSE)
    /\ UNCHANGED entry

Owner(c) == To(c, "owner") /\ UNCHANGED <<kind, hold, refused, crashes, served>>

PutEntry(c) ==
    /\ pc[c] = "entry"
    /\ \/ entry = "absent" /\ entry' = kind[c] /\ Owner(c)
       \/ /\ entry # "absent" /\ To(c, "swap")
          /\ UNCHANGED <<entry, kind, hold, refused, crashes, served>>
       \/ /\ Fails(entry = "absent" /\ entry' = kind[c], entry' = entry)
          /\ Refuse(c, FALSE)
    /\ UNCHANGED legacy

SwapEntry(c) ==
    /\ pc[c] = "swap"
    /\ \/ entry = "released" /\ entry' = kind[c] /\ Owner(c)
       \/ entry # "released" /\ UNCHANGED entry /\ Refuse(c, TRUE)
       \/ /\ Fails(entry = "released" /\ entry' = kind[c], entry' = entry)
          /\ Refuse(c, FALSE)
    /\ UNCHANGED legacy

(***************************************************************************)
(* give_back logs a failed delete and carries on with the next key.        *)
(***************************************************************************)
GiveBack(c) ==
    /\ pc[c] = "giveback"
    /\ \E k \in LegacyKeys :
         /\ FirstOf(hold[c], k)
         /\ legacy' = legacy \ {k} \/ (faulty /\ UNCHANGED legacy)
         /\ Holding(c, hold[c] \ {k})
    /\ To(c, IF hold'[c] # {} THEN "giveback"
             ELSE IF refused[c] /\ kind[c] = "pending" THEN "peek" ELSE "done")
    /\ UNCHANGED <<entry, kind, refused, crashes, served>>

Peek(c) ==
    /\ pc[c] = "peek"
    /\ \/ To(c, IF entry = "pending" THEN "resumed" ELSE "done")
       \/ faulty /\ To(c, "done")
    /\ UNCHANGED <<stored, kind, hold, refused, crashes, served>>

-----------------------------------------------------------------------------
(***************************************************************************)
(* What the protocols do with a claim they hold.                           *)
(***************************************************************************)
Serve(c) ==
    /\ pc[c] = "owner" /\ kind[c] = "consumed"
    /\ served' = served \cup {c}
    /\ To(c, "done")
    /\ UNCHANGED <<stored, kind, hold, refused, crashes>>

HoldsPending(c) == pc[c] = "resumed" \/ (pc[c] = "owner" /\ kind[c] = "pending")

(***************************************************************************)
(* confirm: the landing was seen; only the caller whose swap takes effect  *)
(* serves.  A first sender that finds the transaction already landed       *)
(* confirms without serving.                                               *)
(***************************************************************************)
ConfirmBlind(c) ==
    /\ HoldsPending(c)
    /\ entry' = "consumed" /\ served' = served \cup {c}
    /\ To(c, "done")
    /\ UNCHANGED <<legacy, kind, hold, refused, crashes>>

Confirm(c) ==
    /\ HoldsPending(c)
    /\ \/ /\ entry = "pending" /\ entry' = "consumed"
          /\ served' = served \cup {c}
       \/ entry # "pending" /\ UNCHANGED <<entry, served>>
       \/ /\ Fails(entry = "pending" /\ entry' = "consumed", entry' = entry)
          /\ UNCHANGED served
    /\ To(c, "done")
    /\ UNCHANGED <<legacy, kind, hold, refused, crashes>>

ConfirmUnserved(c) ==
    /\ HoldsPending(c) /\ pc[c] = "owner"
    /\ \/ entry' = (IF entry = "pending" THEN "consumed" ELSE entry)
       \/ faulty /\ UNCHANGED entry
    /\ To(c, "done")
    /\ UNCHANGED <<legacy, kind, hold, refused, crashes, served>>

(***************************************************************************)
(* An unknown outcome keeps the claim.                                     *)
(***************************************************************************)
LeavePending(c) ==
    /\ HoldsPending(c) /\ To(c, "done")
    /\ UNCHANGED <<stored, kind, hold, refused, crashes, served>>

(***************************************************************************)
(* release_holding: swap the ledger key if it still holds what this caller *)
(* claimed, then delete the legacy keys; an error ends the call.           *)
(***************************************************************************)
ReleaseUnconditional(c) ==
    /\ pc[c] \in {"owner", "resumed"}
    /\ entry' = "released" /\ Holding(c, LegacyKeys) /\ To(c, "unlock")
    /\ UNCHANGED <<legacy, kind, refused, crashes, served>>

Release(c) ==
    /\ pc[c] \in {"owner", "resumed"}
    /\ \/ /\ entry = kind[c] /\ entry' = "released"
          /\ Holding(c, LegacyKeys) /\ To(c, "unlock")
       \/ entry # kind[c] /\ To(c, "done") /\ UNCHANGED <<entry, hold>>
       \/ /\ Fails(entry = kind[c] /\ entry' = "released", entry' = entry)
          /\ To(c, "done") /\ UNCHANGED hold
    /\ UNCHANGED <<legacy, kind, refused, crashes, served>>

Unlock(c) ==
    /\ pc[c] = "unlock"
    /\ \E k \in LegacyKeys :
         /\ FirstOf(hold[c], k)
         /\ \/ /\ legacy' = legacy \ {k}
               /\ Holding(c, hold[c] \ {k})
               /\ To(c, IF hold'[c] = {} THEN "done" ELSE "unlock")
            \/ /\ Fails(legacy' = legacy \ {k}, legacy' = legacy)
               /\ To(c, "done") /\ UNCHANGED hold
    /\ UNCHANGED <<entry, kind, refused, crashes, served>>

(***************************************************************************)
(* A caller stops between two store calls.                                 *)
(***************************************************************************)
Crash(c) ==
    /\ crashes < MaxCrashes /\ pc[c] \notin {"idle", "done"}
    /\ crashes' = crashes + 1
    /\ To(c, "done")
    /\ UNCHANGED <<stored, kind, hold, refused, served>>

(***************************************************************************)
(* A replica of the previous release claims its one legacy key and serves. *)
(***************************************************************************)
OldClaim(o) ==
    /\ OldKey \notin legacy
    /\ legacy' = legacy \cup {OldKey}
    /\ served' = served \cup {o}
    /\ UNCHANGED <<entry, pc, kind, hold, refused, crashes>>

Caller(c) ==
    \/ Begin(c) \/ TakeLegacy(c) \/ PutEntry(c) \/ SwapEntry(c)
    \/ GiveBack(c) \/ Peek(c) \/ Serve(c) \/ Confirm(c) \/ ConfirmUnserved(c)
    \/ LeavePending(c) \/ Release(c) \/ Unlock(c)

Next ==
    /\ \/ \E c \in Callers : Caller(c) \/ Crash(c)
       \/ \E o \in OldReplicas : OldClaim(o)
    /\ UNCHANGED faulty

Spec == Init /\ [][Next]_vars

-----------------------------------------------------------------------------
(***************************************************************************)
(* One payment authorizes one response, whichever protocol, replica and    *)
(* release presents it, although a claim is several store calls.  With a   *)
(* failing store the previous release is left out of account: a claim that *)
(* took effect and was reported as an error gives its legacy keys back, so *)
(* the ledger key alone protects the signature, and that release does not  *)
(* know it.                                                                *)
(***************************************************************************)
Accountable == IF faulty THEN served \cap Callers ELSE served

OneServed == \A p, q \in Accountable : p = q

Claimed == entry \in {"pending", "consumed"}

(***************************************************************************)
(* While the ledger key is claimed every legacy key is taken, so a replica *)
(* of the previous release sees the claim; no other caller's give_back or  *)
(* release removes a key from under it.                                    *)
(***************************************************************************)
ClaimIsVisible == ~faulty /\ Claimed => legacy = LegacyKeys

(***************************************************************************)
(* claim_with and release leave nothing behind: once every call has        *)
(* returned, none of them cut short, a signature that is not claimed has   *)
(* no legacy key that would refuse the payer's next presentation.          *)
(***************************************************************************)
NothingLeftBehind ==
    (/\ \A c \in Callers : pc[c] \in {"idle", "done"}
     /\ crashes = 0 /\ ~faulty /\ served = {} /\ ~Claimed)
      => legacy = {}

-----------------------------------------------------------------------------
(***************************************************************************)
(* The inductive invariant.  The keys a caller works on are its own, a     *)
(* claimed ledger key leaves none to anyone, a caller that has claimed     *)
(* "consumed" is the only one who may serve, and a signature that served a *)
(* response stays claimed.  The parts about the ledger key alone hold with *)
(* a failing store too.                                                    *)
(***************************************************************************)
Working == {"legacy", "entry", "swap", "giveback", "unlock"}

KeysAreOwn ==
    \A c \in Callers : ~faulty /\ pc[c] \in Working =>
        /\ hold[c] \subseteq legacy
        /\ Claimed => hold[c] = {}
        /\ \A d \in Callers \ {c} : pc[d] \in Working => hold[c] \cap hold[d] = {}

Phased ==
    \A c \in Callers :
        /\ pc[c] = "idle" => hold[c] = {}
        /\ pc[c] \in {"entry", "swap"} => hold[c] = LegacyKeys
        /\ pc[c] \in {"peek", "resumed"} => kind[c] = "pending"

MayServe(c) == pc[c] = "owner" /\ kind[c] = "consumed"

SoleOwner ==
    \A c \in Callers : MayServe(c) =>
        /\ entry = "consumed" /\ served \cap Callers = {}
        /\ \A d \in Callers : MayServe(d) => d = c

ServedIsClaimed == served \cap Callers # {} => entry = "consumed"

OldIsSeen ==
    ~faulty /\ served \cap OldReplicas # {} =>
        /\ OldKey \in legacy /\ ~Claimed
        /\ \A c \in Callers : pc[c] \in Working => OldKey \notin hold[c]

(***************************************************************************)
(* The invariant of the ledger, with the order of the calls in claim_with  *)
(* and release_holding behind every part.                                  *)
(***************************************************************************)
LedgerInv ==
    /\ TypeOK /\ ClaimIsVisible /\ KeysAreOwn /\ Phased
    /\ SoleOwner /\ ServedIsClaimed /\ OldIsSeen /\ OneServed

Claims == INSTANCE SignatureClaims WITH
    Parties <- Callers \cup OldReplicas,
    claim   <- IF faulty THEN "free"
               ELSE IF served # {} THEN "spent"
               ELSE IF Claimed THEN "held" ELSE "free",
    winner  <- IF faulty THEN {} ELSE served

(***************************************************************************)
(* The key-by-key ledger behaves as one whose claims, releases and swaps   *)
(* are atomic, as long as its store does not fail.                         *)
(***************************************************************************)
ImplementsClaims == Claims!Spec

=============================================================================

----------------------------- MODULE ClaimsProofs -----------------------------
(***************************************************************************)
(* The two places that claim a signature key by key.  The ledger of        *)
(* consumed signatures, for any number of callers, legacy keys and         *)
(* replicas of the previous release, with a store that fails or not; and   *)
(* the activations of a subscription, for any number of requests,          *)
(* activations and challenges, any store a previous release left behind    *)
(* and any number of failures.                                             *)
(***************************************************************************)
EXTENDS ConsumedSignatures, SubscriptionActivation, TLAPS

(***************************************************************************)
(* The invariant holds for a signature nobody presented yet.               *)
(***************************************************************************)
LEMMA LedgerInit == Init => LedgerInv
<1> SUFFICES ASSUME Init PROVE LedgerInv
  OBVIOUS
<1>1. faulty \in BOOLEAN
  BY LedgerAssumption, Zenon DEF Init
<1>2. QED
  BY <1>1, LedgerAssumption DEF Init, LedgerInv, TypeOK, Phases, ClaimIsVisible,
     KeysAreOwn, Phased, SoleOwner, MayServe, ServedIsClaimed, OldIsSeen,
     OneServed, Accountable, Working, Claimed

(***************************************************************************)
(* Every store call and local step of a caller keeps the invariant.        *)
(* TakeLegacy and SwapEntry are the two that can put a caller beside       *)
(* another one: a taken key was in nobody's hands, and a swap needs all of *)
(* them.  A store call that fails leaves the ledger key as it was or sets  *)
(* it to what its caller, who then serves nothing, would have written.     *)
(***************************************************************************)
LEMMA CallerStep ==
  ASSUME LedgerInv, NEW c \in Callers, Caller(c) \/ Crash(c), UNCHANGED faulty
  PROVE  LedgerInv'
<1> USE LedgerAssumption DEF LedgerInv, TypeOK, Phases, ClaimIsVisible,
    KeysAreOwn, Phased, SoleOwner, MayServe, ServedIsClaimed, OldIsSeen, OneServed,
    Accountable, Working, Claimed, To, Holding, FirstOf, Fails, stored
<1>1. CASE Begin(c)
  BY <1>1 DEF Begin
<1>2. CASE TakeLegacy(c)
  <2>1. TypeOK'
    <3>1. PICK k \in LegacyKeys :
            /\ legacy' \in {legacy, legacy \cup {k}}
            /\ hold' \in {hold, [hold EXCEPT ![c] = hold[c] \cup {k}]}
      BY <1>2 DEF TakeLegacy, Refuse
    <3>2. legacy' \subseteq LegacyKeys /\ hold' \in [Callers -> SUBSET LegacyKeys]
      BY <3>1
    <3>3. \E p \in Phases : pc' = [pc EXCEPT ![c] = p]
      BY <1>2 DEF TakeLegacy, Refuse
    <3>4. /\ refused' = refused \/ \E b \in BOOLEAN : refused' = [refused EXCEPT ![c] = b]
          /\ UNCHANGED <<entry, kind, crashes, served>>
      BY <1>2 DEF TakeLegacy, Refuse
    <3>5. QED
      BY <3>2, <3>3, <3>4
  <2>2. ClaimIsVisible'
    BY <1>2 DEF TakeLegacy, Refuse
  <2>3. KeysAreOwn'
    BY <1>2 DEF TakeLegacy, Refuse
  <2>4. Phased'
    BY <1>2 DEF TakeLegacy, Refuse
  <2>5. SoleOwner'
    BY <1>2 DEF TakeLegacy, Refuse
  <2>6. ServedIsClaimed'
    BY <1>2 DEF TakeLegacy, Refuse
  <2>7. OldIsSeen'
    BY <1>2 DEF TakeLegacy, Refuse
  <2>8. OneServed'
    BY <1>2 DEF TakeLegacy, Refuse
  <2>9. QED
    BY <2>1, <2>2, <2>3, <2>4, <2>5, <2>6, <2>7, <2>8
<1>3. CASE PutEntry(c)
  <2>1. TypeOK'
    <3>1. entry' \in {entry, kind[c]} /\ UNCHANGED <<legacy, kind, hold, crashes, served>>
      BY <1>3 DEF PutEntry, Owner, Refuse
    <3>2. \E p \in Phases : pc' = [pc EXCEPT ![c] = p]
      BY <1>3 DEF PutEntry, Owner, Refuse
    <3>3. refused' = refused \/ \E b \in BOOLEAN : refused' = [refused EXCEPT ![c] = b]
      BY <1>3 DEF PutEntry, Owner, Refuse
    <3>4. QED
      BY <3>1, <3>2, <3>3
  <2>2. ClaimIsVisible'
    BY <1>3 DEF PutEntry, Owner, Refuse
  <2>3. KeysAreOwn'
    BY <1>3 DEF PutEntry, Owner, Refuse
  <2>4. Phased'
    BY <1>3 DEF PutEntry, Owner, Refuse
  <2>5. SoleOwner'
    BY <1>3 DEF PutEntry, Owner, Refuse
  <2>6. ServedIsClaimed'
    BY <1>3 DEF PutEntry, Owner, Refuse
  <2>7. OldIsSeen'
    BY <1>3 DEF PutEntry, Owner, Refuse
  <2>8. OneServed'
    BY <1>3 DEF PutEntry, Owner, Refuse
  <2>9. QED
    BY <2>1, <2>2, <2>3, <2>4, <2>5, <2>6, <2>7, <2>8
<1>4. CASE SwapEntry(c)
  <2>1. TypeOK'
    <3>1. entry' \in {entry, kind[c]} /\ UNCHANGED <<legacy, kind, hold, crashes, served>>
      BY <1>4 DEF SwapEntry, Owner, Refuse
    <3>2. \E p \in Phases : pc' = [pc EXCEPT ![c] = p]
      BY <1>4 DEF SwapEntry, Owner, Refuse
    <3>3. refused' = refused \/ \E b \in BOOLEAN : refused' = [refused EXCEPT ![c] = b]
      BY <1>4 DEF SwapEntry, Owner, Refuse
    <3>4. QED
      BY <3>1, <3>2, <3>3
  <2>2. ClaimIsVisible'
    BY <1>4 DEF SwapEntry, Owner, Refuse
  <2>3. KeysAreOwn'
    BY <1>4 DEF SwapEntry, Owner, Refuse
  <2>4. Phased'
    BY <1>4 DEF SwapEntry, Owner, Refuse
  <2>5. SoleOwner'
    BY <1>4 DEF SwapEntry, Owner, Refuse
  <2>6. ServedIsClaimed'
    BY <1>4 DEF SwapEntry, Owner, Refuse
  <2>7. OldIsSeen'
    BY <1>4 DEF SwapEntry, Owner, Refuse
  <2>8. OneServed'
    BY <1>4 DEF SwapEntry, Owner, Refuse
  <2>9. QED
    BY <2>1, <2>2, <2>3, <2>4, <2>5, <2>6, <2>7, <2>8
<1>5. CASE GiveBack(c)
  BY <1>5 DEF GiveBack
<1>6. CASE Peek(c)
  BY <1>6 DEF Peek
<1>7. CASE Serve(c)
  BY <1>7 DEF Serve
<1>8. CASE Confirm(c)
  BY <1>8 DEF Confirm, HoldsPending
<1>9. CASE ConfirmUnserved(c)
  BY <1>9 DEF ConfirmUnserved, HoldsPending
<1>10. CASE LeavePending(c)
  BY <1>10 DEF LeavePending, HoldsPending
<1>11. CASE Release(c)
  BY <1>11 DEF Release
<1>12. CASE Unlock(c)
  BY <1>12 DEF Unlock
<1>13. CASE Crash(c)
  BY <1>13 DEF Crash
<1>14. QED
  BY <1>1, <1>2, <1>3, <1>4, <1>5, <1>6, <1>7, <1>8, <1>9, <1>10, <1>11, <1>12, <1>13 DEF Caller

(***************************************************************************)
(* A replica of the previous release finds its key free only while the     *)
(* signature is unclaimed and unserved, unless the store fails, when it is *)
(* not accounted for.                                                      *)
(***************************************************************************)
LEMMA OldStep ==
  ASSUME LedgerInv, NEW o \in OldReplicas, OldClaim(o), UNCHANGED faulty
  PROVE  LedgerInv'
<1> USE LedgerAssumption DEF LedgerInv, TypeOK, ClaimIsVisible, KeysAreOwn,
    Phased, SoleOwner, MayServe, ServedIsClaimed, OldIsSeen, OneServed,
    Accountable, Working, Claimed, OldClaim
<1>1. ~faulty => ~Claimed /\ served = {}
  OBVIOUS
<1>2. served' \cap Callers = served \cap Callers
  OBVIOUS
<1>3. /\ TypeOK' /\ ClaimIsVisible' /\ KeysAreOwn' /\ Phased' /\ SoleOwner'
  BY <1>1, <1>2
<1>4. ServedIsClaimed' /\ OldIsSeen' /\ OneServed'
  BY <1>1, <1>2
<1>5. QED
  BY <1>3, <1>4

(***************************************************************************)
(* The invariant is inductive, whether the store fails or not.             *)
(***************************************************************************)
THEOREM LedgerInvariant == Spec => []LedgerInv
<1>1. LedgerInv /\ [Next]_vars => LedgerInv'
  <2>1. ASSUME LedgerInv, Next PROVE LedgerInv'
    BY <2>1, CallerStep, OldStep DEF Next
  <2>2. ASSUME LedgerInv, UNCHANGED vars PROVE LedgerInv'
    BY <2>2 DEF vars, LedgerInv, TypeOK, ClaimIsVisible, KeysAreOwn, Phased,
       SoleOwner, MayServe, ServedIsClaimed, OldIsSeen, OneServed, Accountable, Claimed
  <2>3. QED
    BY <2>1, <2>2
<1>2. QED
  BY LedgerInit, <1>1, PTL DEF Spec

(***************************************************************************)
(* One payment authorizes one response over both protocols and both        *)
(* releases, although claim_with makes one store call per key; and over    *)
(* both protocols when those calls fail, whether or not they took effect.  *)
(***************************************************************************)
THEOREM LedgerServesOnce == Spec => []OneServed
<1>1. LedgerInv => OneServed
  BY DEF LedgerInv
<1>2. QED
  BY <1>1, LedgerInvariant, PTL

(***************************************************************************)
(* While a signature is claimed every legacy key is taken, so the previous *)
(* release sees it.                                                        *)
(***************************************************************************)
THEOREM LedgerClaimIsVisible == Spec => []ClaimIsVisible
<1>1. LedgerInv => ClaimIsVisible
  BY DEF LedgerInv
<1>2. QED
  BY <1>1, LedgerInvariant, PTL

(***************************************************************************)
(* Every legacy key in the store of a signature nobody claims is in the    *)
(* hands of a call still under way, which will delete it or claim with it. *)
(***************************************************************************)
KeysHaveHolders ==
    (~faulty /\ crashes = 0 /\ served \cap OldReplicas = {} /\ ~Claimed)
      => \A k \in legacy : \E c \in Callers : pc[c] \in Working /\ k \in hold[c]

(***************************************************************************)
(* No step of a call leaves a key without a holder: a refused claim_with   *)
(* goes on to give back what it took, a release that swapped the ledger    *)
(* key holds every legacy key until it has deleted it.                     *)
(***************************************************************************)
LEMMA HoldersStep ==
  ASSUME LedgerInv, KeysHaveHolders, Next
  PROVE  KeysHaveHolders'
<1> SUFFICES ASSUME ~faulty, crashes' = 0, served' \cap OldReplicas = {}, ~Claimed',
                    NEW k \in legacy'
             PROVE  \E c \in Callers : pc'[c] \in Working /\ k \in hold'[c]
  BY DEF KeysHaveHolders, Next
<1> USE LedgerAssumption DEF LedgerInv, TypeOK, Working, Claimed, To, Holding,
    FirstOf, Fails, stored
<1>1. PICK c \in Callers : Caller(c)
  BY DEF Next, Crash, OldClaim
<1>2. CASE ~Claimed
  <2>1. crashes = 0 /\ served \cap OldReplicas = {}
    BY <1>1 DEF Caller, Begin, TakeLegacy, PutEntry, SwapEntry, GiveBack, Peek, Serve, Confirm,
       ConfirmUnserved, LeavePending, Release, Unlock, Refuse, Owner
  <2>2. ASSUME k \in legacy
        PROVE  \E d \in Callers : pc[d] \in Working /\ k \in hold[d]
    BY <1>2, <2>1, <2>2 DEF KeysHaveHolders
  <2>3. CASE Begin(c)
    BY <2>2, <2>3 DEF Begin, Phased
  <2>4. CASE TakeLegacy(c)
    BY <2>2, <2>4 DEF TakeLegacy, Refuse
  <2>5. CASE PutEntry(c) \/ SwapEntry(c)
    BY <2>2, <2>5, <1>2 DEF PutEntry, SwapEntry, Owner, Refuse
  <2>6. CASE GiveBack(c)
    BY <2>2, <2>6 DEF GiveBack, KeysAreOwn
  <2>7. CASE Unlock(c)
    BY <2>2, <2>7 DEF Unlock, KeysAreOwn
  <2>8. CASE Release(c)
    BY <2>2, <2>8, <1>2 DEF Release
  <2>9. CASE Peek(c) \/ Serve(c) \/ Confirm(c) \/ ConfirmUnserved(c) \/ LeavePending(c)
    BY <2>2, <2>9 DEF Peek, Serve, Confirm, ConfirmUnserved, LeavePending, HoldsPending
  <2>10. QED
    BY <1>1, <2>3, <2>4, <2>5, <2>6, <2>7, <2>8, <2>9 DEF Caller
<1>3. CASE Claimed
  <2>1. Release(c) /\ hold'[c] = LegacyKeys /\ pc'[c] = "unlock" /\ legacy' \subseteq LegacyKeys
    BY <1>1, <1>3 DEF Caller, Begin, TakeLegacy, PutEntry, SwapEntry, GiveBack, Peek, Serve,
       Confirm, ConfirmUnserved, LeavePending, Release, Unlock, Refuse, Owner
  <2>2. QED
    BY <2>1
<1>4. QED
  BY <1>2, <1>3

(***************************************************************************)
(* Once every call has returned, none cut short, an unclaimed signature    *)
(* has no legacy key left that would refuse the payer's next presentation. *)
(***************************************************************************)
THEOREM LedgerLeavesNothing == Spec => []NothingLeftBehind
<1>1. Init => KeysHaveHolders
  BY DEF Init, KeysHaveHolders
<1>2. LedgerInv /\ KeysHaveHolders /\ [Next]_vars => KeysHaveHolders'
  <2>1. ASSUME KeysHaveHolders, UNCHANGED vars PROVE KeysHaveHolders'
    BY <2>1 DEF vars, KeysHaveHolders, Claimed
  <2>2. QED
    BY <2>1, HoldersStep
<1>3. KeysHaveHolders => NothingLeftBehind
  BY DEF KeysHaveHolders, NothingLeftBehind, Working
<1>4. QED
  BY <1>1, <1>2, <1>3, LedgerInvariant, PTL DEF Spec

(***************************************************************************)
(* The key-by-key ledger implements the one with atomic claims: of a       *)
(* caller's calls only the ledger key's put or swap, the confirmation, the *)
(* release and the response are visible steps.                             *)
(***************************************************************************)
THEOREM LedgerImplementsClaims == Spec => ImplementsClaims
<1>1. Init => Claims!Init
  BY DEF Init, Claims!Init, Claimed
<1>2. LedgerInv /\ [Next]_vars => [Claims!Next]_(Claims!vars)
  <2> SUFFICES ASSUME LedgerInv, [Next]_vars
               PROVE  [Claims!Next]_(Claims!vars)
    OBVIOUS
  <2> USE DEF Claims!Next, Claims!vars, Claims!Take, Claims!Release, Claims!Spend, Claimed
  <2>0. CASE faulty
    BY <2>0 DEF Next, vars
  <2> SUFFICES ASSUME ~faulty
               PROVE  [Claims!Next]_(Claims!vars)
    BY <2>0
  <2>1. ASSUME NEW c \in Callers, Caller(c) \/ Crash(c), UNCHANGED faulty
        PROVE  [Claims!Next]_(Claims!vars)
    <3> USE <2>1, LedgerAssumption DEF LedgerInv, TypeOK, Phased, SoleOwner, MayServe,
          ServedIsClaimed, OldIsSeen, Fails, KeysAreOwn, Working, To
    <3>1. CASE PutEntry(c) \/ SwapEntry(c)
      BY <3>1 DEF PutEntry, SwapEntry, Owner, Refuse
    <3>2. CASE Serve(c)
      BY <3>2 DEF Serve, stored
    <3>3. CASE Confirm(c) \/ ConfirmUnserved(c)
      BY <3>3 DEF Confirm, ConfirmUnserved, HoldsPending
    <3>4. CASE Release(c)
      BY <3>4 DEF Release
    <3>5. CASE UNCHANGED <<entry, served>>
      BY <3>5
    <3>6. QED
      BY <3>1, <3>2, <3>3, <3>4, <3>5 DEF Caller, Crash, Begin, TakeLegacy, Refuse,
         GiveBack, Peek, LeavePending, Unlock, stored
  <2>2. ASSUME NEW o \in OldReplicas, OldClaim(o), UNCHANGED faulty
        PROVE  [Claims!Next]_(Claims!vars)
    <3>1. ~Claimed /\ served = {}
      BY <2>2, LedgerAssumption DEF OldClaim, LedgerInv, TypeOK, ClaimIsVisible, ServedIsClaimed,
         OldIsSeen
    <3>2. QED
      BY <2>2, <3>1 DEF OldClaim
  <2>3. CASE UNCHANGED vars
    BY <2>3 DEF vars
  <2>4. QED
    BY <2>1, <2>2, <2>3 DEF Next
<1>3. QED
  BY <1>1, <1>2, LedgerInvariant, PTL DEF Spec, ImplementsClaims, Claims!Spec

-----------------------------------------------------------------------------
(***************************************************************************)
(* What is true of the binding, and of one a request has read, however     *)
(* long ago: its activation landed, the receipts given for that activation *)
(* are for its challenge, and it is the record of the activation or one    *)
(* that already gave a receipt.                                            *)
(***************************************************************************)
Known(b) == status[b.act] = "landed" /\ b.slot \in {0, landedAt[b.act]}

Agrees(b) == \A c \in proven[b.act] : c = b.ch

Sourced(b) == record[b.act] = b \/ b.ch \in proven[b.act]

Held(b) == b # NoBinding => Known(b) /\ Agrees(b) /\ Sourced(b)

(***************************************************************************)
(* A request never has read a binding ahead of the one in the store, and   *)
(* while that is one of a previous release nobody has read another.        *)
(***************************************************************************)
Behind(b) ==
    b # NoBinding =>
        binding # NoBinding /\ landedAt[b.act] <= landedAt[binding.act]

Unrecorded == binding # NoBinding /\ record[binding.act] = NoBinding

Loaded(w) == w.at \in {"claim", "publish", "answer", "access"}

WorkInv(w) ==
    /\ w.at \in {"fetch", "current", "claim", "publish", "answer"}
         => status[w.act] = "landed"
    /\ w.at = "reserved" /\ w.exists => status[w.act] = "landed"
    /\ w.at # "idle" => w.ch \in SubChallenges
    /\ Loaded(w) => Held(w.cur) /\ Behind(w.cur)
    /\ Loaded(w) /\ Unrecorded => w.cur = binding
    /\ w.at = "access" => w.cur # NoBinding /\ w.ch = w.cur.ch
    /\ w.at \in {"publish", "answer"} => w.bound # NoBinding /\ w.bound = record[w.act]
    /\ w.at = "answer" => Agrees(w.bound)

LandedInv == \A a \in Activations : status[a] = "landed" <=> landedAt[a] > 0

RecordInv ==
    \A a \in Activations :
        record[a] # NoBinding => record[a].act = a /\ Known(record[a])

BindingInv ==
    /\ Held(binding)
    /\ binding # NoBinding /\ record[binding.act] # NoBinding
         => record[binding.act] = binding

(***************************************************************************)
(* A receipt is for the challenge the record or the binding names, or its  *)
(* activation has been superseded.                                         *)
(***************************************************************************)
ProvenInv ==
    \A a \in Activations : \A c \in proven[a] :
        \/ record[a] # NoBinding /\ record[a].ch = c
        \/ binding # NoBinding /\ binding.act = a /\ binding.ch = c
        \/ binding # NoBinding /\ landedAt[binding.act] > landedAt[a]

SubInv ==
    /\ SubTypeOK /\ LandedInv /\ RecordInv /\ BindingInv /\ ProvenInv /\ BoundOnce
    /\ \A r \in Presenters : WorkInv(work[r])

(***************************************************************************)
(* A request that has ended has read nothing.                              *)
(***************************************************************************)
LEMMA IdleWork == Idle \in Works /\ WorkInv(Idle)
  BY SubscriptionAssumption DEF Idle, Works, Steps, WorkInv, Loaded

LEMMA SubInitially == SubInit => SubInv
<1> SUFFICES ASSUME SubInit PROVE SubInv
  OBVIOUS
<1> USE SubscriptionAssumption DEF SubInit
<1>1. SubTypeOK
  BY IdleWork DEF SubTypeOK, Bindings
<1>2. LandedInv /\ BoundOnce
  BY <1>1 DEF LandedInv, BoundOnce, SubTypeOK
<1>3. binding # NoBinding => binding \in Bindings
  BY <1>1 DEF SubTypeOK
<1>4. RecordInv
  BY <1>2, <1>3 DEF RecordInv, Known, LandedInv, Bindings
<1>5. BindingInv
  BY <1>1, <1>2, <1>3 DEF BindingInv, Held, Known, Agrees, Sourced, LandedInv, Bindings,
     SubTypeOK
<1>6. ProvenInv
  BY <1>1, <1>3 DEF ProvenInv, Bindings, SubTypeOK
<1>7. QED
  BY <1>1, <1>2, <1>4, <1>5, <1>6, IdleWork DEF SubInv

(***************************************************************************)
(* Steps that leave the records, the binding and the receipts alone and    *)
(* let no activation un-land.                                              *)
(***************************************************************************)
LEMMA Moves ==
  ASSUME SubInv, SubTypeOK', LandedInv', UNCHANGED <<record, binding, proven>>,
         \A a \in Activations :
            status[a] = "landed" => status'[a] = "landed" /\ landedAt'[a] = landedAt[a],
         \A r \in Presenters : work'[r] = work[r] \/ WorkInv(work[r])'
  PROVE  SubInv'
<1> USE DEF SubInv
<1>1. ASSUME NEW b \in Bindings, Known(b)
      PROVE  Known(b)' /\ landedAt'[b.act] = landedAt[b.act]
  BY <1>1 DEF Known, Bindings
<1>2. binding # NoBinding => binding \in Bindings /\ Known(binding)
  BY DEF SubTypeOK, BindingInv, Held
<1>3. RecordInv'
  BY <1>1 DEF RecordInv, SubTypeOK
<1>4. BindingInv' /\ BoundOnce'
  BY <1>1, <1>2 DEF BindingInv, BoundOnce, Held, Agrees, Sourced
<1>5. ProvenInv'
  <2> SUFFICES ASSUME NEW a \in Activations, NEW c \in proven[a],
                      binding # NoBinding, landedAt[binding.act] > landedAt[a]
               PROVE  landedAt'[binding.act] > landedAt'[a]
    BY DEF ProvenInv
  <2>1. status[a] = "landed"
    BY DEF BoundOnce
  <2>2. QED
    BY <1>1, <1>2, <2>1
<1>6. ASSUME NEW r \in Presenters PROVE WorkInv(work[r])'
  <2> DEFINE w == work[r]
  <2>1. SUFFICES ASSUME work'[r] = w PROVE WorkInv(w)'
    OBVIOUS
  <2>2. w \in Works /\ WorkInv(w)
    BY DEF SubTypeOK
  <2>3. Held(w.cur) => Held(w.cur)'
    BY <1>1, <2>1, <2>2 DEF Held, Agrees, Sourced, Works
  <2>4. Held(w.cur) /\ Behind(w.cur) => Behind(w.cur)'
    BY <1>1, <1>2, <2>1, <2>2 DEF Held, Behind, Works
  <2>5. QED
    BY <2>1, <2>2, <2>3, <2>4 DEF WorkInv, Loaded, Unrecorded, Agrees, Works
<1>7. QED
  BY <1>3, <1>4, <1>5, <1>6

(***************************************************************************)
(* A step of one request that touches the store no more than by reserving  *)
(* a signature, or giving a reservation up.                                *)
(***************************************************************************)
LEMMA RequestMoves ==
  ASSUME SubInv, NEW r \in Presenters, NEW w \in Works, Does(r, w), WorkInv(w),
         UNCHANGED <<cluster, record, binding, proven>>,
         reserved' \in [Activations -> SubChallenges \cup {NoChallenge}],
         mishaps' \in 0 .. MaxMishaps
  PROVE  SubInv'
<1>1. SubTypeOK' /\ LandedInv'
  BY DEF SubInv, SubTypeOK, LandedInv, Does, cluster
<1>2. WorkInv(w)'
  BY DEF WorkInv, Loaded, Held, Known, Agrees, Sourced, Behind, Unrecorded, cluster
<1>3. \A q \in Presenters : work'[q] = work[q] \/ work'[q] = w
  BY DEF SubInv, SubTypeOK, Does
<1>4. \A q \in Presenters : work'[q] = work[q] \/ WorkInv(work[q])'
  BY <1>2, <1>3 DEF WorkInv, Loaded, Held, Known, Agrees, Sourced, Behind, Unrecorded
<1>5. QED
  BY <1>1, <1>4, Moves DEF cluster

(***************************************************************************)
(* A request that ends.                                                    *)
(***************************************************************************)
LEMMA RequestEnds ==
  ASSUME SubInv, NEW r \in Presenters, Does(r, Idle),
         UNCHANGED <<cluster, record, binding, proven>>,
         reserved' \in [Activations -> SubChallenges \cup {NoChallenge}],
         mishaps' \in 0 .. MaxMishaps
  PROVE  SubInv'
  BY IdleWork, RequestMoves

LEMMA MishapCounts ==
  ASSUME SubTypeOK, Mishap \/ UNCHANGED mishaps
  PROVE  mishaps' \in 0 .. MaxMishaps
  BY SubscriptionAssumption DEF SubTypeOK, Mishap

(***************************************************************************)
(* Up to the binding: present, reserve, send and wait.                     *)
(***************************************************************************)
LEMMA PresentKeeps ==
  ASSUME SubInv, NEW r \in Presenters, NEW a \in Activations, NEW c \in SubChallenges,
         PresentActivation(r, a, c)
  PROVE  SubInv'
<1>1. PICK e \in BOOLEAN :
        Does(r, [Idle EXCEPT !.at = "reserve", !.act = a, !.ch = c, !.exists = e])
  BY DEF PresentActivation
<1> DEFINE w == [Idle EXCEPT !.at = "reserve", !.act = a, !.ch = c, !.exists = e]
<1>2. w \in Works /\ WorkInv(w)
  BY IdleWork DEF Works, Steps, WorkInv, Loaded
<1>3. mishaps' \in 0 .. MaxMishaps
  BY MishapCounts DEF PresentActivation, SubInv
<1> HIDE DEF w
<1>4. QED
  BY <1>1, <1>2, <1>3, RequestMoves DEF w, PresentActivation, store, SubInv, SubTypeOK

LEMMA OnwardKeeps ==
  ASSUME SubInv, NEW r \in Presenters, Onward(r),
         work[r].at \in {"reserve", "reserved"},
         work[r].exists => status[work[r].act] = "landed",
         UNCHANGED <<cluster, record, binding, proven, mishaps>>,
         reserved' \in [Activations -> SubChallenges \cup {NoChallenge}]
  PROVE  SubInv'
<1> DEFINE w == [work[r] EXCEPT !.at = IF work[r].exists THEN "fetch" ELSE "send"]
<1>1. work[r] \in Works /\ WorkInv(work[r])
  BY DEF SubInv, SubTypeOK
<1>2. w \in Works /\ WorkInv(w)
  BY <1>1 DEF Works, Steps, WorkInv, Loaded
<1>3. Does(r, w)
  BY DEF Onward, Goes
<1> HIDE DEF w
<1>4. QED
  BY <1>2, <1>3, RequestMoves DEF SubInv, SubTypeOK

LEMMA ReserveKeeps ==
  ASSUME SubInv, NEW r \in Presenters, ReserveSignature(r)
  PROVE  SubInv'
<1> DEFINE a == work[r].act
<1>1. work[r] \in Works /\ WorkInv(work[r]) /\ work[r].at = "reserve"
  BY DEF SubInv, SubTypeOK, ReserveSignature
<1>2. reserved' \in [Activations -> SubChallenges \cup {NoChallenge}]
  BY <1>1 DEF SubInv, SubTypeOK, ReserveSignature, Works
<1>3. CASE Does(r, Idle)
  BY <1>2, <1>3, RequestEnds DEF ReserveSignature, SubInv, SubTypeOK
<1>4. CASE Onward(r) /\ (work[r].exists => status[a] = "landed")
  BY <1>1, <1>2, <1>4, OnwardKeeps DEF ReserveSignature
<1>5. CASE Goes(r, "reserved") /\ (work[r].exists => status[a] = "landed")
  <2> DEFINE w == [work[r] EXCEPT !.at = "reserved"]
  <2>1. w \in Works /\ WorkInv(w)
    BY <1>1, <1>5 DEF Works, Steps, WorkInv, Loaded
  <2>2. Does(r, w)
    BY <1>5 DEF Goes
  <2> HIDE DEF w
  <2>3. QED
    BY <1>2, <2>1, <2>2, RequestMoves DEF ReserveSignature, SubInv, SubTypeOK
<1>6. QED
  BY <1>3, <1>4, <1>5 DEF ReserveSignature, Landed

LEMMA ReadReservationKeeps ==
  ASSUME SubInv, NEW r \in Presenters, ReadReservation(r)
  PROVE  SubInv'
<1>1. WorkInv(work[r]) /\ work[r].at = "reserved"
  BY DEF SubInv, ReadReservation
<1>2. work[r].exists => status[work[r].act] = "landed"
  BY <1>1 DEF WorkInv
<1>3. CASE Does(r, Idle)
  BY <1>3, RequestEnds DEF ReadReservation, SubInv, SubTypeOK, store
<1>4. CASE Onward(r)
  BY <1>1, <1>2, <1>4, OnwardKeeps DEF ReadReservation, SubInv, SubTypeOK, store
<1>5. QED
  BY <1>3, <1>4 DEF ReadReservation

(***************************************************************************)
(* A step to another place of the code that has no more to show for it     *)
(* than the one it leaves.                                                 *)
(***************************************************************************)
LEMMA GoesKeeps ==
  ASSUME SubInv, NEW r \in Presenters, NEW step \in Steps, Goes(r, step),
         UNCHANGED <<cluster, store, proven>>, Mishap \/ UNCHANGED mishaps,
         work[r].at # "idle",
         \/ step = "release"
         \/ step \in {"fetch", "current"} /\ status[work[r].act] = "landed"
  PROVE  SubInv'
<1> DEFINE w == [work[r] EXCEPT !.at = step]
<1>1. work[r] \in Works /\ WorkInv(work[r])
  BY DEF SubInv, SubTypeOK
<1>2. w \in Works /\ WorkInv(w)
  BY <1>1 DEF Works, Steps, WorkInv, Loaded
<1>3. Does(r, w)
  BY DEF Goes
<1>4. mishaps' \in 0 .. MaxMishaps
  BY MishapCounts DEF SubInv
<1> HIDE DEF w
<1>5. QED
  BY <1>2, <1>3, <1>4, RequestMoves DEF SubInv, SubTypeOK, store

LEMMA HandedKeeps ==
  ASSUME SubInv, NEW r \in Presenters, work[r].at = "send", Handed(work[r].act),
         Goes(r, "poll") \/ Does(r, Idle), Mishap \/ UNCHANGED mishaps,
         UNCHANGED <<delegation, slot, landedAt, store, proven>>
  PROVE  SubInv'
<1> DEFINE w == [work[r] EXCEPT !.at = "poll"]
<1>1. work[r] \in Works /\ WorkInv(work[r])
  BY DEF SubInv, SubTypeOK
<1>2. /\ status' \in [Activations -> {"unsent", "flying", "landed", "gone"}]
      /\ \A a \in Activations : status'[a] = "landed" <=> status[a] = "landed"
  BY <1>1 DEF SubInv, SubTypeOK, Handed, Works
<1>3. w \in Works /\ Idle \in Works
  BY <1>1, IdleWork DEF Works, Steps
<1>4. Does(r, w) \/ Does(r, Idle)
  BY DEF Goes
<1>5. SubTypeOK' /\ LandedInv'
  BY <1>2, <1>3, <1>4, MishapCounts DEF SubInv, SubTypeOK, LandedInv, Does, store
<1>6. \A q \in Presenters : work'[q] = work[q] \/ work'[q] = w \/ work'[q] = Idle
  BY <1>4 DEF SubInv, SubTypeOK, Does
<1>7. /\ w.at = "poll" /\ w.ch \in SubChallenges
      /\ Idle.at = "idle"
  BY <1>1 DEF WorkInv, Works, Idle
<1>8. \A q \in Presenters : work'[q] = work[q] \/ WorkInv(work[q])'
  BY <1>6, <1>7 DEF WorkInv, Loaded
<1>9. QED
  BY <1>2, <1>5, <1>8, Moves DEF store

LEMMA BroadcastKeeps ==
  ASSUME SubInv, NEW r \in Presenters,
         BroadcastAccepted(r) \/ BroadcastRefused(r) \/ BroadcastLost(r)
  PROVE  SubInv'
<1>1. CASE BroadcastAccepted(r) \/ BroadcastLost(r)
  BY <1>1, HandedKeeps DEF BroadcastAccepted, BroadcastLost
<1>2. CASE BroadcastRefused(r)
  BY <1>2, GoesKeeps DEF BroadcastRefused, Steps
<1>3. QED
  BY <1>1, <1>2

LEMMA WaitKeeps ==
  ASSUME SubInv, NEW r \in Presenters,
         PollActivation(r) \/ ReleaseReservation(r) \/ FetchDelegation(r) \/ Stops(r)
  PROVE  SubInv'
<1>1. work[r] \in Works /\ WorkInv(work[r])
  BY DEF SubInv, SubTypeOK
<1>2. CASE PollActivation(r)
  BY <1>2, GoesKeeps DEF PollActivation, Steps
<1>3. CASE ReleaseReservation(r)
  <2>1. reserved' \in [Activations -> SubChallenges \cup {NoChallenge}]
    BY <1>1, <1>3 DEF ReleaseReservation, SubInv, SubTypeOK, Works
  <2>2. QED
    BY <1>3, <2>1, RequestEnds DEF ReleaseReservation, SubInv, SubTypeOK
<1>4. CASE FetchDelegation(r)
  <2>1. status[work[r].act] = "landed"
    BY <1>1, <1>4 DEF FetchDelegation, WorkInv
  <2>2. CASE Goes(r, "current")
    BY <1>4, <2>1, <2>2, GoesKeeps DEF FetchDelegation, Steps
  <2>3. CASE Does(r, Idle)
    BY <1>4, <2>3, RequestEnds DEF FetchDelegation, SubInv, SubTypeOK, store
  <2>4. QED
    BY <1>4, <2>2, <2>3 DEF FetchDelegation
<1>5. CASE Stops(r)
  BY <1>5, RequestEnds, MishapCounts DEF Stops, SubInv, SubTypeOK, store
<1>6. QED
  BY <1>2, <1>3, <1>4, <1>5

(***************************************************************************)
(* The binding is read, before it is compared with and again after a lost  *)
(* race; what is in the store is held and behind nothing.                  *)
(***************************************************************************)
LEMMA StoredIsHeld ==
  ASSUME SubInv
  PROVE  /\ Held(binding) /\ Behind(binding)
         /\ binding \in Bindings \cup {NoBinding}
<1>1. binding \in Bindings \cup {NoBinding} /\ Held(binding)
  BY DEF SubInv, SubTypeOK, BindingInv
<1>2. binding # NoBinding => landedAt[binding.act] \in Nat
  BY <1>1 DEF SubInv, SubTypeOK, Bindings
<1>3. QED
  BY <1>1, <1>2 DEF Behind

LEMMA ReadKeeps ==
  ASSUME SubInv, NEW r \in Presenters, ReadBinding(r)
  PROVE  SubInv'
<1> DEFINE w == [work[r] EXCEPT !.at = "claim", !.cur = binding]
<1>1. work[r] \in Works /\ WorkInv(work[r]) /\ work[r].at = "current"
  BY DEF SubInv, SubTypeOK, ReadBinding
<1>2. w \in Works /\ WorkInv(w)
  BY <1>1, StoredIsHeld DEF Works, Steps, WorkInv, Loaded
<1>3. Does(r, w)
  BY DEF ReadBinding
<1> HIDE DEF w
<1>4. QED
  BY <1>2, <1>3, RequestMoves DEF ReadBinding, SubInv, SubTypeOK, store

LEMMA AccessKeeps ==
  ASSUME SubInv, NEW r \in Presenters, NEW c \in SubChallenges, Access(r, c)
  PROVE  SubInv'
<1> DEFINE w == [Idle EXCEPT !.at = "access", !.ch = c, !.cur = binding]
<1>1. w \in Works
  BY IdleWork, StoredIsHeld DEF Works, Steps
<1>2. w.at = "access" /\ w.ch = c /\ w.cur = binding
  BY IdleWork DEF Works
<1>3. WorkInv(w)
  BY <1>1, <1>2, StoredIsHeld DEF WorkInv, Loaded, Access
<1>4. Does(r, w)
  BY DEF Access
<1> HIDE DEF w
<1>5. QED
  BY <1>1, <1>3, <1>4, RequestMoves DEF Access, SubInv, SubTypeOK, store

(***************************************************************************)
(* The claim.  A record made from a binding of a previous release is that  *)
(* binding, because nobody has read another; any other is of an activation *)
(* the binding does not name.                                              *)
(***************************************************************************)
LEMMA CandidateIsSound ==
  ASSUME SubInv, NEW r \in Presenters, work[r].at = "claim",
         record[work[r].act] = NoBinding
  PROVE  LET k == Candidate(work[r]) IN
         /\ k \in Bindings /\ k.act = work[r].act /\ Known(k)
         /\ binding # NoBinding /\ binding.act = work[r].act => k = binding
<1> DEFINE w == work[r]
           k == Candidate(w)
<1>1. w \in Works /\ WorkInv(w) /\ w.at = "claim"
  BY DEF SubInv, SubTypeOK
<1>2. /\ status[w.act] = "landed" /\ w.ch \in SubChallenges
      /\ Held(w.cur) /\ (Unrecorded => w.cur = binding)
  BY <1>1 DEF WorkInv, Loaded
<1>3. k \in Bindings /\ k.act = w.act /\ Known(k)
  <2>1. CASE w.cur # NoBinding /\ w.cur.act = w.act
    BY <1>1, <1>2, <2>1 DEF Candidate, Held, Works
  <2>2. CASE ~(w.cur # NoBinding /\ w.cur.act = w.act)
    BY <1>1, <1>2, <2>2 DEF Candidate, Works, Bindings, Known, SubInv, SubTypeOK
  <2>3. QED
    BY <2>1, <2>2
<1>4. ASSUME binding # NoBinding, binding.act = w.act PROVE k = binding
  BY <1>2, <1>4 DEF Unrecorded, Candidate
<1>5. QED
  BY <1>3, <1>4

LEMMA ClaimKeeps ==
  ASSUME SubInv, NEW r \in Presenters, ClaimActivation(r)
  PROVE  SubInv'
<1> DEFINE a == work[r].act
           k == Candidate(work[r])
           w == [work[r] EXCEPT !.at = "publish", !.bound = record'[a]]
<1>1. work[r] \in Works /\ WorkInv(work[r]) /\ work[r].at = "claim" /\ a \in Activations
  BY DEF SubInv, SubTypeOK, ClaimActivation, Works
<1>2. /\ record' = [record EXCEPT ![a] = IF record[a] = NoBinding THEN k ELSE record[a]]
      /\ Does(r, w)
      /\ UNCHANGED <<cluster, reserved, binding, proven, mishaps>>
  BY <1>1 DEF ClaimActivation, SubInv, SubTypeOK
<1>3. CASE record[a] # NoBinding
  <2>1. record' = record
    BY <1>2, <1>3 DEF SubInv, SubTypeOK
  <2>2. w \in Works /\ WorkInv(w)
    BY <1>1, <1>3, <2>1 DEF Works, Steps, WorkInv, Loaded, SubInv, SubTypeOK
  <2> HIDE DEF w
  <2>3. QED
    BY <1>2, <2>1, <2>2, RequestMoves DEF SubInv, SubTypeOK
<1>4. CASE record[a] = NoBinding
  <2>1. /\ k \in Bindings /\ k.act = a /\ Known(k)
        /\ binding # NoBinding /\ binding.act = a => k = binding
    BY <1>1, <1>4, CandidateIsSound
  <2> HIDE DEF k
  <2>2. /\ record'[a] = k
        /\ \A b \in Activations \ {a} : record'[b] = record[b]
        /\ record' \in [Activations -> Bindings \cup {NoBinding}]
    BY <1>1, <1>2, <1>4, <2>1 DEF SubInv, SubTypeOK
  <2>3. w \in Works
    BY <1>1, <2>1, <2>2 DEF Works, Steps
  <2>4. SubTypeOK' /\ LandedInv' /\ BoundOnce'
    BY <1>2, <2>2, <2>3 DEF SubInv, SubTypeOK, LandedInv, BoundOnce, Does, cluster
  <2>5. RecordInv'
    BY <1>2, <2>1, <2>2 DEF SubInv, RecordInv, Known, cluster
  <2>6. ASSUME NEW b \in Bindings \cup {NoBinding}, Held(b) PROVE Held(b)'
    BY <1>2, <1>4, <2>1, <2>2, <2>6
       DEF Held, Known, Agrees, Sourced, cluster, Bindings
  <2>7. binding \in Bindings \cup {NoBinding}
    BY DEF SubInv, SubTypeOK
  <2>8. Held(binding)'
    BY <1>2, <2>6, <2>7 DEF SubInv, BindingInv, Held, Known, Agrees, Sourced
  <2>9. BindingInv'
    BY <1>2, <2>1, <2>2, <2>7, <2>8, SubscriptionAssumption
       DEF SubInv, BindingInv, Bindings
  <2>10. ProvenInv'
    BY <1>2, <1>4, <2>2 DEF SubInv, ProvenInv, cluster
  <2>11. Unrecorded' => Unrecorded
    BY <1>2, <2>1, <2>2, <2>7, SubscriptionAssumption DEF Unrecorded, Bindings
  <2>12. ASSUME NEW q \in Presenters PROVE WorkInv(work[q])'
    <3>1. work[q] \in Works /\ WorkInv(work[q])
      BY DEF SubInv, SubTypeOK
    <3>2. /\ Held(work[q].cur) => Held(work[q].cur)' \/ work'[q].cur # work[q].cur
          /\ Behind(work[q].cur) => Behind(work[q].cur)' \/ work'[q].cur # work[q].cur
      BY <1>2, <2>6, <3>1 DEF Works, Held, Known, Agrees, Sourced, Behind, cluster
    <3>3. CASE q = r
      <4>1. work'[q] = w
        BY <1>2, <3>3 DEF Does, SubInv, SubTypeOK
      <4>2. /\ w.at = "publish" /\ w.act = a /\ w.ch = work[q].ch
            /\ w.cur = work[q].cur /\ w.bound = k
        BY <1>1, <2>2, <3>3 DEF Works
      <4> HIDE DEF w
      <4>3. QED
        BY <1>1, <1>2, <2>1, <2>2, <2>11, <3>2, <3>3, <4>1, <4>2, SubscriptionAssumption
           DEF WorkInv, Loaded, cluster
    <3>4. CASE q # r
      <4>1. work'[q] = work[q]
        BY <1>2, <3>4 DEF Does, SubInv, SubTypeOK
      <4>2. work[q].at \in {"publish", "answer"} => record'[work[q].act] = record[work[q].act]
        BY <1>4, <2>2, <3>1 DEF WorkInv, Works
      <4>3. QED
        BY <1>2, <2>11, <3>1, <3>2, <4>1, <4>2 DEF WorkInv, Loaded, Agrees, cluster
    <3>5. QED
      BY <3>3, <3>4
  <2>13. QED
    BY <2>4, <2>5, <2>9, <2>10, <2>12 DEF SubInv
<1>5. QED
  BY <1>3, <1>4

(***************************************************************************)
(* The compare-and-set.  The binding it replaces is of another activation, *)
(* since the binding of a recorded activation is its record, and so of one *)
(* that landed before; receipts for the new one can only be for its record.*)
(***************************************************************************)
Swaps(r) ==
    LET w == work[r] IN
    /\ w.at = "publish" /\ w.cur # w.bound /\ Supersedes(w.bound, w.cur)
    /\ binding = w.cur /\ binding' = w.bound /\ Goes(r, "answer")
    /\ UNCHANGED <<cluster, reserved, record, proven, mishaps>>

LEMMA SwapIsSound ==
  ASSUME SubInv, NEW r \in Presenters, Swaps(r)
  PROVE  LET b == work[r].bound IN
         /\ b \in Bindings /\ b.act = work[r].act /\ record[b.act] = b /\ Known(b)
         /\ binding # NoBinding => landedAt[binding.act] < landedAt[b.act]
         /\ Agrees(b)
<1> DEFINE w == work[r]
           b == w.bound
<1>1. w \in Works /\ WorkInv(w) /\ w.act \in Activations
  BY DEF SubInv, SubTypeOK, Works
<1>2. b # NoBinding /\ b = record[w.act] /\ binding = w.cur /\ w.cur # b
  BY <1>1 DEF Swaps, WorkInv
<1>3. b \in Bindings /\ b.act = w.act /\ record[b.act] = b /\ Known(b)
  BY <1>1, <1>2 DEF SubInv, SubTypeOK, RecordInv
<1>4. ASSUME binding # NoBinding
      PROVE  binding.act # b.act /\ landedAt[binding.act] < landedAt[b.act]
  <2>1. binding \in Bindings /\ Known(binding)
    BY <1>4 DEF SubInv, SubTypeOK, BindingInv, Held
  <2>2. binding.act # b.act
    BY <1>2, <1>3, <1>4 DEF SubInv, BindingInv
  <2>3. SlotOf(binding) < SlotOf(b)
    BY <1>2, <1>4, <2>2 DEF Swaps, Supersedes
  <2>4. SlotOf(binding) = landedAt[binding.act] /\ SlotOf(b) = landedAt[b.act]
    BY <1>3, <2>1 DEF SlotOf, Known, Bindings, SubInv, SubTypeOK
  <2>5. QED
    BY <2>2, <2>3, <2>4
<1>5. Agrees(b)
  <2> SUFFICES ASSUME NEW c \in proven[b.act] PROVE c = b.ch
    BY DEF Agrees
  <2>1. b.act \in Activations /\ landedAt[b.act] \in Nat
    BY <1>1, <1>3 DEF SubInv, SubTypeOK
  <2>2. binding # NoBinding => landedAt[binding.act] \in Nat
    BY DEF SubInv, SubTypeOK, Bindings
  <2>3. QED
    BY <1>3, <1>4, <2>1, <2>2 DEF SubInv, ProvenInv
<1>6. QED
  BY <1>3, <1>4, <1>5

LEMMA SwapKeeps ==
  ASSUME SubInv, NEW r \in Presenters, Swaps(r)
  PROVE  SubInv'
<1> DEFINE b == work[r].bound
           w == [work[r] EXCEPT !.at = "answer"]
<1>1. /\ b \in Bindings /\ b.act = work[r].act /\ record[b.act] = b /\ Known(b)
      /\ binding # NoBinding => landedAt[binding.act] < landedAt[b.act]
      /\ Agrees(b) /\ b # NoBinding /\ b.act \in Activations
  BY SwapIsSound, SubscriptionAssumption DEF Bindings
<1>2. /\ work[r] \in Works /\ WorkInv(work[r]) /\ work[r].at = "publish"
      /\ Does(r, w) /\ binding' = b
      /\ UNCHANGED <<cluster, reserved, record, proven, mishaps>>
  BY DEF SubInv, SubTypeOK, Swaps, Goes
<1>3. w \in Works
  BY <1>2 DEF Works, Steps
<1>4. SubTypeOK' /\ LandedInv' /\ BoundOnce' /\ RecordInv'
  BY <1>1, <1>2, <1>3
     DEF SubInv, SubTypeOK, LandedInv, BoundOnce, RecordInv, Known, Does, cluster
<1>5. BindingInv'
  BY <1>1, <1>2 DEF BindingInv, Held, Known, Agrees, Sourced, cluster
<1>6. ASSUME NEW a \in Activations, binding # NoBinding, landedAt[a] <= landedAt[binding.act]
      PROVE  landedAt[a] < landedAt[b.act]
  <2>1. binding.act \in Activations
    BY <1>6 DEF SubInv, SubTypeOK, Bindings
  <2>2. {landedAt[a], landedAt[binding.act], landedAt[b.act]} \subseteq Nat
    BY <1>1, <2>1 DEF SubInv, SubTypeOK
  <2>3. QED
    BY <1>1, <1>6, <2>2
<1>7. ProvenInv'
  <2> SUFFICES ASSUME NEW a \in Activations, NEW c \in proven[a]
               PROVE  \/ record[a] # NoBinding /\ record[a].ch = c
                      \/ landedAt[b.act] > landedAt[a]
    BY <1>1, <1>2 DEF ProvenInv, cluster
  <2>1. binding # NoBinding /\ binding.act = a => landedAt[a] <= landedAt[binding.act]
    BY DEF SubInv, SubTypeOK
  <2>2. binding # NoBinding /\ landedAt[binding.act] > landedAt[a]
           => landedAt[a] <= landedAt[binding.act]
    BY DEF SubInv, SubTypeOK, Bindings
  <2>3. {landedAt[a], landedAt[b.act]} \subseteq Nat
    BY <1>1 DEF SubInv, SubTypeOK
  <2>4. QED
    BY <1>6, <2>1, <2>2, <2>3 DEF SubInv, ProvenInv
<1>8. ASSUME NEW q \in Presenters PROVE WorkInv(work[q])'
  <2>1. work[q] \in Works /\ WorkInv(work[q])
    BY DEF SubInv, SubTypeOK
  <2>2. ~Unrecorded'
    BY <1>1, <1>2 DEF Unrecorded
  <2>3. work'[q].cur = work[q].cur
    BY <1>2, <2>1 DEF Does, SubInv, SubTypeOK, Works
  <2>4. Held(work[q].cur) => Held(work[q].cur)'
    BY <1>2, <2>3 DEF Held, Known, Agrees, Sourced, cluster
  <2>5. ASSUME Behind(work[q].cur) PROVE Behind(work[q].cur)'
    <3>1. CASE work[q].cur = NoBinding
      BY <2>3, <3>1 DEF Behind
    <3>2. CASE work[q].cur # NoBinding
      <4>1. work[q].cur.act \in Activations
        BY <2>1, <3>2 DEF Works, Bindings
      <4>2. landedAt[work[q].cur.act] \in Nat /\ landedAt[b.act] \in Nat
        BY <1>1, <4>1 DEF SubInv, SubTypeOK
      <4>3. landedAt[work[q].cur.act] < landedAt[b.act]
        BY <1>6, <2>5, <3>2, <4>1 DEF Behind
      <4>4. QED
        BY <1>1, <1>2, <2>3, <4>2, <4>3 DEF Behind, cluster
    <3>3. QED
      BY <3>1, <3>2
  <2>6. CASE q = r
    <3>1. work'[q] = w
      BY <1>2, <2>6 DEF Does, SubInv, SubTypeOK
    <3>2. /\ w.at = "answer" /\ w.act = work[q].act /\ w.ch = work[q].ch
          /\ w.bound = work[q].bound
      BY <1>2, <2>6 DEF Works
    <3> HIDE DEF w
    <3>3. QED
      BY <1>1, <1>2, <2>1, <2>2, <2>4, <2>5, <2>6, <3>1, <3>2
         DEF WorkInv, Loaded, Agrees, cluster
  <2>7. CASE q # r
    <3>1. work'[q] = work[q]
      BY <1>2, <2>7 DEF Does, SubInv, SubTypeOK
    <3>2. QED
      BY <1>2, <2>1, <2>2, <2>4, <2>5, <3>1 DEF WorkInv, Loaded, Agrees, cluster
  <2>8. QED
    BY <2>6, <2>7
<1>9. QED
  BY <1>4, <1>5, <1>7, <1>8 DEF SubInv

LEMMA PublishKeeps ==
  ASSUME SubInv, NEW r \in Presenters, Publish(r)
  PROVE  SubInv'
<1>1. work[r] \in Works /\ WorkInv(work[r]) /\ work[r].at = "publish"
  BY DEF SubInv, SubTypeOK, Publish
<1>2. UNCHANGED <<cluster, reserved, record, proven, mishaps>>
  BY DEF Publish
<1>3. CASE work[r].cur = work[r].bound /\ Goes(r, "answer") /\ UNCHANGED binding
  <2> DEFINE w == [work[r] EXCEPT !.at = "answer"]
  <2>1. w \in Works /\ Does(r, w)
    BY <1>1, <1>3 DEF Works, Steps, Goes
  <2>2. WorkInv(w)
    BY <1>1, <1>3 DEF WorkInv, Loaded, Held, Works
  <2> HIDE DEF w
  <2>3. QED
    BY <1>2, <1>3, <2>1, <2>2, RequestMoves DEF SubInv, SubTypeOK
<1>4. CASE Does(r, Idle) /\ UNCHANGED binding
  BY <1>2, <1>4, RequestEnds DEF SubInv, SubTypeOK
<1>5. CASE Swaps(r)
  BY <1>5, SwapKeeps
<1>6. CASE Contended(r) /\ UNCHANGED binding
  <2> DEFINE w == [work[r] EXCEPT !.cur = binding, !.tries = work[r].tries + 1]
  <2>1. CASE Does(r, w)
    <3>1. work[r].tries \in Nat /\ work[r].tries + 1 \in Nat
      BY <1>1 DEF Works
    <3>2. w \in Works
      BY <1>1, <3>1, StoredIsHeld DEF Works
    <3>3. WorkInv(w)
      BY <1>1, StoredIsHeld DEF WorkInv, Loaded, Works
    <3> HIDE DEF w
    <3>4. QED
      BY <1>2, <1>6, <2>1, <3>2, <3>3, RequestMoves DEF SubInv, SubTypeOK
  <2>2. QED
    BY <1>4, <1>6, <2>1 DEF Contended
<1>7. QED
  BY <1>1, <1>2, <1>3, <1>4, <1>5, <1>6 DEF Publish, Swaps

(***************************************************************************)
(* A receipt for the record of its activation.  Whatever else was read of  *)
(* that activation is the record, or gave the same challenge a receipt.    *)
(***************************************************************************)
LEMMA GrantKeeps ==
  ASSUME SubInv, NEW r \in Presenters, NEW a \in Activations,
         record[a] # NoBinding, Agrees(record[a]), Proves(a, record[a].ch),
         Does(r, Idle), UNCHANGED <<cluster, store, mishaps>>
  PROVE  SubInv'
<1> DEFINE k == record[a]
<1>1. k \in Bindings /\ k.act = a /\ k.ch \in SubChallenges /\ status[a] = "landed"
  BY DEF SubInv, SubTypeOK, RecordInv, Known, Bindings
<1>2. /\ proven' = [proven EXCEPT ![a] = @ \cup {k.ch}]
      /\ proven \in [Activations -> SUBSET SubChallenges]
  BY DEF Proves, SubInv, SubTypeOK
<1>3. /\ proven'[a] = proven[a] \cup {k.ch}
      /\ \A b \in Activations \ {a} : proven'[b] = proven[b]
      /\ proven' \in [Activations -> SUBSET SubChallenges]
  BY <1>1, <1>2
<1>4. SubTypeOK' /\ LandedInv' /\ RecordInv'
  BY <1>3, IdleWork
     DEF SubInv, SubTypeOK, LandedInv, RecordInv, Known, Does, cluster, store
<1>5. ASSUME NEW b \in Bindings, Held(b), b # NoBinding
      PROVE  Agrees(b)'
  <2>1. b.act = a => b.ch = k.ch
    BY <1>1, <1>5 DEF Held, Sourced, Agrees
  <2>2. QED
    BY <1>3, <1>5, <2>1 DEF Held, Agrees, Bindings
<1>6. ASSUME NEW b \in Bindings \cup {NoBinding}, Held(b) PROVE Held(b)'
  BY <1>3, <1>5, <1>6 DEF Held, Known, Sourced, Bindings, cluster, store
<1>7. BindingInv'
  <2>1. binding \in Bindings \cup {NoBinding} /\ binding' = binding /\ record' = record
    BY DEF SubInv, SubTypeOK, store
  <2>2. Held(binding)'
    BY <1>6, <2>1 DEF SubInv, BindingInv, Held, Known, Agrees, Sourced
  <2>3. QED
    BY <2>1, <2>2 DEF SubInv, BindingInv
<1>8. BoundOnce'
  BY <1>1, <1>3 DEF SubInv, BoundOnce, Agrees, cluster
<1>9. ProvenInv'
  BY <1>3 DEF SubInv, ProvenInv, cluster, store
<1>10. ASSUME NEW q \in Presenters PROVE WorkInv(work[q])'
  <2>1. CASE work'[q] = Idle
    BY <2>1 DEF WorkInv, Loaded, Idle
  <2>2. CASE work'[q] = work[q]
    <3>1. work[q] \in Works /\ WorkInv(work[q])
      BY DEF SubInv, SubTypeOK
    <3>2. Held(work[q].cur) => Held(work[q].cur)'
      BY <1>6, <2>2, <3>1 DEF Works, Held, Known, Agrees, Sourced
    <3>3. ASSUME work[q].at = "answer" PROVE Agrees(work[q].bound)'
      <4>1. /\ work[q].bound = record[work[q].act] /\ record[work[q].act] # NoBinding
            /\ work[q].act \in Activations /\ Agrees(work[q].bound)
        BY <3>1, <3>3 DEF WorkInv, Works
      <4>2. work[q].bound.act = work[q].act
        BY <4>1 DEF SubInv, RecordInv
      <4>3. QED
        BY <1>1, <1>3, <2>2, <4>1, <4>2 DEF Agrees
    <3>4. QED
      BY <2>2, <3>1, <3>2, <3>3 DEF WorkInv, Loaded, Behind, Unrecorded, cluster, store
  <2>3. QED
    BY <2>1, <2>2 DEF Does, SubInv, SubTypeOK
<1>11. QED
  BY <1>4, <1>7, <1>8, <1>9, <1>10 DEF SubInv

LEMMA AnswerKeeps ==
  ASSUME SubInv, NEW r \in Presenters, Answer(r)
  PROVE  SubInv'
<1>1. /\ work[r] \in Works /\ WorkInv(work[r]) /\ work[r].at = "answer"
      /\ Does(r, Idle) /\ UNCHANGED <<cluster, store, mishaps>>
  BY DEF SubInv, SubTypeOK, Answer
<1>2. /\ work[r].act \in Activations /\ record[work[r].act] # NoBinding
      /\ work[r].bound = record[work[r].act] /\ Agrees(record[work[r].act])
  BY <1>1 DEF WorkInv, Works, Agrees
<1>3. CASE Proves(work[r].act, work[r].bound.ch)
  BY <1>1, <1>2, <1>3, GrantKeeps
<1>4. CASE UNCHANGED proven
  BY <1>1, <1>4, RequestEnds DEF SubInv, SubTypeOK, store
<1>5. QED
  BY <1>3, <1>4 DEF Answer

LEMMA GrantAccessKeeps ==
  ASSUME SubInv, NEW r \in Presenters, GrantAccess(r)
  PROVE  SubInv'
<1> DEFINE b == work[r].cur
<1>1. /\ work[r] \in Works /\ WorkInv(work[r]) /\ work[r].at = "access"
      /\ Does(r, Idle) /\ UNCHANGED <<cluster, store, mishaps>>
  BY DEF SubInv, SubTypeOK, GrantAccess
<1>2. b \in Bindings /\ b # NoBinding /\ Held(b) /\ work[r].ch = b.ch /\ b.act \in Activations
  BY <1>1 DEF WorkInv, Loaded, Works, Bindings
<1>3. CASE UNCHANGED proven
  BY <1>1, <1>3, RequestEnds DEF SubInv, SubTypeOK, store
<1>4. CASE Proves(b.act, b.ch)
  <2>1. CASE b.ch \in proven[b.act]
    <3>1. UNCHANGED proven
      BY <1>2, <1>4, <2>1 DEF Proves, SubInv, SubTypeOK
    <3>2. QED
      BY <1>3, <3>1
  <2>2. CASE record[b.act] = b
    BY <1>1, <1>2, <1>4, <2>2, GrantKeeps DEF Held
  <2>3. QED
    BY <1>2, <2>1, <2>2 DEF Held, Sourced
<1>5. QED
  BY <1>2, <1>3, <1>4 DEF GrantAccess

(***************************************************************************)
(* The cluster: a landing is in the present slot, and what has landed      *)
(* stays where it did.                                                     *)
(***************************************************************************)
LEMMA ClusterKeeps ==
  ASSUME SubInv,
         \/ \E a \in Activations : ActivationLands(a) \/ ActivationExpires(a)
         \/ DelegationChanges
  PROVE  SubInv'
<1>1. UNCHANGED <<store, work, proven, mishaps>>
  BY DEF ActivationLands, ActivationExpires, DelegationChanges
<1>2. /\ SubTypeOK' /\ LandedInv'
      /\ \A a \in Activations :
            status[a] = "landed" => status'[a] = "landed" /\ landedAt'[a] = landedAt[a]
  <2>1. CASE DelegationChanges
    BY <2>1 DEF DelegationChanges, SubInv, SubTypeOK, LandedInv, store
  <2>2. ASSUME NEW a \in Activations, ActivationLands(a) \/ ActivationExpires(a)
        PROVE  /\ SubTypeOK' /\ LandedInv'
               /\ \A b \in Activations :
                    status[b] = "landed"
                      => status'[b] = "landed" /\ landedAt'[b] = landedAt[b]
    BY <2>2 DEF ActivationLands, ActivationExpires, SubInv, SubTypeOK, LandedInv, store
  <2>3. QED
    BY <2>1, <2>2
<1>3. QED
  BY <1>1, <1>2, Moves DEF store

(***************************************************************************)
(* SubInv is an inductive invariant of the activations, so every store the *)
(* server can reach is sound, whatever was reserved, released, sent twice, *)
(* superseded or left half done.                                           *)
(***************************************************************************)
THEOREM SubscriptionInvariant == SubSpec => []SubInv
<1>1. SubInit => SubInv
  BY SubInitially
<1>2. SubInv /\ [SubNext]_subVars => SubInv'
  <2> SUFFICES ASSUME SubInv, [SubNext]_subVars PROVE SubInv'
    OBVIOUS
  <2>1. ASSUME NEW r \in Presenters, Serves(r) \/ Stops(r) PROVE SubInv'
    BY <2>1, ReserveKeeps, ReadReservationKeeps, BroadcastKeeps, WaitKeeps, ReadKeeps,
       ClaimKeeps, PublishKeeps, AnswerKeeps, GrantAccessKeeps DEF Serves
  <2>2. ASSUME NEW r \in Presenters, NEW c \in SubChallenges,
               Access(r, c) \/ \E a \in Activations : PresentActivation(r, a, c)
        PROVE  SubInv'
    BY <2>2, AccessKeeps, PresentKeeps
  <2>3. CASE UNCHANGED subVars
    <3>1. SubTypeOK' /\ LandedInv'
      BY <2>3 DEF SubInv, SubTypeOK, LandedInv, subVars, cluster, store
    <3>2. QED
      BY <2>3, <3>1, Moves DEF subVars, cluster, store
  <2>4. QED
    BY <2>1, <2>2, <2>3, ClusterKeeps DEF SubNext
<1>3. QED
  BY <1>1, <1>2, PTL DEF SubSpec

(***************************************************************************)
(* For any number of requests, replicas, activations and challenges, one   *)
(* activation gives a receipt to one challenge, and only if it landed.     *)
(***************************************************************************)
THEOREM ActivationBoundOnce == SubSpec => []BoundOnce
<1>1. SubInv => BoundOnce
  BY DEF SubInv
<1>2. QED
  BY <1>1, SubscriptionInvariant, PTL

(***************************************************************************)
(* The binding only moves on, to an activation that landed later: the      *)
(* compare-and-set is sound although the slots were compared before it.    *)
(***************************************************************************)
THEOREM BindingMovesOn == SubSpec => BindingAdvances
<1>1. SubInv /\ [SubNext]_subVars => [Advances]_subVars
  <2> SUFFICES ASSUME SubInv, SubNext, binding' # binding PROVE Advances
    BY DEF Advances
  <2>1. PICK r \in Presenters : Publish(r)
    BY DEF SubNext, Serves, Stops, ReserveSignature, ReadReservation, BroadcastAccepted,
       BroadcastRefused, BroadcastLost, PollActivation, ReleaseReservation,
       FetchDelegation, ReadBinding, ClaimActivation, Answer, GrantAccess, Access,
       PresentActivation, ActivationLands, ActivationExpires, DelegationChanges, store
  <2>2. Swaps(r)
    BY <2>1 DEF Publish, Swaps
  <2>3. /\ binding' = work[r].bound /\ binding' \in Bindings
        /\ binding # NoBinding => landedAt[binding.act] < landedAt[binding'.act]
    BY <2>2, SwapIsSound DEF Swaps
  <2>4. binding # NoBinding => landedAt[binding.act] \in Nat /\ landedAt[binding'.act] \in Nat
    BY <2>3 DEF SubInv, SubTypeOK, Bindings
  <2>5. QED
    BY <2>3, <2>4, SubscriptionAssumption DEF Advances
<1>2. QED
  BY <1>1, SubscriptionInvariant, PTL DEF SubSpec, BindingAdvances

=============================================================================

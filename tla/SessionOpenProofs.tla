-------------------------- MODULE SessionOpenProofs --------------------------
(***************************************************************************)
(* The open of a session channel, for any number of requests, any deposit  *)
(* and validity window of the blockhash, and any number of failures and    *)
(* restarts of the server.                                                 *)
(***************************************************************************)
EXTENDS SessionOpen, TLAPS

(***************************************************************************)
(* The cluster: what landed did so in a slot that has passed.              *)
(***************************************************************************)
LandedInPast == fate # "none" => at \in 1..slot

(***************************************************************************)
(* What a request has learned stays true until it acts on it.  One that    *)
(* found the record active, or is about to activate it, knows that the     *)
(* open landed after the floor it carries; one that retires the record as  *)
(* opened elsewhere knows the opposite.                                    *)
(***************************************************************************)
CarriesIntent(j) == j.at \in {"reserve", "submit", "activate", "retire"}

Adopts(j) ==
    /\ j.at = "activate" => fate = "ok" /\ at > j.floor
    /\ CarriesIntent(j) /\ ~j.activating => fate = "ok" /\ at > j.floor
    /\ j.at = "retire" => fate = "ok" /\ at <= j.floor

(***************************************************************************)
(* A finalized observation of the blockhash is not older than the          *)
(* blockhash, so a later bank that does not know it has retired it.        *)
(***************************************************************************)
ObservedIsValid(v) == v # None => v >= FirstValid

NoLanding == slot > LastValid

Proves(j) ==
    /\ j.at \in {"prove", "expire"} => NoLanding /\ j.seen.state = "pending"
    /\ j.at = "expire" => fate # "ok"

Knows(j) == Adopts(j) /\ Proves(j) /\ ObservedIsValid(j.validAt)

(***************************************************************************)
(* Once a record that served was lost with its store, every floor is at or *)
(* after the landing, as long as no slot was read from a node that was     *)
(* behind the server's start.                                              *)
(***************************************************************************)
Trusted == durable \/ ~behind

StartsBehind(j) == CarriesIntent(j) \/ j.at = "blockhash" => j.floor >= since

Forgotten ==
    /\ ~durable /\ fate = "ok" /\ at <= since
    /\ rec.state # "none" => AdoptionFloor(rec) >= since
    /\ \A h \in Handlers : StartsBehind(job[h])

ServedIsKept ==
    Trusted => served = 0 \/ (rec.state = "active" /\ served <= rec.cum) \/ Forgotten

Jobs == [at : Stages, floor : Slots, validAt : Slots, activating : BOOLEAN,
         settled : 0..Deposit, seen : Records]

OpenInv ==
    /\ TypeOK
    /\ LandedInPast
    /\ ActiveIsFunded
    /\ ObservedIsValid(rec.validAt)
    /\ rec.state = "expired" => fate # "ok" /\ NoLanding
    /\ \A h \in Handlers : Knows(job[h])
    /\ ServedIsKept /\ EscrowServedOnce

(***************************************************************************)
(* The larger of two numbers.                                              *)
(***************************************************************************)
LEMMA MaxOfTwo ==
  ASSUME NEW a \in Int, NEW b \in Int
  PROVE  Max({a, b}) = IF a >= b THEN a ELSE b
<1>1. PICK m \in {a, b} : \A y \in {a, b} : m >= y
  OBVIOUS
<1>2. Max({a, b}) \in {a, b} /\ \A y \in {a, b} : Max({a, b}) >= y
  BY <1>1 DEF Max
<1>3. QED
  BY <1>2

(***************************************************************************)
(* The invariant holds when the server starts, with or without a row an    *)
(* older release left behind.                                              *)
(***************************************************************************)
LEMMA OpenInit == Init => OpenInv
<1> SUFFICES ASSUME Init PROVE OpenInv
  OBVIOUS
<1> USE OpenAssumption DEF Init
<1>1. slot \in 1..MaxSlot /\ final \in 1..slot /\ since \in 1..slot
  OBVIOUS
<1>2. rec \in Records /\ rec.cum = 0 /\ rec.state \in {"none", "pending"}
      /\ ObservedIsValid(rec.validAt)
  BY <1>1 DEF Records, NoRecord, Slots, None, ObservedIsValid
<1>3. Idle \in Jobs
  BY DEF Jobs, Idle, Stages, Slots, None, Records, NoRecord
<1>b. durable \in BOOLEAN /\ behind \in BOOLEAN
  BY Zenon
<1>4. TypeOK
  BY <1>1, <1>2, <1>3, <1>b DEF TypeOK, Jobs, Slots, None
<1>5. \A h \in Handlers : Knows(job[h])
  BY DEF Knows, Adopts, Proves, ObservedIsValid, Idle, CarriesIntent, None
<1>6. QED
  BY <1>2, <1>4, <1>5 DEF OpenInv, LandedInPast, ActiveIsFunded, ServedIsKept,
        EscrowServedOnce

(***************************************************************************)
(* A step that only moves one request on keeps the invariant if the        *)
(* request knows what its new stage requires.                              *)
(***************************************************************************)
LEMMA MovesOn ==
  ASSUME OpenInv, NEW h \in Handlers, NEW j \in Jobs, Do(h, j),
         UNCHANGED <<slot, final, fate, at, settled, durable, since, rec, served>>,
         faults' \in 0..MaxFaults, behind' \in BOOLEAN, behind => behind',
         Knows(j), Forgotten /\ ~behind' => StartsBehind(j)
  PROVE  OpenInv'
<1> USE DEF OpenInv, Do
<1>1. job' = [job EXCEPT ![h] = j] /\ job' \in [Handlers -> Jobs]
  BY DEF TypeOK, Jobs
<1>2. TypeOK'
  BY <1>1 DEF TypeOK, Jobs, Records, Slots
<1>3. \A g \in Handlers : Knows(job[g])'
  BY <1>1 DEF Knows, Adopts, Proves, NoLanding, ObservedIsValid, TypeOK
<1>4. Forgotten /\ ~behind' => Forgotten'
  BY <1>1 DEF Forgotten, StartsBehind, AdoptionFloor, TypeOK
<1>5. (LandedInPast /\ ActiveIsFunded /\ ObservedIsValid(rec.validAt)
        /\ (rec.state = "expired" => fate # "ok" /\ NoLanding) /\ EscrowServedOnce)'
  BY DEF LandedInPast, ActiveIsFunded, ObservedIsValid, NoLanding, AdoptionFloor,
        EscrowServedOnce
<1>6. ServedIsKept'
  BY <1>4 DEF ServedIsKept, Trusted, Forgotten
<1>7. QED
  BY <1>2, <1>3, <1>5, <1>6

(***************************************************************************)
(* A request that ends carries nothing.                                    *)
(***************************************************************************)
LEMMA IdleKnows ==
  /\ Idle \in Jobs /\ Knows(Idle) /\ StartsBehind(Idle)
  /\ Idle.validAt = None /\ Idle.floor = None /\ Idle.at = "idle"
  BY OpenAssumption DEF Idle, Jobs, Records, NoRecord, Slots, None, Stages, Knows, Adopts,
        Proves, CarriesIntent, ObservedIsValid, StartsBehind

(***************************************************************************)
(* Every step of a request or a reconciliation keeps the invariant.        *)
(***************************************************************************)
LEMMA StepKeeps ==
  ASSUME OpenInv, NEW h \in Handlers, Step(h) \/ Fail(h)
  PROVE  OpenInv'
<1>a. job \in [Handlers -> Jobs] /\ rec \in Records /\ faults \in 0..MaxFaults
      /\ settled \in 0..Deposit /\ slot \in 1..MaxSlot /\ final \in 1..slot
      /\ since \in 1..slot /\ at \in Slots /\ behind \in BOOLEAN /\ Knows(job[h])
  BY DEF OpenInv, TypeOK, Jobs
<1>1. CASE OpenRead(h)
  <2>1. PICK k : Do(h, k) /\ (\/ rec.state = "none" /\ k = [Idle EXCEPT !.at = "floor"]
                            \/ /\ rec.state \in {"pending", "active"}
                               /\ k = [Idle EXCEPT !.at = "reserve", !.floor = AdoptionFloor(rec),
                                   !.validAt = rec.validAt, !.activating = (rec.state = "pending")])
    BY <1>1, <1>a DEF OpenRead, Terminal, Records
  <2>2. AdoptionFloor(rec) \in Slots
    BY <1>a DEF AdoptionFloor, Records
  <2>3. k \in Jobs /\ k.at \in {"floor", "reserve"} /\ k.validAt \in {None, rec.validAt}
    <3>1. CASE k = [Idle EXCEPT !.at = "floor"]
      BY <3>1, IdleKnows DEF Idle, Jobs, Stages
    <3>2. CASE k = [Idle EXCEPT !.at = "reserve", !.floor = AdoptionFloor(rec),
                      !.validAt = rec.validAt, !.activating = (rec.state = "pending")]
      <4>1. (rec.state = "pending") \in BOOLEAN /\ rec.validAt \in Slots
        BY <1>a DEF Records
      <4>2. QED
        BY <3>2, <4>1, <2>2, IdleKnows DEF Idle, Jobs, Stages
    <3>3. QED
      BY <2>1, <3>1, <3>2
  <2>4. k.at = "reserve" => /\ k.floor = AdoptionFloor(rec)
                            /\ rec.state # "none" /\ (~k.activating => rec.state = "active")
    BY <2>1, <2>3, <1>a DEF Idle
  <2>5. Knows(k)
    BY <2>3, <2>4 DEF OpenInv, ActiveIsFunded, Knows, Adopts, Proves, CarriesIntent, ObservedIsValid
  <2>6. Forgotten => StartsBehind(k)
    BY <2>3, <2>4 DEF Forgotten, StartsBehind, CarriesIntent
  <2>7. QED
    BY <1>1, <1>a, <2>1, <2>3, <2>5, <2>6, MovesOn DEF OpenRead, cluster, server
<1>2. CASE ObserveFloor(h)
  <2>1. PICK f \in SlotAnswers :
          /\ Do(h, [job[h] EXCEPT !.at = "blockhash", !.floor = f])
          /\ behind' = (behind \/ (fate = "ok" /\ f < since))
    BY <1>2 DEF ObserveFloor
  <2> DEFINE k == [job[h] EXCEPT !.at = "blockhash", !.floor = f]
             low == Max({since, slot - CacheAge}) - MaxLag
  <2>2. f \in Slots
    <3>1. CacheAge \in Nat /\ MaxLag \in Nat /\ MaxSlot \in Nat /\ since \in Int
          /\ slot \in 1..MaxSlot /\ slot - CacheAge \in Int
      BY <1>a, OpenAssumption
    <3>2. low \in Int
      BY <3>1, MaxOfTwo
    <3> HIDE DEF low
    <3>3. Max({1, low}) \in Int /\ Max({1, low}) >= 1
      BY <3>2, MaxOfTwo
    <3>4. f \in Max({1, low})..slot
      BY <2>1 DEF SlotAnswers, low
    <3>5. QED
      BY <3>1, <3>3, <3>4 DEF Slots, None
  <2>3. k \in Jobs /\ k.at = "blockhash" /\ k.floor = f /\ k.validAt = job[h].validAt
    BY <1>a, <2>2 DEF Jobs, Stages
  <2>4. Knows(k)
    BY <1>a, <2>3 DEF Knows, Adopts, Proves, CarriesIntent
  <2>5. Forgotten /\ ~behind' => StartsBehind(k)
    <3>1. f \in Int /\ since \in Int
      BY <1>a, <2>2, OpenAssumption DEF Slots, None
    <3>2. Forgotten /\ ~behind' => ~(f < since)
      BY <2>1, Zenon DEF Forgotten
    <3>3. QED
      BY <2>3, <3>1, <3>2 DEF StartsBehind
  <2>6. behind' \in BOOLEAN /\ (behind => behind')
    BY <1>a, <2>1
  <2>7. QED
    BY <1>2, <1>a, <2>1, <2>3, <2>4, <2>5, <2>6, MovesOn DEF ObserveFloor, cluster
<1>3. CASE ObserveBlockhash(h)
  <2>1. PICK f \in {None} \cup {g \in 1..final : ValidAt(g)} :
          Do(h, [job[h] EXCEPT !.at = "reserve", !.validAt = f, !.activating = TRUE])
    BY <1>3 DEF ObserveBlockhash
  <2> DEFINE k == [job[h] EXCEPT !.at = "reserve", !.validAt = f, !.activating = TRUE]
  <2>2. f \in Slots /\ ObservedIsValid(f)
    BY <1>a, <2>1, OpenAssumption DEF Slots, None, ValidAt, ObservedIsValid
  <2>3. /\ k \in Jobs /\ k.at = "reserve" /\ k.activating
        /\ k.floor = job[h].floor /\ k.validAt = f
    BY <1>a, <2>2 DEF Jobs, Stages
  <2>4. Knows(k)
    BY <2>2, <2>3 DEF Knows, Adopts, Proves, CarriesIntent
  <2>5. Forgotten => StartsBehind(k)
    BY <1>3, <2>3 DEF Forgotten, StartsBehind, ObserveBlockhash
  <2>6. QED
    BY <1>3, <1>a, <2>1, <2>3, <2>4, <2>5, MovesOn DEF ObserveBlockhash, cluster, server
<1>4. CASE Reserve(h)
  BY <1>4, OpenAssumption DEF Reserve, Terminal, SameIntent, OpenInv, TypeOK, LandedInPast,
        ActiveIsFunded, ObservedIsValid, Knows, Adopts, Proves, CarriesIntent, NoLanding,
        ServedIsKept, EscrowServedOnce, Trusted, Forgotten, StartsBehind, AdoptionFloor, Slots,
        None, Records, Stages, Do, cluster, server
<1>5. CASE LandedOpen(h)
  <2>1. PICK k : /\ Do(h, k)
                 /\ \/ /\ k = [job[h] EXCEPT !.at = "retire"]
                       /\ at <= job[h].floor /\ job[h].activating
                    \/ /\ k = [job[h] EXCEPT !.at = "activate", !.settled = settled]
                       /\ ~(job[h].activating /\ at <= job[h].floor)
    BY <1>5 DEF LandedOpen
  <2>2. /\ k \in Jobs /\ k.at \in {"retire", "activate"}
        /\ k.floor = job[h].floor /\ k.validAt = job[h].validAt
        /\ k.activating = job[h].activating
        /\ k.at = "retire" => at <= job[h].floor /\ job[h].activating
        /\ k.at = "activate" => ~(job[h].activating /\ at <= job[h].floor)
    BY <1>a, <2>1 DEF Jobs, Stages
  <2>3. /\ job[h].at = "submit" /\ fate = "ok" /\ job[h].floor \in Int /\ at \in Int
        /\ ~job[h].activating => at > job[h].floor
    BY <1>5, <1>a DEF LandedOpen, Knows, Adopts, CarriesIntent, Jobs, Slots, None
  <2>4. Knows(k)
    BY <1>a, <2>2, <2>3 DEF Knows, Adopts, Proves, CarriesIntent
  <2>5. Forgotten => StartsBehind(k)
    BY <2>2, <2>3 DEF Forgotten, StartsBehind, CarriesIntent
  <2>6. QED
    BY <1>5, <1>a, <2>1, <2>2, <2>4, <2>5, MovesOn DEF LandedOpen, cluster, server
<1>6. CASE RetireElsewhere(h)
  BY <1>6, OpenAssumption DEF RetireElsewhere, SameIntent, Idle, NoRecord, OpenInv, TypeOK,
        LandedInPast, ActiveIsFunded, ObservedIsValid, Knows, Adopts, Proves, CarriesIntent,
        NoLanding, ServedIsKept, EscrowServedOnce, Trusted, Forgotten, StartsBehind,
        AdoptionFloor, Slots, None, Records, Stages, Do, cluster, server
<1>7. CASE Activate(h)
  <2>1. /\ rec' = [rec EXCEPT !.state = "active", !.cum = Max({rec.cum, job[h].settled})]
        /\ Do(h, Idle) /\ UNCHANGED <<cluster, server, served>>
        /\ job[h].at = "activate" /\ rec.state \in {"pending", "active"}
        /\ AdoptionFloor(rec) = job[h].floor
    BY <1>7 DEF Activate, SameIntent
  <2>2. /\ Max({rec.cum, job[h].settled}) \in 0..Deposit
        /\ Max({rec.cum, job[h].settled}) >= rec.cum
    BY <1>a, MaxOfTwo, OpenAssumption DEF Records, Jobs
  <2>3. /\ rec' \in Records /\ rec'.state = "active" /\ rec'.cum >= rec.cum
        /\ rec'.floor = rec.floor /\ rec'.validAt = rec.validAt
    BY <1>a, <2>1, <2>2 DEF Records
  <2>4. fate = "ok" /\ at > AdoptionFloor(rec)
    BY <1>a, <2>1 DEF Knows, Adopts
  <2>5. TypeOK'
    BY <2>1, <2>3, IdleKnows DEF OpenInv, TypeOK, Do, Jobs, cluster, server, Slots
  <2>6. (LandedInPast /\ ActiveIsFunded /\ ObservedIsValid(rec.validAt)
          /\ (rec.state = "expired" => fate # "ok" /\ NoLanding) /\ EscrowServedOnce)'
    BY <2>1, <2>3, <2>4 DEF OpenInv, LandedInPast, ActiveIsFunded, ObservedIsValid,
          AdoptionFloor, EscrowServedOnce, cluster, server
  <2>7. \A g \in Handlers : Knows(job[g])'
    BY <1>a, <2>1, IdleKnows DEF OpenInv, Do, Knows, Adopts, Proves, NoLanding,
          ObservedIsValid, cluster
  <2>8. ServedIsKept'
    <3> SUFFICES ASSUME Trusted PROVE (rec.state = "active" /\ served <= rec.cum)'
      BY <2>1 DEF ServedIsKept, Trusted, server
    <3>1. ~Forgotten
      BY <1>a, <2>1, <2>4 DEF Forgotten, AdoptionFloor, Records, Slots, None
    <3>2. served <= rec.cum
      BY <1>a, <3>1 DEF OpenInv, ServedIsKept, Records
    <3>3. served \in Nat /\ rec.cum \in Nat /\ rec'.cum \in Nat /\ served' = served
      <4>1. served \in Nat /\ served' = served
        BY <2>1 DEF OpenInv, TypeOK
      <4>2. rec.cum \in 0..Deposit /\ rec'.cum \in 0..Deposit
        BY <1>a, <2>3 DEF Records
      <4>3. QED
        BY <4>1, <4>2, OpenAssumption
    <3>4. served' <= rec'.cum
      BY <2>3, <3>2, <3>3
    <3>5. QED
      BY <2>3, <3>4
  <2>9. QED
    BY <2>5, <2>6, <2>7, <2>8 DEF OpenInv
<1>8. CASE ResumeExpired(h)
  <2> DEFINE k == [Idle EXCEPT !.at = "prove", !.seen = rec]
  <2>1. PICK f \in rec.validAt + 1 .. final : ~ValidAt(f) /\ Do(h, k)
    BY <1>8 DEF ResumeExpired
  <2>2. rec.state = "pending" /\ rec.validAt \in Int /\ rec.validAt >= FirstValid
    BY <1>8, <1>a DEF ResumeExpired, OpenInv, ObservedIsValid, Records, Slots, None
  <2>3. NoLanding
    BY <1>a, <2>1, <2>2, OpenAssumption DEF ValidAt, NoLanding
  <2>4. k \in Jobs /\ k.at = "prove" /\ k.seen = rec /\ k.validAt = None
    BY <1>a, IdleKnows DEF Idle, Jobs, Stages
  <2>5. Knows(k) /\ StartsBehind(k)
    BY <2>2, <2>3, <2>4 DEF Knows, Adopts, Proves, CarriesIntent, StartsBehind, ObservedIsValid
  <2>6. QED
    BY <1>8, <1>a, <2>1, <2>4, <2>5, MovesOn DEF ResumeExpired, cluster, server
<1>9. CASE Unfunded(h)
  <2> DEFINE k == [job[h] EXCEPT !.at = "expire"]
  <2>1. k \in Jobs /\ k.at = "expire" /\ k.seen = job[h].seen /\ k.validAt = job[h].validAt
    BY <1>a DEF Jobs, Stages
  <2>2. Knows(k) /\ StartsBehind(k)
    BY <1>9, <1>a, <2>1 DEF Unfunded, UnfundedNow, Knows, Adopts, Proves, CarriesIntent,
          StartsBehind
  <2>3. QED
    BY <1>9, <1>a, <2>1, <2>2, MovesOn DEF Unfunded, cluster, server
<1>10. CASE Funded(h)
  <2> DEFINE k == [Idle EXCEPT !.at = "read"]
  <2>1. k \in Jobs /\ k.at = "read" /\ k.validAt = None
    BY IdleKnows DEF Idle, Jobs, Stages
  <2>2. Knows(k) /\ StartsBehind(k)
    BY <2>1 DEF Knows, Adopts, Proves, CarriesIntent, StartsBehind, ObservedIsValid
  <2>3. QED
    BY <1>10, <1>a, <2>1, <2>2, MovesOn DEF Funded, cluster, server
<1>11. CASE Expire(h)
  BY <1>11, OpenAssumption DEF Expire, Idle, NoRecord, OpenInv, TypeOK, LandedInPast,
        ActiveIsFunded, ObservedIsValid, Knows, Adopts, Proves, CarriesIntent, NoLanding,
        ServedIsKept, EscrowServedOnce, Trusted, Forgotten, StartsBehind, AdoptionFloor, Slots,
        None, Records, Stages, Do, cluster, server
<1>12. CASE Refused(h)
  BY <1>12, <1>a, IdleKnows, MovesOn DEF Refused, cluster, server
<1>13. CASE Fail(h)
  <2>1. faults' \in 0..MaxFaults
    BY <1>13, <1>a, OpenAssumption DEF Fail
  <2>2. QED
    BY <1>13, <1>a, <2>1, IdleKnows, MovesOn DEF Fail, cluster
<1>14. QED
  BY <1>1, <1>2, <1>3, <1>4, <1>5, <1>6, <1>7, <1>8, <1>9, <1>10, <1>11, <1>12, <1>13 DEF Step

(***************************************************************************)
(* So does everything around the requests.                                 *)
(***************************************************************************)
LEMMA OutsideKeeps ==
  ASSUME OpenInv, Serve \/ Restart \/ Tick \/ Finalize \/ Land \/ Settle
  PROVE  OpenInv'
<1> USE OpenAssumption DEF OpenInv, TypeOK, LandedInPast, ActiveIsFunded, ObservedIsValid,
      Knows, Adopts, Proves, CarriesIntent, NoLanding, ServedIsKept, EscrowServedOnce, Trusted,
      Forgotten, StartsBehind, AdoptionFloor, Slots, None, Records, Stages, cluster, server
<1>1. CASE Serve
  BY <1>1 DEF Serve
<1>2. CASE Restart
  BY <1>2 DEF Restart, Idle, NoRecord
<1>3. CASE Tick
  BY <1>3 DEF Tick
<1>4. CASE Finalize
  BY <1>4 DEF Finalize
<1>5. CASE Land
  BY <1>5 DEF Land
<1>6. CASE Settle
  BY <1>6 DEF Settle
<1>7. QED
  BY <1>1, <1>2, <1>3, <1>4, <1>5, <1>6

(***************************************************************************)
(* The invariant of the open holds in every reachable state: what each     *)
(* request of process_open_inner and resume_pending_open has learned stays *)
(* true until it acts on it.                                               *)
(***************************************************************************)
THEOREM OpenInvariant == Spec => []OpenInv
<1>1. OpenInv /\ [Next]_vars => OpenInv'
  <2> SUFFICES ASSUME OpenInv, [Next]_vars PROVE OpenInv'
    OBVIOUS
  <2>1. CASE Next
    BY <2>1, StepKeeps, OutsideKeeps DEF Next
  <2>2. CASE UNCHANGED vars
    BY <2>2 DEF vars, cluster, server, OpenInv, TypeOK, LandedInPast, ActiveIsFunded,
          ObservedIsValid, Knows, Adopts, Proves, NoLanding, ServedIsKept, EscrowServedOnce,
          Trusted, Forgotten, StartsBehind, AdoptionFloor
  <2>3. QED
    BY <2>1, <2>2
<1>2. QED
  BY OpenInit, <1>1, PTL DEF Spec

(***************************************************************************)
(* Every variable keeps its type.                                          *)
(***************************************************************************)
THEOREM OpenTyped == Spec => []TypeOK
<1>1. OpenInv => TypeOK
  BY DEF OpenInv
<1>2. QED
  BY OpenInvariant, <1>1, PTL

(***************************************************************************)
(* The escrow is served once: no replayed open starts a second watermark   *)
(* on the same deposit.  A server with a memory store that lost its        *)
(* records does not either, as long as validate_open_slot was never        *)
(* answered a slot from before the server's start for an open that had     *)
(* landed.                                                                 *)
(***************************************************************************)
THEOREM EscrowOnce == Spec => []EscrowServedOnce
<1>1. OpenInv => EscrowServedOnce
  BY DEF OpenInv
<1>2. QED
  BY OpenInvariant, <1>1, PTL

(***************************************************************************)
(* What the record says of its open is so: an active one landed after the  *)
(* floor it keeps (submit_and_fetch_open), and one that                    *)
(* resume_pending_open retired as expired never lands.                     *)
(***************************************************************************)
THEOREM RecordHolds == Spec => []RecordTellsFate
<1>1. OpenInv => RecordTellsFate
  BY DEF OpenInv, RecordTellsFate, RetiredNeverLands
<1>2. QED
  BY OpenInvariant, <1>1, PTL

(***************************************************************************)
(* No step retires a channel in use, whichever request raced its           *)
(* activation.                                                             *)
(***************************************************************************)
THEOREM ActiveStays == Spec => ActiveIsNeverRetired
<1>1. OpenInv /\ [Next]_vars => [rec.state = "active" => rec'.state \in {"active", "none"}]_vars
  <2> SUFFICES ASSUME OpenInv, Next, rec.state = "active"
               PROVE  rec'.state \in {"active", "none"}
    BY DEF vars
  <2>1. rec \in Records /\ at > AdoptionFloor(rec)
    BY DEF OpenInv, TypeOK, ActiveIsFunded
  <2>2. ASSUME NEW h \in Handlers, Step(h) \/ Fail(h)
        PROVE  rec'.state \in {"active", "none"}
    <3>1. job[h] \in Jobs /\ Knows(job[h]) /\ at \in Int /\ AdoptionFloor(rec) \in Int
      BY <2>1, OpenAssumption DEF OpenInv, TypeOK, Jobs, Records, AdoptionFloor, Slots, None
    <3>2. ~RetireElsewhere(h)
      BY <2>1, <3>1 DEF RetireElsewhere, SameIntent, Knows, Adopts
    <3>3. ~Expire(h)
      BY <3>1 DEF Expire, Knows, Proves
    <3>4. CASE Activate(h)
      BY <2>1, <3>4 DEF Activate, Records
    <3>5. CASE UNCHANGED rec
      BY <3>5
    <3>6. CASE Reserve(h)
      BY <3>6 DEF Reserve
    <3>7. QED
      BY <2>2, <3>2, <3>3, <3>4, <3>5, <3>6
         DEF Step, Fail, OpenRead, ObserveFloor, ObserveBlockhash, LandedOpen, ResumeExpired,
             Unfunded, Funded, Refused
  <2>3. CASE Serve
    BY <2>1, <2>3 DEF Serve, Records
  <2>4. CASE Restart
    BY <2>4 DEF Restart, NoRecord
  <2>5. CASE Tick \/ Finalize \/ Land \/ Settle
    BY <2>5 DEF Tick, Finalize, Land, Settle
  <2>6. QED
    BY <2>2, <2>3, <2>4, <2>5 DEF Next
<1>2. QED
  BY OpenInvariant, <1>1, PTL DEF Spec, ActiveIsNeverRetired

=============================================================================

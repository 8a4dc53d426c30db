--------------------------- MODULE ChargeInvariants ---------------------------
(***************************************************************************)
(* The inductive invariant behind the safety properties of                 *)
(* ChargeSettlement: how the chains of generations look, and what each     *)
(* handler may rely on at each point of verify_bound.                      *)
(***************************************************************************)
EXTENDS ChargeSettlement

State(c, g) == recs[c][g].state

(***************************************************************************)
(* The chains.  Later generations have no gaps and end at a terminal one;  *)
(* the root is a reservation; a pending record names its credential's      *)
(* signature.                                                              *)
(***************************************************************************)
NoGaps ==
    \A c \in Challenges : \A g, h \in Generations :
        1 <= h /\ h <= g /\ Present(recs[c], g) => Present(recs[c], h)

TerminalEnds ==
    \A c \in Challenges : \A g, h \in Generations :
        State(c, g) \in {"confirmed", "failed"} /\ g < h => State(c, h) = "absent"

RootReserves == \A c \in Challenges : State(c, 0) \in {"absent", "reserved"}

PendingNamesSignature ==
    \A c \in Challenges : \A g \in Generations :
        State(c, g) = "pending" => /\ recs[c][g].digest \in Credentials
                                   /\ recs[c][g].sig = SigOf[recs[c][g].digest]

(***************************************************************************)
(* The handlers.  Nothing a handler found out about its generation can     *)
(* change before the next generation appears.                              *)
(***************************************************************************)
Open(t) == ~Present(Record(t), gen[t] + 1)

Broadcasting == {"send", "send_unchecked", "await"}
Withdrawing == {"abandon", "release_pending"}

HoldsCredential(t) == pc[t] # "idle" => cred[t] \in Credentials

StartsAtRoot(t) ==
    pc[t] \in {"idle", "check_orphan", "append_root", "recheck", "delete_root"}
      => gen[t] = 0

InRange(t) ==
    /\ pc[t] = "takeover" \/ checked[t] => gen[t] < MaxGenerations
    /\ checked[t] => pc[t] \in Ops
    /\ gen[t] > 0 => Present(Record(t), gen[t])

DeletesOrphanOnly(t) == pc[t] = "delete_root" => Present(Record(t), 1)

ReservationHeld(t) ==
    pc[t] \in {"recheck", "settle", "mark_pending"}
      /\ gen[t] < MaxGenerations /\ Open(t)
      => /\ Record(t)[gen[t]].state = "reserved"
         /\ Record(t)[gen[t]].digest = cred[t]

NothingPending(t) ==
    pc[t] \in {"settle", "mark_pending", "unclaim", "consume"}
      => Record(t)[gen[t]].state # "pending"

TakeOverOpen(t) ==
    pc[t] = "takeover" /\ Open(t) => Record(t)[gen[t]].state = "reserved"

CheckedIsOwned(t) ==
    checked[t] /\ Open(t) => Owned(pc[t], Record(t)[gen[t]], Sig(t))

PendingHeld(t) ==
    pc[t] \in Broadcasting \cup Withdrawing \cup {"reconcile"} =>
        /\ Record(t)[gen[t]].state = "pending"
        /\ Record(t)[gen[t]].sig = Sig(t)

HandlerInv(t) ==
    /\ HoldsCredential(t)
    /\ StartsAtRoot(t)
    /\ InRange(t)
    /\ DeletesOrphanOnly(t)
    /\ ReservationHeld(t)
    /\ NothingPending(t)
    /\ TakeOverOpen(t)
    /\ CheckedIsOwned(t)
    /\ PendingHeld(t)

(***************************************************************************)
(* The fence.  One handler per pending generation may broadcast or         *)
(* withdraw it, and withdrawing means it was never handed over.            *)
(***************************************************************************)
SendKey(t) == <<Chal(t), gen[t], Sig(t)>>

ExclusiveBroadcast ==
    \A t, u \in Threads :
        /\ pc[t] \in Broadcasting \cup Withdrawing
        /\ pc[u] \in Broadcasting \cup Withdrawing
        /\ Chal(t) = Chal(u) /\ gen[t] = gen[u]
        => t = u

NotHandedOver ==
    \A t \in Threads :
        \/ pc[t] = "send" /\ ~maybeSent[t]
        \/ pc[t] \in Withdrawing
        => SendKey(t) \notin sends

(***************************************************************************)
(* A generation that was or may be handed over is followed by nothing but  *)
(* its outcome, and by a failure only when the cluster failed it.          *)
(***************************************************************************)
Settled(c, g, s) ==
    /\ State(c, g) = "pending" /\ recs[c][g].sig = s
    /\ g < MaxGenerations =>
         /\ State(c, g + 1) \in {"absent", "confirmed", "failed"}
         /\ State(c, g + 1) = "failed" => chain[s] = "failed"

SendsSettled == \A e \in sends : Settled(e[1], e[2], e[3])

SendersSettled ==
    \A t \in Threads :
        pc[t] \in Broadcasting => Settled(Chal(t), gen[t], Sig(t))

(***************************************************************************)
(* A handler about to record a failure for a pending record either saw the *)
(* transaction fail or knows that nobody sent it or will.                  *)
(***************************************************************************)
FailureJustified ==
    \A t \in Threads :
        pc[t] = "mark_failed" /\ Record(t)[gen[t]].state = "pending" =>
            \/ chain[Sig(t)] = "failed" /\ Record(t)[gen[t]].sig = Sig(t)
            \/ /\ \A e \in sends : ~(e[1] = Chal(t) /\ e[2] = gen[t])
               /\ \A u \in Threads :
                    pc[u] \in Broadcasting /\ Chal(u) = Chal(t) => gen[u] # gen[t]

(***************************************************************************)
(* The inductive invariant.                                                *)
(***************************************************************************)
ChainInv == NoGaps /\ TerminalEnds /\ RootReserves /\ PendingNamesSignature

FenceInv ==
    ExclusiveBroadcast /\ NotHandedOver /\ SendsSettled /\ SendersSettled
      /\ FailureJustified

ChargeInv ==
    TypeOK /\ ChainInv /\ (\A t \in Threads : HandlerInv(t)) /\ FenceInv

-----------------------------------------------------------------------------
(***************************************************************************)
(* The receipts.  A challenge is anchored to the credential of its first   *)
(* written generation, the root while nothing follows it: every later      *)
(* generation carries that digest, and every handler past reserve works    *)
(* for that credential.                                                    *)
(***************************************************************************)
Anchor(c, k) ==
    IF Present(recs[c], 1) THEN recs[c][1].digest = k
    ELSE Present(recs[c], 0) /\ recs[c][0].digest = k

OneDigest ==
    \A c \in Challenges : \A g \in Generations :
        g > 0 /\ Present(recs[c], g) => recs[c][g].digest = recs[c][1].digest

PendingIsPull ==
    \A c \in Challenges : \A g \in Generations :
        State(c, g) = "pending" => recs[c][g].digest \in Pull

Reserving == {"idle", "check_orphan", "append_root", "recheck", "delete_root", "classify"}

Anchored(t) == pc[t] \notin Reserving => Anchor(Chal(t), cred[t])

PullOnly == Broadcasting \cup Withdrawing
              \cup {"mark_pending", "unclaim", "reconcile", "confirm_pending"}

InMode(t) ==
    /\ pc[t] \in PullOnly => cred[t] \in Pull
    /\ pc[t] = "consume" => cred[t] \notin Pull

(***************************************************************************)
(* Whoever is on the way to a receipt saw the transaction land.            *)
(***************************************************************************)
SawLanding(t) ==
    pc[t] \in {"consume", "mark_confirmed", "confirm_pending", "grant"}
      => chain[Sig(t)] = "ok"

ReceiptHandler(t) == Anchored(t) /\ InMode(t) /\ SawLanding(t)

(***************************************************************************)
(* The handlers that took a signature in the ledger and still act on it:   *)
(* pull until it is sent or handed back, push until the receipt is out.    *)
(* Only they may hand a signature back, so there is one at a time.         *)
(***************************************************************************)
HoldsClaim(t) ==
    \/ pc[t] \in {"mark_pending", "unclaim", "send", "send_unchecked", "abandon"}
    \/ pc[t] \in {"mark_confirmed", "grant"} /\ cred[t] \notin Pull

ClaimsExclusive ==
    \A t \in Threads : HoldsClaim(t) =>
        /\ ledger[Sig(t)] = "consumed"
        /\ \A u \in Threads : HoldsClaim(u) /\ Sig(u) = Sig(t) => u = t

(***************************************************************************)
(* A signature that was handed to a node stays consumed: its sender is the *)
(* only one that could hand it back, and does not.                         *)
(***************************************************************************)
SentStaysConsumed ==
    \A e \in sends :
        /\ ledger[e[3]] = "consumed"
        /\ \A t \in Threads : HoldsClaim(t) /\ Sig(t) = e[3] =>
             pc[t] \in {"send", "send_unchecked"} /\ e = SendKey(t)

LandedWasSubmitted ==
    \A s \in Signatures :
        /\ chain[s] # "none" => s \in inflight
        /\ s \in inflight => s \in SelfSubmit \/ \E e \in sends : e[3] = s

(***************************************************************************)
(* Each receipt used up what bought it: a pull receipt the one confirmed   *)
(* record of its challenge, a push receipt the claim on its signature.     *)
(***************************************************************************)
GrantsOnce ==
    \A t \in Threads : pc[t] = "grant" /\ cred[t] \in Pull =>
        /\ State(Chal(t), gen[t]) = "confirmed"
        /\ \A u \in Threads :
             pc[u] = "grant" /\ cred[u] \in Pull /\ Chal(u) = Chal(t) => u = t

UsedUp(c, k) ==
    IF k \in Pull
    THEN /\ \E g \in Generations : State(c, g) = "confirmed"
         /\ \A t \in Threads : ~(pc[t] = "grant" /\ cred[t] \in Pull /\ Chal(t) = c)
    ELSE /\ ledger[SigOf[k]] = "consumed"
         /\ \A t \in Threads : ~(HoldsClaim(t) /\ Sig(t) = SigOf[k])

ReceiptsUsedUp ==
    \A i \in DOMAIN receipts : \E k \in Credentials :
        /\ receipts[i] = [chal |-> ChallengeOf[k], sig |-> SigOf[k]]
        /\ Anchor(ChallengeOf[k], k)
        /\ chain[SigOf[k]] = "ok"
        /\ UsedUp(ChallengeOf[k], k)

ReceiptInv ==
    /\ OneDigest /\ PendingIsPull
    /\ \A t \in Threads : ReceiptHandler(t)
    /\ ClaimsExclusive /\ SentStaysConsumed /\ LandedWasSubmitted
    /\ GrantsOnce /\ ReceiptsUsedUp

(***************************************************************************)
(* What the charge_shared run shows to be needed: no two credentials name  *)
(* the signature of a pull credential, and only the server, as fee payer,  *)
(* submits it.                                                             *)
(***************************************************************************)
PullIsUnshared ==
    \A k \in Pull, l \in Credentials : SigOf[l] = SigOf[k] => l = k

OnlyServerSubmits == \A k \in Pull : SigOf[k] \notin SelfSubmit

=============================================================================

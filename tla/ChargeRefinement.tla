--------------------------- MODULE ChargeRefinement ---------------------------
(***************************************************************************)
(* ChargeSettlement implements ChargeLedger: the phase of a challenge is   *)
(* the state of the last generation written for it.                        *)
(***************************************************************************)
EXTENDS ChargeSettlement

Latest(generations) ==
    LET written == {g \in Generations : Present(generations, g)}
    IN IF written = {} THEN Absent
       ELSE generations[CHOOSE g \in written : \A h \in written : h <= g]

Phase(state) == IF state = "absent" THEN "free" ELSE state

Ledger == INSTANCE ChargeLedger WITH
    phase   <- [c \in Challenges |-> Phase(Latest(recs[c]).state)],
    payment <- [c \in Challenges |-> Latest(recs[c]).sig],
    exposed <- {e[1] : e \in sends},
    outcome <- chain,
    granted <- {<<receipts[i].chal, receipts[i].sig>> : i \in DOMAIN receipts}

(***************************************************************************)
(* Every step of the handlers, the cluster and the clock is a step of the  *)
(* abstract ledger or leaves it unchanged.  A repeated receipt is a        *)
(* stuttering step of the mapping, which OneReceiptPerChallenge excludes.  *)
(***************************************************************************)
ImplementsLedger == Ledger!Spec

(***************************************************************************)
(* Fairness.  Handlers run on; a client whose charge is unresolved keeps   *)
(* presenting its credential; and the node, however it lags, in the end    *)
(* answers a status query about a transaction that landed.  Landing itself *)
(* is not assumed.                                                         *)
(***************************************************************************)
Presented(k) == \E t \in Threads : VerifyBound(t, k) \/ VerifyBoundExpired(t, k)

StatusSeen(t) == Reconcile(t) /\ pc'[t] # "idle"

Fairness ==
    /\ \A t \in Threads : WF_vars(Handler(t)) /\ SF_vars(StatusSeen(t))
    /\ \A k \in Credentials : SF_vars(Presented(k))

FairSpec == Spec /\ Fairness

(***************************************************************************)
(* A payment the server broadcast and the cluster executed is recorded as  *)
(* confirmed in the end, although the handler that sent it may have        *)
(* crashed, timed out or lost the node's answer, and although the          *)
(* challenge may have expired in the meantime.  One that landed and failed *)
(* is recorded as failed, which is what allows the client to pay again.    *)
(***************************************************************************)
Recorded(outcome, state) ==
    \A c \in Challenges, s \in Signatures :
        (\E g \in Generations : <<c, g, s>> \in sends) /\ chain[s] = outcome
          ~> \E g \in Generations : recs[c][g].state = state

OutcomeIsRecorded == Recorded("ok", "confirmed") /\ Recorded("failed", "failed")

(***************************************************************************)
(* Every presentation is answered: no handler is caught for ever in        *)
(* reserve's classify-and-take-over loop or in the send loop.              *)
(***************************************************************************)
EveryRequestIsAnswered == \A t \in Threads : pc[t] # "idle" ~> pc[t] = "idle"

=============================================================================

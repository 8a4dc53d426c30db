-------------------------------- MODULE MCX402 --------------------------------
(***************************************************************************)
(* The two x402 schemes that settle one payment: two requests that present *)
(* an `exact` payment again and again, and two that present an `upto`      *)
(* authorization.  The schemes share no state, so a behaviour is about one *)
(* of them and finds the payment of the other spent.                       *)
(***************************************************************************)
EXTENDS ExactSettlement, UptoSettlement, TLC

CONSTANTS r1, r2, u1, u2, s1, s2

VARIABLE scheme

ExactSpent ==
    /\ entry = "consumed" /\ chain = "ok" /\ inflight = FALSE /\ fresh = FALSE
    /\ pc = [r \in Requests |-> "idle"]
    /\ prior = [r \in Requests |-> FALSE] /\ neverSent = [r \in Requests |-> FALSE]
    /\ crashes = 0 /\ sentBy = {"here"} /\ served = 1 /\ calm = TRUE

UptoSpent ==
    /\ channel = [status |-> "distributed", settled |-> 0, by |-> "payer"]
    /\ openTx = "landed" /\ host = [r \in UptoRequests |-> s1] /\ lagged = FALSE
    /\ stage = [r \in UptoRequests |-> "over"] /\ busy = {}
    /\ actual = [r \in UptoRequests |-> 0]
    /\ fate = [r \in UptoRequests |-> [i \in Tries |-> "unsent"]]
    /\ unknown = [r \in UptoRequests |-> {}] /\ round = [r \in UptoRequests |-> 0]
    /\ verdict = [r \in UptoRequests |-> "none"]
    /\ usable = TRUE /\ late = FALSE /\ payout = FALSE
    /\ stopped = FALSE /\ faults = 0

(***************************************************************************)
(* Requests that reach one server meet MaxFaults faults, those that reach  *)
(* two meet one.                                                           *)
(***************************************************************************)
MCInit ==
    \/ scheme = "exact" /\ Init /\ UptoSpent
    \/ /\ scheme = "upto" /\ ExactSpent /\ UptoInit /\ host[u1] = s1
       /\ faults = IF host[u2] = s1 THEN MaxFaults ELSE 1

MCNext ==
    /\ UNCHANGED scheme
    /\ \/ scheme = "exact" /\ Next /\ UNCHANGED uptoVars
       \/ scheme = "upto" /\ UptoNext /\ UNCHANGED vars

MCSpec ==
    /\ MCInit /\ [][MCNext]_<<vars, uptoVars, scheme>>
    /\ (scheme = "exact" /\ Fairness) \/ (scheme = "upto" /\ UptoFairness)

=============================================================================

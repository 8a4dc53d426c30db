----------------------------- MODULE ChargeLedger -----------------------------
(***************************************************************************)
(* What the charge server promises about each challenge, without handlers, *)
(* generations, leases or crashes: a challenge is reserved, its payment is *)
(* recorded as pending before anyone may submit it, an unexposed payment   *)
(* may be withdrawn, an exposed one only ends the way the cluster ended    *)
(* it, and a landed payment buys one receipt for one challenge.            *)
(***************************************************************************)
CONSTANTS Challenges, Signatures, NoSig

VARIABLES
    phase,     \* "free", "reserved", "pending", "confirmed" or "failed"
    payment,   \* the signature recorded for each challenge, or NoSig
    exposed,   \* challenges whose recorded payment was handed to a node
    outcome,   \* what the cluster did with each signature
    granted    \* the pairs <<challenge, signature>> that bought a receipt

vars == <<phase, payment, exposed, outcome, granted>>

Init ==
    /\ phase = [c \in Challenges |-> "free"]
    /\ payment = [c \in Challenges |-> NoSig]
    /\ exposed = {}
    /\ outcome = [s \in Signatures |-> "none"]
    /\ granted = {}

Move(c, from, to, s) ==
    /\ phase[c] \in from
    /\ phase' = [phase EXCEPT ![c] = to]
    /\ payment' = [payment EXCEPT ![c] = s]
    /\ UNCHANGED <<exposed, outcome, granted>>

Reserve(c) == Move(c, {"free", "reserved"}, "reserved", NoSig)

Pend(c, s) == Move(c, {"reserved"}, "pending", s)

Withdraw(c) == c \notin exposed /\ Move(c, {"pending"}, "reserved", NoSig)

Expose(c) ==
    /\ \/ phase[c] \in {"pending", "confirmed"}
       \/ phase[c] = "failed" /\ \E s \in Signatures : outcome[s] = "failed"
    /\ exposed' = exposed \cup {c}
    /\ UNCHANGED <<phase, payment, outcome, granted>>

Confirm(c, s) ==
    /\ outcome[s] = "ok"
    /\ phase[c] = "pending" => payment[c] = s
    /\ Move(c, {"reserved", "pending"}, "confirmed", s)

Fail(c) ==
    /\ c \in exposed => outcome[payment[c]] = "failed"
    /\ Move(c, {"reserved", "pending"}, "failed", NoSig)

Grant(c, s) ==
    /\ outcome[s] = "ok"
    /\ \A p \in granted : p[1] # c /\ p[2] # s
    /\ granted' = granted \cup {<<c, s>>}
    /\ UNCHANGED <<phase, payment, exposed, outcome>>

Land(s) ==
    /\ outcome[s] = "none"
    /\ \E o \in {"ok", "failed"} : outcome' = [outcome EXCEPT ![s] = o]
    /\ UNCHANGED <<phase, payment, exposed, granted>>

Next ==
    \/ \E c \in Challenges : Reserve(c) \/ Withdraw(c) \/ Expose(c) \/ Fail(c)
    \/ \E c \in Challenges, s \in Signatures :
         Pend(c, s) \/ Confirm(c, s) \/ Grant(c, s)
    \/ \E s \in Signatures : Land(s)

Spec == Init /\ [][Next]_vars

=============================================================================

---------------------------- MODULE SignatureClaims ----------------------------
(***************************************************************************)
(* What the consumed-signature ledger promises about one signature: it is  *)
(* claimed in one step while free, a claim may be released, and a claimed  *)
(* signature authorizes one response.  A replica of the previous release   *)
(* claims and serves in one go.                                            *)
(***************************************************************************)
CONSTANTS Parties   \* whoever may be served for the signature

VARIABLES
    claim,    \* "free", "held" or "spent"
    winner    \* the parties served

vars == <<claim, winner>>

Init == claim = "free" /\ winner = {}

Take == claim = "free" /\ claim' = "held" /\ UNCHANGED winner

Release == claim = "held" /\ claim' = "free" /\ UNCHANGED winner

Spend(p) ==
    /\ claim \in {"free", "held"} /\ claim' = "spent"
    /\ winner' = {p}

Next == Take \/ Release \/ \E p \in Parties : Spend(p)

Spec == Init /\ [][Next]_vars

=============================================================================

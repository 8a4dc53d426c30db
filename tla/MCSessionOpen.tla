----------------------------- MODULE MCSessionOpen -----------------------------
(***************************************************************************)
(* Two handlers on one open, with the blockhash expiring inside the run.   *)
(***************************************************************************)
EXTENDS SessionOpen

CONSTANTS h1, h2

=============================================================================

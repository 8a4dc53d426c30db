------------------------------- MODULE MCSession -------------------------------
(***************************************************************************)
(* Two requests in flight on one session channel.                          *)
(***************************************************************************)
EXTENDS SessionAccounting, TLC

CONSTANTS h1, h2, k1, k2, d1, t1, t2

Alike == Permutations(Handlers) \cup Permutations(TopUps) \cup Permutations(Keys)

=============================================================================

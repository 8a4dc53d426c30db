------------------------------- MODULE MCBatch -------------------------------
(***************************************************************************)
(* Small instances of BatchSettlement.                                     *)
(***************************************************************************)
EXTENDS BatchSettlement, TLC

CONSTANTS r1, r2, f1, q1, k1

(***************************************************************************)
(* Requests are interchangeable.                                           *)
(***************************************************************************)
RequestSymmetry == Permutations({r1, r2})

=============================================================================

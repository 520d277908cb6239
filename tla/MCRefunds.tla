----------------------------- MODULE MCRefunds -----------------------------
(***************************************************************************)
(* Small instances of Refunds for TLC.                                     *)
(***************************************************************************)
EXTENDS Refunds, TLC

Symmetry == Permutations(Sessions) \cup Permutations(Refunds)
=============================================================================

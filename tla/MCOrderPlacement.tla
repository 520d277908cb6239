-------------------------- MODULE MCOrderPlacement --------------------------
(***************************************************************************)
(* Two orders, of which the smaller limit covers one, and two handlers for *)
(* notifications that are delivered again.                                 *)
(***************************************************************************)
EXTENDS OrderPlacement, TLC

Interchangeable == Permutations(Hooks) \cup Permutations(Disputes)
=============================================================================

-------------------------- MODULE MCCreditAccount --------------------------
(***************************************************************************)
(* A small instance of CreditAccount for TLC: requests of two sessions on  *)
(* one organisation's wallet.                                              *)
(***************************************************************************)
EXTENDS CreditAccount, TLC

CONSTANTS s1, s2, k1, none

\* Sessions are interchangeable.
SessionSymmetry == Permutations({s1, s2})
=============================================================================

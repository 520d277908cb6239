-------------------------- MODULE MCCreditSettings -------------------------
(***************************************************************************)
(* A small instance of CreditSettings for TLC.                             *)
(***************************************************************************)
EXTENDS CreditSettings

CONSTANTS o1, o2, limit, none
=============================================================================

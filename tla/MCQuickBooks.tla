---------------------------- MODULE MCQuickBooks ----------------------------
(***************************************************************************)
(* Two jobs at a time and a few requests.                                  *)
(***************************************************************************)
EXTENDS QuickBooks
=============================================================================

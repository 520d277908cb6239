---------------------------- MODULE MCAuditChain ---------------------------
(***************************************************************************)
(* A small instance of AuditChain for TLC: three transactions, two of them *)
(* on one machine.                                                         *)
(***************************************************************************)
EXTENDS AuditChain, TLC

CONSTANTS s1, s2, s3, none, MaxSkew

MCHost == (s1 :> 1) @@ (s2 :> 1) @@ (s3 :> 2)
MCSkew == (1 :> 0) @@ (2 :> MaxSkew)
=============================================================================

------------------------------ MODULE MCOrders ------------------------------
(***************************************************************************)
(* Instances of Orders for TLC: packages p1 and p2 go to stop t1, or p2 to *)
(* a stop t2 of its own.                                                   *)
(***************************************************************************)
EXTENDS Orders, TLC

CONSTANTS p1, p2, t1, t2

OneStop == p1 :> t1 @@ p2 :> t1
TwoStops == p1 :> t1 @@ p2 :> t2

Symmetry == Permutations(Sessions) \cup Permutations({p1, p2})

AllKinds ==
    {"cancel", "edit", "reschedule", "initiate_return", "found", "resolve",
     "pickup_scan", "master_label", "deliver", "return_leg", "missing"}
ReturnKinds == {"deliver", "initiate_return", "resolve"}
=============================================================================

------------------------- MODULE MCStatusAutomation -------------------------
(***************************************************************************)
(* Two sessions, one package and one stop; a global rule, the customised   *)
(* rule that hides it, and a rule for stops that needs the pickup.         *)
(***************************************************************************)
EXTENDS StatusAutomation, TLC

CONSTANTS global, custom, stops

MCRule ==
    [r \in Rules |->
        CASE r = global -> [onPackage |-> TRUE, trigger |-> "A", new |-> "B", priority |-> 1,
                            afterPickup |-> FALSE, parent |-> None]
          [] r = custom -> [onPackage |-> TRUE, trigger |-> "A", new |-> "A", priority |-> 2,
                            afterPickup |-> FALSE, parent |-> global]
          [] r = stops  -> [onPackage |-> FALSE, trigger |-> "A", new |-> "B", priority |-> 3,
                            afterPickup |-> TRUE, parent |-> None]]

\* Sessions are interchangeable.
MCSymmetry == Permutations(Sessions)
=============================================================================

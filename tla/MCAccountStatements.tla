------------------------ MODULE MCAccountStatements ------------------------
(***************************************************************************)
(* Months of two days; a schedule every three days, a monthly one, and one *)
(* that runs once, for the period people ask for too.                      *)
(***************************************************************************)
EXTENDS AccountStatements

CONSTANTS every, monthly, once

MCMonthStarts == {-2, 0, 2, 4}
MCQuarterStarts == {-2, 2}

MCConfig ==
    [s \in Schedules |->
        CASE s = every -> [freq |-> "INTERVAL", from |-> 0, to |-> 5, interval |-> 3]
          [] s = monthly -> [freq |-> "MONTHLY_FIRST", from |-> 0, to |-> 2, interval |-> 0]
          [] s = once -> [freq |-> "ONCE", from |-> 0, to |-> 1, interval |-> 0]]

MCUserPeriods == {<<0, 1>>}
=============================================================================

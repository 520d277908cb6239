--------------------------- MODULE CreditSettings --------------------------
(***************************************************************************)
(* Scheduled credit limits and payment terms (app/modules/                 *)
(* org_credit_settings): administrators set a value for today or for a     *)
(* later date, and a daily job applies what has come due for every         *)
(* organisation in one transaction.                                        *)
(*                                                                         *)
(* The job lists the organisations without a lock, then locks and handles  *)
(* them one by one, and publishes everything at its commit; one exception  *)
(* undoes the whole run.  Administrators change rows the job has not       *)
(* locked yet at any time in between.                                      *)
(***************************************************************************)
EXTENDS Integers, Sequences, FiniteSets

CONSTANTS
    Orgs,        \* organisations with a credit account
    Kinds,       \* the settings that can be scheduled: limit, payment terms
    Values,      \* values a setting can take
    NoValue,     \* the column IS NULL
    MaxDay,      \* bound: the last date that can be named
    MaxRows,     \* bound: history rows per organisation and setting
    MaxCrashes   \* bound: runs of the job lost to a crash

ASSUME SettingsAssumption ==
    /\ NoValue \notin Values
    /\ MaxDay \in Nat /\ MaxRows \in Nat /\ MaxCrashes \in Nat

VARIABLES
    today,    \* current date; it stays at MaxDay when the bound is reached
    ran,      \* the job has been started today
    value,    \* value[o][k]: the setting in force
    pending,  \* pending[o][k]: the scheduled value and its date, or NoValue
    hist,     \* hist[o][k]: adjustment history rows, in insertion order
    job,      \* the running job: organisations listed and organisations locked
    crashes

settingsVars == <<today, ran, value, pending, hist, job, crashes>>

Days == 0..MaxDay
Pending == [v : Values, eff : Days]
HistRow == [v : Values, eff : Days, status : {"SCHEDULED", "APPLIED"}]

NoJob == [on |-> FALSE, todo |-> {}, done |-> {}]

SettingsInit ==
    /\ today = 0
    /\ ran = FALSE
    /\ value = [o \in Orgs |-> [k \in Kinds |-> NoValue]]
    /\ pending = [o \in Orgs |-> [k \in Kinds |-> NoValue]]
    /\ hist = [o \in Orgs |-> [k \in Kinds |-> << >>]]
    /\ job = NoJob
    /\ crashes = 0

-----------------------------------------------------------------------------
(* Helpers *)

Due(o, k) == pending[o][k] # NoValue /\ pending[o][k].eff <= today

\* find_scheduled_by_account_and_effective_date, as the set of rows it matches
Scheduled(o, k, eff) ==
    {i \in 1..Len(hist[o][k]) : hist[o][k][i].status = "SCHEDULED" /\ hist[o][k][i].eff = eff}

\* The row of o is locked by the job.
Locked(o) == o \in job.done

\* scalar_one_or_none raises when more than one row matches.
Ambiguous(o) ==
    \E k \in Kinds : Due(o, k) /\ Cardinality(Scheduled(o, k, pending[o][k].eff)) > 1

AppendRow(o, k, row) == hist' = [hist EXCEPT ![o][k] = Append(@, row)]

-----------------------------------------------------------------------------
(* Administrators *)

\* patch_credit_limit or patch_payment_terms with a date that has come
PatchNow(o, k, v, eff) ==
    /\ ~Locked(o)
    /\ Len(hist[o][k]) < MaxRows
    /\ eff <= today
    /\ value' = [value EXCEPT ![o][k] = v]
    /\ pending' = [pending EXCEPT ![o][k] = NoValue]
    /\ AppendRow(o, k, [v |-> v, eff |-> eff, status |-> "APPLIED"])
    /\ UNCHANGED <<today, ran, job, crashes>>

\* Mutant: a second value for the same date reuses the row of the first.
PatchLaterReusingRow(o, k, v, eff) ==
    /\ ~Locked(o)
    /\ Len(hist[o][k]) < MaxRows
    /\ eff > today
    /\ pending' = [pending EXCEPT ![o][k] = [v |-> v, eff |-> eff]]
    /\ IF Scheduled(o, k, eff) = {}
       THEN AppendRow(o, k, [v |-> v, eff |-> eff, status |-> "SCHEDULED"])
       ELSE UNCHANGED hist
    /\ UNCHANGED <<today, ran, value, job, crashes>>

\* patch_credit_limit or patch_payment_terms with a future date; a value
\* scheduled earlier is replaced and its history row stays as it is
PatchLater(o, k, v, eff) ==
    /\ ~Locked(o)
    /\ Len(hist[o][k]) < MaxRows
    /\ eff > today
    /\ pending' = [pending EXCEPT ![o][k] = [v |-> v, eff |-> eff]]
    /\ AppendRow(o, k, [v |-> v, eff |-> eff, status |-> "SCHEDULED"])
    /\ UNCHANGED <<today, ran, value, job, crashes>>

\* provision_account_on_approval writes limit and terms, and leaves what is
\* scheduled and the history alone
Provision(o, v) ==
    /\ ~Locked(o)
    /\ value' = [value EXCEPT ![o] = [k \in Kinds |-> v]]
    /\ UNCHANGED <<today, ran, pending, hist, job, crashes>>

\* Midnight.  Dates are bounded; the days after MaxDay are MaxDay again.
Tick ==
    /\ ran
    /\ ~job.on
    /\ today' = IF today < MaxDay THEN today + 1 ELSE today
    /\ ran' = FALSE
    /\ UNCHANGED <<value, pending, hist, job, crashes>>

-----------------------------------------------------------------------------
(* The daily job apply_scheduled_credit_settings_task *)

\* Mutant: what falls due today is left for tomorrow.
ListOverdue ==
    /\ ~ran
    /\ ran' = TRUE
    /\ job' = [on |-> TRUE, done |-> {},
               todo |-> {o \in Orgs : \E k \in Kinds : Due(o, k) /\ pending[o][k].eff < today}]
    /\ UNCHANGED <<today, value, pending, hist, crashes>>

\* list_org_ids_with_due_pending_settings, without a lock
ListDue ==
    /\ ~ran
    /\ ran' = TRUE
    /\ job' = [on |-> TRUE, todo |-> {o \in Orgs : \E k \in Kinds : Due(o, k)}, done |-> {}]
    /\ UNCHANGED <<today, value, pending, hist, crashes>>

\* One turn of the loop: lock the row and look up the history rows.  What
\* the turn writes is determined here and published by the commit.
HandleOrg(o) ==
    /\ o \in job.todo
    /\ ~Ambiguous(o)
    /\ job' = [job EXCEPT !.todo = @ \ {o}, !.done = @ \cup {o}]
    /\ UNCHANGED <<today, ran, value, pending, hist, crashes>>

\* The lookup raises MultipleResultsFound: the run is rolled back
FailOnOrg(o) ==
    /\ o \in job.todo
    /\ Ambiguous(o)
    /\ job' = NoJob
    /\ UNCHANGED <<today, ran, value, pending, hist, crashes>>

\* Mutant: every row whose date has come is marked.
MarkAllDue(o, k, i) ==
    IF Due(o, k) /\ hist[o][k][i].eff <= today
    THEN [hist[o][k][i] EXCEPT !.status = "APPLIED"]
    ELSE hist[o][k][i]

\* A history row after the job has handled organisation o: the one row it
\* found is marked, and the value and the pending columns follow.
Mark(o, k, i) ==
    IF Due(o, k) /\ Scheduled(o, k, pending[o][k].eff) = {i}
    THEN [hist[o][k][i] EXCEPT !.status = "APPLIED"]
    ELSE hist[o][k][i]

CommitJob ==
    /\ job.on
    /\ job.todo = {}
    /\ value' = [o \in Orgs |-> [k \in Kinds |->
                    IF Locked(o) /\ Due(o, k) THEN pending[o][k].v ELSE value[o][k]]]
    /\ pending' = [o \in Orgs |-> [k \in Kinds |->
                    IF Locked(o) /\ Due(o, k) THEN NoValue ELSE pending[o][k]]]
    /\ hist' = [o \in Orgs |-> [k \in Kinds |->
                    IF Locked(o)
                    THEN [i \in 1..Len(hist[o][k]) |-> Mark(o, k, i)]
                    ELSE hist[o][k]]]
    /\ job' = NoJob
    /\ UNCHANGED <<today, ran, crashes>>

\* The worker dies; the database rolls the transaction back
Crash ==
    /\ job.on
    /\ crashes < MaxCrashes
    /\ crashes' = crashes + 1
    /\ job' = NoJob
    /\ UNCHANGED <<today, ran, value, pending, hist>>

-----------------------------------------------------------------------------
Admin == \E o \in Orgs, k \in Kinds, v \in Values, eff \in Days :
            PatchNow(o, k, v, eff) \/ PatchLater(o, k, v, eff)

JobStep ==
    \/ ListDue
    \/ \E o \in Orgs : HandleOrg(o) \/ FailOnOrg(o)
    \/ CommitJob

SettingsNext ==
    \/ Admin
    \/ \E o \in Orgs, v \in Values : Provision(o, v)
    \/ Tick
    \/ JobStep
    \/ Crash

SettingsSpec == SettingsInit /\ [][SettingsNext]_settingsVars

\* Days pass, and the scheduler starts the job and the worker runs it.
FairSpec == SettingsSpec /\ WF_settingsVars(Tick) /\ WF_settingsVars(JobStep)

-----------------------------------------------------------------------------
(* Properties *)

\* Every variable has the type the tables give it.
SettingsTypeOK ==
    /\ today \in Days
    /\ ran \in BOOLEAN
    /\ value \in [Orgs -> [Kinds -> Values \cup {NoValue}]]
    /\ pending \in [Orgs -> [Kinds -> Pending \cup {NoValue}]]
    /\ \A o \in Orgs, k \in Kinds : hist[o][k] \in Seq(HistRow)
    /\ job \in [on : BOOLEAN, todo : SUBSET Orgs, done : SUBSET Orgs]
    /\ crashes \in 0..MaxCrashes

\* Whatever is pending has its own SCHEDULED history row, so that the job can
\* record that it was applied, also after replacements and concurrent runs.
PendingHasRow ==
    \A o \in Orgs, k \in Kinds : pending[o][k] # NoValue =>
        \E i \in Scheduled(o, k, pending[o][k].eff) : hist[o][k][i].v = pending[o][k].v

\* A history row that the job turns to APPLIED tells the truth: its value is
\* the one in force after the commit, whatever administrators did between the
\* listing and the lock, and its date has come.
AppliedRowIsTrue ==
    [][\A o \in Orgs, k \in Kinds : \A i \in 1..Len(hist[o][k]) :
         hist[o][k][i].status = "SCHEDULED" /\ hist'[o][k][i].status = "APPLIED" =>
            value'[o][k] = hist[o][k][i].v /\ hist[o][k][i].eff <= today]_settingsVars

\* As long as no organisation has two SCHEDULED rows for the date it waits
\* for, every due setting is applied (or replaced by an administrator).
DueAppliedIfUnambiguous ==
    [](\A o \in Orgs : ~Ambiguous(o)) =>
        \A o \in Orgs, k \in Kinds : Due(o, k) ~> ~Due(o, k)

\* A due setting is applied by the daily job (or replaced), whatever other
\* settings were scheduled: what test_apply_due_scheduled_promotes_limit says.
DueApplied == \A o \in Orgs, k \in Kinds : Due(o, k) ~> ~Due(o, k)
=============================================================================

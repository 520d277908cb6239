------------------------- MODULE AccountStatements -------------------------
(***************************************************************************)
(* Account statements of one organisation                                  *)
(* (app/modules/account_statements): statements made on request and by     *)
(* schedules, the job that renders their PDF and stores it, the job that   *)
(* mails them, and the cron that runs the schedules that are due, all of   *)
(* them in one transaction.                                                *)
(*                                                                         *)
(* Both jobs are enqueued before the transaction that inserts their        *)
(* statement commits, so they can start before the row is there and        *)
(* survive a rollback.  A day has three parts: before 06:00, when the      *)
(* schedules fall due, and two after it.                                   *)
(***************************************************************************)
EXTENDS Integers, FiniteSets, FiniteSetsExt

CONSTANTS
    Schedules,
    Config,         \* frequency, valid_from, valid_to and interval_days of each
    MonthStarts, QuarterStarts,     \* the calendar
    UserPeriods,    \* periods <<start, end>> people ask for
    MaxPeriodDays,
    None,
    LastDay,        \* bound: days
    LastCreation,   \* bound: the last day on which schedules are created
    MaxRequests,    \* bound: requests that create, mail or delete a statement
    MaxStatements,  \* bound: statements inserted, rolled back ones included
    MaxFaults,      \* bound: crashes, lost jobs, failures of PDF, store or SMTP
    MaxTries        \* LowWorkerSettings.max_tries

ASSUME AccountStatementsAssumption ==
    /\ MonthStarts \subseteq Int /\ QuarterStarts \subseteq MonthStarts
    /\ MaxPeriodDays \in Nat /\ LastDay \in Nat /\ LastCreation \in Nat /\ MaxRequests \in Nat /\ MaxStatements \in Nat
    /\ MaxFaults \in Nat /\ MaxTries \in Nat \ {0}
    /\ None \notin 0..3 * LastDay + 2
    /\ \A s \in Schedules :
          /\ Config[s].freq \in {"ONCE", "INTERVAL", "MONTHLY_FIRST", "QUARTERLY"}
          /\ Config[s].from \in Int /\ Config[s].to \in Int /\ Config[s].to >= Config[s].from
    \* every month and every quarter has a predecessor
    /\ \A starts \in {MonthStarts, QuarterStarts}, d \in 0..LastDay :
          \E m \in starts : m < d /\ \A k \in starts : k < d => k <= m

VARIABLES
    now,        \* the part of the day it is
    sched,      \* committed schedules: status, next_run_at, last_run_at
    runs,       \* committed runs: schedule, day and period
    stmts,      \* committed statements by id: period, pdf_status, deleted
    ids,        \* ids given out
    cron,       \* the open transaction of the cron, or None
    req,        \* the open transaction of a request, or None
    jobs,       \* jobs in Redis
    results,    \* ids of finished jobs that arq remembers
    stored,     \* statements whose PDF is in the object store
    mailed,     \* statements an e-mail went out for
    delivered,  \* statements with a committed SENT delivery event
    requests, faults

vars == <<now, sched, runs, stmts, ids, cron, req, jobs, results, stored, mailed, delivered,
          requests, faults>>

Init ==
    /\ now = 0
    /\ sched = [s \in Schedules |-> None]
    /\ runs = {}
    /\ stmts = << >>
    /\ ids = 0
    /\ cron = None /\ req = None
    /\ jobs = {} /\ results = {}
    /\ stored = {} /\ mailed = {} /\ delivered = {}
    /\ requests = 0 /\ faults = 0

-----------------------------------------------------------------------------
(* scheduling.py *)

Day(t) == t \div 3

\* _local_run_dt: 06:00 of the day
RunAt(d) == 3 * d + 1

\* The days a schedule runs on, seen from a day in its window.  A quarterly
\* schedule never runs on the day it is computed from.
RunDays(c, d) ==
    CASE c.freq = "INTERVAL" -> {a \in c.from..c.to : (a - c.from) % c.interval = 0}
      [] c.freq = "MONTHLY_FIRST" -> {m \in MonthStarts : d <= m /\ m <= c.to}
      [] c.freq = "QUARTERLY" -> {q \in QuarterStarts : d < q /\ q <= c.to}

\* next_run_at_utc
NextRun(c, t) ==
    LET due == {RunAt(d) : d \in RunDays(c, Max({c.from, Day(t)}))} IN
    CASE Day(t) > c.to -> None
      [] Day(t) <= c.to /\ c.freq = "ONCE" -> IF RunAt(c.to) > t THEN RunAt(c.to) ELSE t + 1
      [] OTHER -> IF \E r \in due : r > t THEN Min({r \in due : r > t}) ELSE None

\* A row of a schedule is not None
ASSUME RowAssumption ==
    \A s \in Schedules, t \in 0..3 * LastDay + 2, last \in {None} \cup 0..3 * LastDay + 2 :
        /\ None # [status |-> "ACTIVE", next |-> NextRun(Config[s], t), last |-> last]
        /\ None # [status |-> "COMPLETED", next |-> None, last |-> last]

Before(starts, d) == Max({m \in starts : m < d})

\* Mutant: the statement begins at the start of the window every time.
PeriodFromWindow(c, last, d) == IF c.freq = "INTERVAL" THEN <<c.from, d - 1>> ELSE <<c.from, c.to>>

\* statement_period_for_run, statement_period_for_custom_run
Period(c, last, d) ==
    CASE c.freq = "ONCE" -> <<c.from, c.to>>
      [] c.freq = "INTERVAL" -> <<IF last = None THEN c.from ELSE Day(last) + 1, d - 1>>
      [] c.freq = "MONTHLY_FIRST" -> <<Before(MonthStarts, d), d - 1>>
      [] c.freq = "QUARTERLY" -> <<Before(QuarterStarts, d), d - 1>>

\* validate_period, and the days preset schedules insist on
PeriodValid(c, p, d) ==
    /\ p[1] <= p[2] /\ p[2] <= d
    /\ p[2] - p[1] + 1 <= MaxPeriodDays
    /\ c.freq = "MONTHLY_FIRST" => d \in MonthStarts
    /\ c.freq = "QUARTERLY" => d \in QuarterStarts

-----------------------------------------------------------------------------
(* Statements and jobs *)

JobId(j) == <<j.kind, j.stmt, j.by>>
Job(kind, id, by) == [kind |-> kind, stmt |-> id, by |-> by, tries |-> 0, at |-> "queued"]

\* arq drops a job whose id it knows
Enqueued(new) ==
    jobs \cup {j \in new : /\ JobId(j) \notin results
                           /\ \A k \in jobs : JobId(k) # JobId(j)}

\* The jobs that reach Redis: losing one is a fault
Enqueue(new) ==
    \/ jobs' = Enqueued(new) /\ UNCHANGED faults
    \/ /\ faults < MaxFaults
       /\ faults' = faults + 1
       /\ \E lost \in new : jobs' = Enqueued(new \ {lost})

Statement(p) == [period |-> p, pdf |-> "GENERATING", deleted |-> FALSE]

\* Rows of a table and rows that join it
Merged(t, u) == [i \in DOMAIN t \cup DOMAIN u |-> IF i \in DOMAIN t THEN t[i] ELSE u[i]]
Inserted(t, id, row) == Merged(t, [i \in {id} |-> row])

\* get_active_by_signature among the statements a transaction sees
Active(seen, p) ==
    {i \in DOMAIN seen : seen[i].period = p /\ ~seen[i].deleted /\ seen[i].pdf # "FAILED"}

Exists(id) == id \in DOMAIN stmts /\ ~stmts[id].deleted

-----------------------------------------------------------------------------
(* Requests *)

CreateSchedule(s) ==
    /\ sched[s] = None
    /\ Day(now) <= LastCreation
    /\ LET next == NextRun(Config[s], now) IN
       sched' = [sched EXCEPT ![s] =
          [status |-> IF next = None THEN "COMPLETED" ELSE "ACTIVE", next |-> next, last |-> None]]
    /\ UNCHANGED <<now, requests, runs, stmts, ids, cron, req, jobs, results, stored, mailed, delivered, faults>>

\* create_statement returns an active statement for the same period
CreateStatement(p) ==
    /\ requests < MaxRequests /\ requests' = requests + 1
    /\ req = None
    /\ ids < MaxStatements
    /\ p[1] <= p[2] /\ p[2] <= Day(now) /\ p[2] - p[1] + 1 <= MaxPeriodDays
    /\ Active(stmts, p) = {}
    /\ ids' = ids + 1
    /\ req' = [id |-> ids + 1, period |-> p]
    /\ Enqueue({Job("pdf", ids + 1, None)})
    /\ UNCHANGED <<now, sched, runs, stmts, cron, results, stored, mailed, delivered>>

CommitRequest ==
    /\ req # None
    /\ stmts' = Inserted(stmts, req.id, Statement(req.period))
    /\ req' = None
    /\ UNCHANGED <<now, requests, sched, runs, ids, cron, jobs, results, stored, mailed, delivered, faults>>

\* send_email of a statement without PDF enqueues the delivery
SendEmail(id) ==
    /\ requests < MaxRequests /\ requests' = requests + 1
    /\ Exists(id)
    /\ stmts[id].pdf = "GENERATING"
    /\ Enqueue({Job("mail", id, None)})
    /\ UNCHANGED <<now, sched, runs, stmts, ids, cron, req, results, stored, mailed, delivered>>

\* The mail goes out before the delivery event is committed
Deliver(id) ==
    /\ Exists(id)
    /\ stmts[id].pdf = "READY"
    /\ mailed' = mailed \cup {id}
    /\ \/ delivered' = delivered \cup {id} /\ UNCHANGED faults
       \/ faults < MaxFaults /\ faults' = faults + 1 /\ UNCHANGED delivered

SendEmailNow(id) ==
    /\ requests < MaxRequests /\ requests' = requests + 1
    /\ Deliver(id)
    /\ UNCHANGED <<now, sched, runs, stmts, ids, cron, req, jobs, results, stored>>

DeleteStatement(id) ==
    /\ requests < MaxRequests /\ requests' = requests + 1
    /\ Exists(id)
    /\ id \notin delivered
    /\ stmts' = [stmts EXCEPT ![id].deleted = TRUE]
    /\ UNCHANGED <<now, sched, runs, ids, cron, req, jobs, results, stored, mailed, delivered, faults>>

-----------------------------------------------------------------------------
(* The cron: process_due_schedules in one transaction *)

CronStart ==
    /\ cron = None
    /\ ids < MaxStatements
    /\ \E s \in Schedules : sched[s] # None /\ sched[s].status = "ACTIVE" /\ sched[s].next <= now
    /\ cron' = [sched |-> sched, runs |-> {}, stmts |-> << >>]
    /\ UNCHANGED <<now, requests, sched, runs, stmts, ids, req, jobs, results, stored, mailed, delivered, faults>>

\* list_due: the ones that fell due first
Due ==
    LET due == {s \in Schedules : /\ cron.sched[s] # None
                                  /\ cron.sched[s].status = "ACTIVE"
                                  /\ cron.sched[s].next <= now}
    IN  {s \in due : \A q \in due : cron.sched[s].next <= cron.sched[q].next}

OutsideWindow(c) == c.freq # "ONCE" /\ (Day(now) < c.from \/ Day(now) > c.to)

CronSees == Merged(cron.stmts, stmts)

CompleteSchedule(s) ==
    /\ OutsideWindow(Config[s])
    /\ cron' = [cron EXCEPT !.sched[s].status = "COMPLETED", !.sched[s].next = None]
    /\ UNCHANGED <<ids, jobs, faults>>

\* _execute_schedule_run: the statement, the next run, the delivery
RunSchedule(s) ==
    LET c == Config[s]
        p == Period(c, cron.sched[s].last, Day(now))
        active == Active(CronSees, p)
        id == IF active = {} THEN ids + 1 ELSE CHOOSE i \in active : TRUE
        next == NextRun(c, now)
    IN  /\ ~OutsideWindow(c)
        /\ PeriodValid(c, p, Day(now))
        /\ Cardinality(active) <= 1
        /\ ids' = IF active = {} THEN id ELSE ids
        /\ cron' = [cron EXCEPT
              !.sched[s] = [status |-> IF next = None THEN "COMPLETED" ELSE "ACTIVE",
                            next |-> next, last |-> now],
              !.runs = @ \cup {[sched |-> s, day |-> Day(now), period |-> p]},
              !.stmts = IF active = {} THEN Inserted(@, id, Statement(p)) ELSE @]
        /\ Enqueue({Job("mail", id, s)} \cup IF active = {} THEN {Job("pdf", id, None)} ELSE {})

\* An exception (no valid period, two active statements for it) ends the run
\* and undoes what it did for every schedule
FailOnSchedule(s) ==
    LET p == Period(Config[s], cron.sched[s].last, Day(now)) IN
    /\ ~OutsideWindow(Config[s])
    /\ ~PeriodValid(Config[s], p, Day(now)) \/ Cardinality(Active(CronSees, p)) > 1
    /\ cron' = None
    /\ UNCHANGED <<ids, jobs, faults>>

CronStep(s) ==
    /\ cron # None
    /\ s \in Due
    /\ CompleteSchedule(s) \/ RunSchedule(s) \/ FailOnSchedule(s)
    /\ UNCHANGED <<now, requests, sched, runs, stmts, req, results, stored, mailed, delivered>>

\* A schedule created meanwhile is not in this transaction
CronCommit ==
    /\ cron # None
    /\ Due = {}
    /\ sched' = [s \in Schedules |-> IF cron.sched[s] = None THEN sched[s] ELSE cron.sched[s]]
    /\ runs' = runs \cup cron.runs
    /\ stmts' = Merged(stmts, cron.stmts)
    /\ cron' = None
    /\ UNCHANGED <<now, requests, ids, req, jobs, results, stored, mailed, delivered, faults>>

\* A transaction dies with its process
Crash ==
    /\ faults < MaxFaults
    /\ faults' = faults + 1
    /\ \/ cron # None /\ cron' = None /\ UNCHANGED req
       \/ req # None /\ req' = None /\ UNCHANGED cron
    /\ UNCHANGED <<now, requests, sched, runs, stmts, ids, jobs, results, stored, mailed, delivered>>

-----------------------------------------------------------------------------
(* The jobs.  arq repeats a job that raises Retry or dies, up to MaxTries. *)

Retried(j) == (jobs \ {j}) \cup {[j EXCEPT !.tries = @ + 1, !.at = "queued"]}

FinishJob(j) ==
    /\ jobs' = jobs \ {j}
    /\ results' = results \cup {JobId(j)}

\* Without its statement the job ends: its transaction has not committed yet,
\* or was rolled back
MissingStatement(j) ==
    /\ j.at = "queued" /\ j.tries < MaxTries
    /\ IF j.kind = "pdf" THEN j.stmt \notin DOMAIN stmts ELSE ~Exists(j.stmt)
    /\ FinishJob(j)
    /\ UNCHANGED <<now, requests, sched, runs, stmts, ids, cron, req, stored, mailed, delivered, faults>>

\* Mutant: the statement is READY before the file is stored.
ReadyBeforeUpload(j) ==
    /\ j.kind = "pdf" /\ j.at = "queued" /\ j.tries < MaxTries
    /\ j.stmt \in DOMAIN stmts
    /\ stmts' = [stmts EXCEPT ![j.stmt].pdf = "READY"]
    /\ jobs' = (jobs \ {j}) \cup {[j EXCEPT !.at = "uploaded"]}
    /\ UNCHANGED <<now, requests, sched, runs, ids, cron, req, results, stored, mailed, delivered, faults>>

UploadPdf(j) ==
    /\ j.kind = "pdf" /\ j.at = "queued" /\ j.tries < MaxTries
    /\ j.stmt \in DOMAIN stmts
    /\ stored' = stored \cup {j.stmt}
    /\ jobs' = (jobs \ {j}) \cup {[j EXCEPT !.at = "uploaded"]}
    /\ UNCHANGED <<now, requests, sched, runs, stmts, ids, cron, req, results, mailed, delivered, faults>>

MarkReady(j) ==
    /\ j.at = "uploaded"
    /\ stmts' = [stmts EXCEPT ![j.stmt].pdf = "READY"]
    /\ FinishJob(j)
    /\ UNCHANGED <<now, requests, sched, runs, ids, cron, req, stored, mailed, delivered, faults>>

\* _mark_failed, committed, and Retry
MarkFailed(j) ==
    /\ faults < MaxFaults /\ faults' = faults + 1
    /\ j.kind = "pdf" /\ j.at = "queued" /\ j.tries < MaxTries
    /\ j.stmt \in DOMAIN stmts
    /\ stmts' = [stmts EXCEPT ![j.stmt].pdf = "FAILED"]
    /\ jobs' = Retried(j)
    /\ UNCHANGED <<now, requests, sched, runs, ids, cron, req, results, stored, mailed, delivered>>

JobDies(j) ==
    /\ faults < MaxFaults
    /\ faults' = faults + 1
    /\ j.at = "uploaded"
    /\ jobs' = Retried(j)
    /\ UNCHANGED <<now, requests, sched, runs, stmts, ids, cron, req, results, stored, mailed, delivered>>

\* deliver_scheduled_account_statement_task: not READY is a retry
RetryMail(j) ==
    /\ j.kind = "mail" /\ j.tries < MaxTries
    /\ Exists(j.stmt) /\ stmts[j.stmt].pdf # "READY"
    /\ jobs' = Retried(j)
    /\ UNCHANGED <<now, requests, sched, runs, stmts, ids, cron, req, results, stored, mailed, delivered, faults>>

MailStatement(j) ==
    /\ j.kind = "mail" /\ j.tries < MaxTries
    /\ Deliver(j.stmt)
    /\ FinishJob(j)
    /\ UNCHANGED <<now, requests, sched, runs, stmts, ids, cron, req, stored>>

\* SMTP refuses: the exception ends the job and rolls the event back
MailFails(j) ==
    /\ faults < MaxFaults /\ faults' = faults + 1
    /\ j.kind = "mail" /\ j.tries < MaxTries
    /\ Exists(j.stmt) /\ stmts[j.stmt].pdf = "READY"
    /\ FinishJob(j)
    /\ UNCHANGED <<now, requests, sched, runs, stmts, ids, cron, req, stored, mailed, delivered>>

DropJob(j) ==
    /\ j.tries = MaxTries
    /\ FinishJob(j)
    /\ UNCHANGED <<now, requests, sched, runs, stmts, ids, cron, req, stored, mailed, delivered, faults>>

-----------------------------------------------------------------------------
\* Hours pass; arq forgets results after one.  Transactions, and jobs with
\* their retries, take minutes.
Tick ==
    /\ Day(now + 1) <= LastDay
    /\ cron = None /\ req = None /\ jobs = {}
    /\ now' = now + 1
    /\ results' = {}
    /\ UNCHANGED <<requests, sched, runs, stmts, ids, cron, req, jobs, stored, mailed, delivered, faults>>

Next ==
    \/ \E s \in Schedules : CreateSchedule(s) \/ CronStep(s)
    \/ \E p \in UserPeriods : CreateStatement(p)
    \/ CommitRequest \/ CronStart \/ CronCommit \/ Crash \/ Tick
    \/ \E id \in DOMAIN stmts : SendEmail(id) \/ SendEmailNow(id) \/ DeleteStatement(id)
    \/ \E j \in jobs :
          \/ MissingStatement(j) \/ UploadPdf(j) \/ MarkReady(j) \/ MarkFailed(j) \/ JobDies(j)
          \/ RetryMail(j) \/ MailStatement(j) \/ MailFails(j) \/ DropJob(j)

Spec == Init /\ [][Next]_vars

-----------------------------------------------------------------------------
StatedBy(s, d) ==
    {r.period : r \in {q \in runs : q.sched = s /\ q.period[1] <= d /\ d <= q.period[2]}}

\* A schedule puts no day into two statements, and one with an interval leaves
\* out no day before its last run except the days it ran on: also when runs
\* come late, fail or are rolled back after their jobs were enqueued.
EveryDayStatedOnce ==
    \A s \in Schedules : sched[s] # None /\ sched[s].last # None =>
        \A d \in Config[s].from..Day(sched[s].last) - 1 :
            /\ Cardinality(StatedBy(s, d)) <= 1
            /\ Config[s].freq = "INTERVAL" /\ StatedBy(s, d) = {} =>
                  \E r \in runs : r.sched = s /\ r.day = d

\* Every statement that was mailed has been committed and its PDF is stored:
\* a job that outlived its transaction, or was repeated, mails nothing else.
MailedIsStored == \A id \in mailed : id \in DOMAIN stmts /\ id \in stored

\* `Single CUSTOM run on valid_to'
OnceRunsOnce ==
    [][\A s \in Schedules :
          Config[s].freq = "ONCE" /\ sched[s] # None /\ sched[s].last # None =>
             sched'[s].last = sched[s].last]_vars

\* `Run all schedules whose next_run_at has passed': unless it crashes, the
\* cron leaves none behind.
CronRunsAllDue ==
    [][cron # None /\ cron' = None /\ faults' = faults =>
          \A s \in Schedules : cron.sched[s] # None /\ sched'[s].status = "ACTIVE" =>
             sched'[s].next > now]_vars
=============================================================================

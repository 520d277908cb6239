---------------------- MODULE AccountStatementsProofs ----------------------
(***************************************************************************)
(* Proofs about AccountStatements for all schedules and calendars, and any *)
(* number of days, requests, statements and faults.  What is mailed and    *)
(* what is stated are two arguments with an inductive invariant each.      *)
(***************************************************************************)
EXTENDS AccountStatements, FiniteSetTheorems, TLAPS

StatementRow(t) == DOMAIN t = {"period", "pdf", "deleted"}

JobRow(j) == j = [kind |-> j.kind, stmt |-> j.stmt, by |-> j.by, tries |-> j.tries, at |-> j.at]

\* A statement is READY only once its PDF is stored, which a job knows that
\* is about to mark it.
JobsInv ==
    \A j \in jobs : JobRow(j) /\ (j.at = "uploaded" => j.stmt \in DOMAIN stmts \cap stored)

StatementsInv ==
    \A id \in DOMAIN stmts :
        StatementRow(stmts[id]) /\ (stmts[id].pdf = "READY" => id \in stored)

\* The cron inserts statements that are not READY.
CronShape == cron = [sched |-> cron.sched, runs |-> cron.runs, stmts |-> cron.stmts]

CronInv ==
    cron # None => /\ CronShape
                   /\ \A id \in DOMAIN cron.stmts :
                         StatementRow(cron.stmts[id]) /\ cron.stmts[id].pdf # "READY"

MailInv == JobsInv /\ StatementsInv /\ CronInv /\ MailedIsStored

-----------------------------------------------------------------------------
\* A run states what its schedule asks for on that day.
RunShape(s, r) ==
    /\ r.day \in 0..LastDay
    /\ r.period[1] \in Int /\ r.period[2] \in Int
    /\ Config[s].freq = "ONCE" => r.period = <<Config[s].from, Config[s].to>>
    /\ Config[s].freq = "INTERVAL" => r.period[2] < r.day
    /\ Config[s].freq = "MONTHLY_FIRST" =>
          r.day \in MonthStarts /\ r.period = <<Before(MonthStarts, r.day), r.day - 1>>
    /\ Config[s].freq = "QUARTERLY" =>
          r.day \in QuarterStarts /\ r.period = <<Before(QuarterStarts, r.day), r.day - 1>>

\* The statements of two runs are the same period or have no day in common.
Apart(p, q) == p = q \/ p[2] < q[1] \/ q[2] < p[1]

\* The schedule has not run yet.
Unrun(row) == row = None \/ row.last = None

\* A table of schedules and a table of runs that belong together at time t.
Together(sc, rs, t) ==
    \A s \in Schedules :
        /\ Unrun(sc[s]) => \A r \in rs : r.sched # s
        /\ ~Unrun(sc[s]) =>
              /\ sc[s].last \in 0..t
              /\ \A r \in rs : r.sched = s => RunShape(s, r) /\ r.day <= Day(sc[s].last)
              /\ \A r, q \in rs : r.sched = s /\ q.sched = s => Apart(r.period, q.period)
              /\ Config[s].freq = "INTERVAL" =>
                    /\ \E r \in rs : r.sched = s /\ r.day = Day(sc[s].last)
                    /\ \A d \in Config[s].from..Day(sc[s].last) - 1 :
                          \E r \in rs : r.sched = s /\ (r.day = d \/ (r.period[1] <= d /\ d <= r.period[2]))

Row(r) == r = None \/ r = [status |-> r.status, next |-> r.next, last |-> r.last]

StatedInv ==
    /\ now \in 0..3 * LastDay + 2
    /\ DOMAIN sched = Schedules
    /\ Together(sched, runs, now)
    /\ cron # None => /\ CronShape
                      /\ DOMAIN cron.sched = Schedules
                      /\ \A s \in Schedules : Row(cron.sched[s])
                      /\ Together(cron.sched, runs \cup cron.runs, now)
                      /\ \A s \in Schedules : cron.sched[s] = None => Unrun(sched[s])
    /\ \A s \in Schedules : Row(sched[s])

-----------------------------------------------------------------------------
(* What is mailed *)

LEMMA MailInit == Init => MailInv
<1> SUFFICES ASSUME Init PROVE MailInv
  OBVIOUS
<1>1. DOMAIN stmts = {}
  BY DEF Init
<1> QED
  BY <1>1 DEF Init, MailInv, JobsInv, StatementsInv, CronInv, MailedIsStored

\* Jobs are enqueued at their beginning.
LEMMA EnqueuedJobs ==
    ASSUME NEW new, Enqueue(new), \A j \in new : JobRow(j) /\ j.at = "queued"
    PROVE  \A j \in jobs' : j \in jobs \/ (JobRow(j) /\ j.at = "queued")
BY DEF Enqueue, Enqueued

LEMMA NewJob ==
    ASSUME NEW kind, NEW id, NEW by
    PROVE  JobRow(Job(kind, id, by)) /\ Job(kind, id, by).at = "queued"
BY DEF JobRow, Job

\* A repeated job starts from the beginning.
LEMMA RetriedJobs ==
    ASSUME NEW j \in jobs, JobRow(j), jobs' = Retried(j)
    PROVE  \A k \in jobs' : k \in jobs \/ (JobRow(k) /\ k.at = "queued")
<1>1. PICK kind, stmt, by, tries, at :
         j = [kind |-> kind, stmt |-> stmt, by |-> by, tries |-> tries, at |-> at]
  BY DEF JobRow
<1> DEFINE k == [kind |-> kind, stmt |-> stmt, by |-> by, tries |-> tries + 1, at |-> at]
<1>2. [j EXCEPT !.tries = @ + 1] = k
  BY <1>1
<1>3. [k EXCEPT !.at = "queued"] = [k EXCEPT !.at = "queued"] /\ JobRow([k EXCEPT !.at = "queued"])
      /\ [k EXCEPT !.at = "queued"].at = "queued"
  BY DEF JobRow
<1>4. [j EXCEPT !.tries = @ + 1, !.at = "queued"] = [[j EXCEPT !.tries = @ + 1] EXCEPT !.at = "queued"]
  OBVIOUS
<1> QED
  BY <1>2, <1>3, <1>4 DEF Retried

\* Steps that add statements which are not READY, and jobs at their beginning.
LEMMA MailKept ==
    ASSUME MailInv, stored \subseteq stored', mailed' = mailed,
           DOMAIN stmts \subseteq DOMAIN stmts',
           \A id \in DOMAIN stmts' :
               \/ id \in DOMAIN stmts /\ stmts'[id] = stmts[id]
               \/ StatementRow(stmts'[id]) /\ stmts'[id].pdf # "READY",
           \A j \in jobs' : j \in jobs \/ (JobRow(j) /\ j.at = "queued"),
           cron' = cron \/ CronInv'
    PROVE  MailInv'
<1>1. JobsInv'
  BY DEF MailInv, JobsInv
<1>2. StatementsInv'
  BY DEF MailInv, StatementsInv
<1>3. CronInv'
  BY DEF MailInv, CronInv, CronShape
<1>4. MailedIsStored'
  BY DEF MailInv, MailedIsStored
<1> QED
  BY <1>1, <1>2, <1>3, <1>4 DEF MailInv

\* Steps on the clock, on schedules, or that end jobs.
LEMMA MailQuiet ==
    ASSUME MailInv, UNCHANGED <<stmts, stored, mailed>>, jobs' \subseteq jobs,
           cron' = cron \/ cron' = None
    PROVE  MailInv'
<1>1. cron' = cron \/ CronInv'
  BY DEF CronInv
<1> QED
  BY <1>1, MailKept

LEMMA RequestMail ==
    ASSUME MailInv,
           \/ \E s \in Schedules : CreateSchedule(s)
           \/ Crash \/ Tick \/ UNCHANGED vars
           \/ \E j \in jobs : MissingStatement(j) \/ MailFails(j) \/ DropJob(j)
    PROVE  MailInv'
<1>1. UNCHANGED <<stmts, stored, mailed>> /\ jobs' \subseteq jobs /\ (cron' = cron \/ cron' = None)
  BY DEF CreateSchedule, Crash, Tick, vars, MissingStatement, MailFails, DropJob, FinishJob
<1> QED
  BY <1>1, MailQuiet

LEMMA CreateStatementMail ==
    ASSUME MailInv, NEW p \in UserPeriods, CreateStatement(p)
    PROVE  MailInv'
<1>1. \A j \in jobs' : j \in jobs \/ (JobRow(j) /\ j.at = "queued")
  BY EnqueuedJobs, NewJob DEF CreateStatement
<1>2. UNCHANGED <<stmts, stored, mailed, cron>>
  BY DEF CreateStatement
<1> QED
  BY <1>1, <1>2, MailKept

LEMMA SendEmailMail ==
    ASSUME MailInv, NEW id \in DOMAIN stmts, SendEmail(id)
    PROVE  MailInv'
<1>1. \A j \in jobs' : j \in jobs \/ (JobRow(j) /\ j.at = "queued")
  BY EnqueuedJobs, NewJob DEF SendEmail
<1>2. UNCHANGED <<stmts, stored, mailed, cron>>
  BY DEF SendEmail
<1> QED
  BY <1>1, <1>2, MailKept

LEMMA CommitRequestMail ==
    ASSUME MailInv, CommitRequest
    PROVE  MailInv'
<1>1. UNCHANGED <<stored, mailed, cron, jobs>> /\ stmts' = Inserted(stmts, req.id, Statement(req.period))
  BY DEF CommitRequest
<1>2. /\ DOMAIN stmts \subseteq DOMAIN stmts'
      /\ \A id \in DOMAIN stmts' : \/ id \in DOMAIN stmts /\ stmts'[id] = stmts[id]
                                   \/ StatementRow(stmts'[id]) /\ stmts'[id].pdf # "READY"
  <2>1. DOMAIN stmts' = DOMAIN stmts \cup {req.id}
    BY <1>1 DEF Inserted, Merged
  <2>2. \A i \in DOMAIN stmts : stmts'[i] = stmts[i]
    BY <1>1 DEF Inserted, Merged
  <2>3. \A i \in DOMAIN stmts' \ DOMAIN stmts : StatementRow(stmts'[i]) /\ stmts'[i].pdf # "READY"
    BY <1>1 DEF Inserted, Merged, Statement, StatementRow
  <2> QED
    BY <2>1, <2>2, <2>3
<1> QED
  BY <1>1, <1>2, MailKept

LEMMA DeleteStatementMail ==
    ASSUME MailInv, NEW id \in DOMAIN stmts, DeleteStatement(id)
    PROVE  MailInv'
<1>1. UNCHANGED <<stored, mailed, cron, jobs>> /\ stmts' = [stmts EXCEPT ![id].deleted = TRUE]
  BY DEF DeleteStatement
<1>2. /\ DOMAIN stmts' = DOMAIN stmts
      /\ \A i \in DOMAIN stmts : StatementRow(stmts'[i]) /\ stmts'[i].pdf = stmts[i].pdf
  BY <1>1 DEF MailInv, StatementsInv, StatementRow
<1> QED
  BY <1>1, <1>2 DEF MailInv, JobsInv, StatementsInv, CronInv, CronShape, MailedIsStored

\* An e-mail goes out for a READY statement.
LEMMA DeliverMail ==
    ASSUME MailInv, NEW id, Deliver(id), UNCHANGED <<stmts, stored, cron>>, jobs' \subseteq jobs
    PROVE  MailInv'
<1>1. mailed' = mailed \cup {id} /\ id \in DOMAIN stmts /\ stmts[id].pdf = "READY"
  BY DEF Deliver, Exists
<1>2. id \in stored
  BY <1>1 DEF MailInv, StatementsInv
<1> QED
  BY <1>1, <1>2 DEF MailInv, JobsInv, StatementsInv, CronInv, CronShape, MailedIsStored

LEMMA SendMail ==
    ASSUME MailInv,
           \/ \E id \in DOMAIN stmts : SendEmailNow(id)
           \/ \E j \in jobs : MailStatement(j)
    PROVE  MailInv'
<1>1. CASE \E id \in DOMAIN stmts : SendEmailNow(id)
  BY <1>1, DeliverMail DEF SendEmailNow
<1>2. CASE \E j \in jobs : MailStatement(j)
  BY <1>2, DeliverMail DEF MailStatement, FinishJob
<1> QED
  BY <1>1, <1>2

\* The status of one PDF is set; READY only when the file is there.
LEMMA SetPdfMail ==
    ASSUME MailInv, NEW id \in DOMAIN stmts, NEW pdf \in {"READY", "FAILED"},
           pdf = "READY" => id \in stored,
           stmts' = [stmts EXCEPT ![id].pdf = pdf], UNCHANGED <<stored, mailed, cron>>,
           \A j \in jobs' : j \in jobs \/ (JobRow(j) /\ j.at = "queued")
    PROVE  MailInv'
<1>1. /\ DOMAIN stmts' = DOMAIN stmts
      /\ \A i \in DOMAIN stmts : StatementRow(stmts'[i])
      /\ \A i \in DOMAIN stmts : stmts'[i].pdf = IF i = id THEN pdf ELSE stmts[i].pdf
  BY DEF MailInv, StatementsInv, StatementRow
<1>2. JobsInv'
  BY <1>1 DEF MailInv, JobsInv
<1>3. StatementsInv'
  BY <1>1 DEF MailInv, StatementsInv
<1> QED
  BY <1>1, <1>2, <1>3 DEF MailInv, CronInv, CronShape, MailedIsStored

LEMMA UploadPdfMail ==
    ASSUME MailInv, NEW j \in jobs, UploadPdf(j)
    PROVE  MailInv'
<1>0. /\ stored' = stored \cup {j.stmt} /\ j.stmt \in DOMAIN stmts
      /\ jobs' = (jobs \ {j}) \cup {[j EXCEPT !.at = "uploaded"]}
      /\ UNCHANGED <<stmts, mailed, cron>>
  BY DEF UploadPdf
<1>1. JobRow([j EXCEPT !.at = "uploaded"]) /\ [j EXCEPT !.at = "uploaded"].stmt = j.stmt
  BY DEF MailInv, JobsInv, JobRow
<1>2. JobsInv'
  BY <1>0, <1>1 DEF MailInv, JobsInv
<1> QED
  BY <1>0, <1>2 DEF MailInv, StatementsInv, CronInv, CronShape, MailedIsStored

LEMMA PdfMail ==
    ASSUME MailInv, NEW j \in jobs, MarkReady(j) \/ MarkFailed(j)
    PROVE  MailInv'
<1>0. JobRow(j)
  BY DEF MailInv, JobsInv
<1>1. CASE MarkReady(j)
  <2>1. j.stmt \in DOMAIN stmts /\ j.stmt \in stored
    BY <1>1 DEF MarkReady, MailInv, JobsInv
  <2> QED
    BY <1>1, <2>1, SetPdfMail DEF MarkReady, FinishJob
<1>2. CASE MarkFailed(j)
  <2>1. \A k \in jobs' : k \in jobs \/ (JobRow(k) /\ k.at = "queued")
    BY <1>0, <1>2, RetriedJobs DEF MarkFailed
  <2>2. /\ j.stmt \in DOMAIN stmts /\ stmts' = [stmts EXCEPT ![j.stmt].pdf = "FAILED"]
        /\ UNCHANGED <<stored, mailed, cron>>
    BY <1>2 DEF MarkFailed
  <2> QED
    BY <2>1, <2>2, SetPdfMail
<1> QED
  BY <1>1, <1>2

LEMMA RetryMailKept ==
    ASSUME MailInv, NEW j \in jobs, JobDies(j) \/ RetryMail(j)
    PROVE  MailInv'
<1>0. JobRow(j)
  BY DEF MailInv, JobsInv
<1>1. \A k \in jobs' : k \in jobs \/ (JobRow(k) /\ k.at = "queued")
  BY <1>0, RetriedJobs DEF JobDies, RetryMail
<1>2. UNCHANGED <<stmts, stored, mailed, cron>>
  BY DEF JobDies, RetryMail
<1> QED
  BY <1>1, <1>2, MailKept

\* The rows of the cron's transaction join the table.
LEMMA CronCommitMail ==
    ASSUME MailInv, CronCommit
    PROVE  MailInv'
<1>0. stmts' = Merged(stmts, cron.stmts) /\ cron # None /\ cron' = None /\ UNCHANGED <<stored, mailed, jobs>>
  BY DEF CronCommit
<1>1. \A id \in DOMAIN cron.stmts : StatementRow(cron.stmts[id]) /\ cron.stmts[id].pdf # "READY"
  BY <1>0 DEF MailInv, CronInv
<1>2. /\ DOMAIN stmts' = DOMAIN stmts \cup DOMAIN cron.stmts
      /\ \A id \in DOMAIN stmts : stmts'[id] = stmts[id]
      /\ \A id \in DOMAIN cron.stmts \ DOMAIN stmts : stmts'[id] = cron.stmts[id]
  BY <1>0 DEF Merged
<1>3. CronInv'
  BY <1>0 DEF CronInv
<1> QED
  BY <1>0, <1>1, <1>2, <1>3, MailKept

LEMMA CronStartMail ==
    ASSUME MailInv, CronStart
    PROVE  MailInv'
<1>0. cron' = [sched |-> sched, runs |-> {}, stmts |-> << >>] /\ UNCHANGED <<stmts, stored, mailed, jobs>>
  BY DEF CronStart
<1>1. CronInv'
  <2>1. cron'.stmts = << >> /\ DOMAIN cron'.stmts = {}
    BY <1>0
  <2>2. CronShape'
    BY <1>0 DEF CronShape
  <2> QED
    BY <2>1, <2>2 DEF CronInv
<1> QED
  BY <1>0, <1>1, MailKept

\* What a turn of the cron does to its transaction.
LEMMA CompleteTurn ==
    ASSUME NEW s \in Schedules, CompleteSchedule(s), CronShape, s \in DOMAIN cron.sched
    PROVE  cron' = [sched |-> [cron.sched EXCEPT ![s].status = "COMPLETED", ![s].next = None],
                    runs |-> cron.runs, stmts |-> cron.stmts]
<1>1. PICK a, b, c : cron = [sched |-> a, runs |-> b, stmts |-> c]
  BY DEF CronShape
<1>2. cron' = [cron EXCEPT !.sched[s].status = "COMPLETED", !.sched[s].next = None]
  BY DEF CompleteSchedule
<1> DEFINE a1 == [a EXCEPT ![s].status = "COMPLETED"]
           k == [sched |-> a1, runs |-> b, stmts |-> c]
<1>3. [cron EXCEPT !.sched[s].status = "COMPLETED"] = k
  BY <1>1
<1>4. cron' = [[cron EXCEPT !.sched[s].status = "COMPLETED"] EXCEPT !.sched[s].next = None]
  BY <1>2
<1>5. [k EXCEPT !.sched[s].next = None] = [sched |-> [a1 EXCEPT ![s].next = None], runs |-> b, stmts |-> c]
  OBVIOUS
<1>6. [a1 EXCEPT ![s].next = None] = [a EXCEPT ![s].status = "COMPLETED", ![s].next = None]
  OBVIOUS
<1> QED
  BY <1>1, <1>3, <1>4, <1>5, <1>6

NextRow(s) ==
    [status |-> IF NextRun(Config[s], now) = None THEN "COMPLETED" ELSE "ACTIVE",
     next |-> NextRun(Config[s], now), last |-> now]

ThePeriod(s) == Period(Config[s], cron.sched[s].last, Day(now))

LEMMA RunTurn ==
    ASSUME NEW s \in Schedules, RunSchedule(s), CronShape, s \in DOMAIN cron.sched
    PROVE  \E st :
             /\ cron' = [sched |-> [cron.sched EXCEPT ![s] = NextRow(s)],
                         runs |-> cron.runs \cup {[sched |-> s, day |-> Day(now), period |-> ThePeriod(s)]},
                         stmts |-> st]
             /\ st = cron.stmts \/ \E id : st = Inserted(cron.stmts, id, Statement(ThePeriod(s)))
<1>1. PICK a, b, c : cron = [sched |-> a, runs |-> b, stmts |-> c]
  BY DEF CronShape
<1> DEFINE p == ThePeriod(s)
           new == {[sched |-> s, day |-> Day(now), period |-> p]}
           act == Active(CronSees, p)
           id == IF act = {} THEN ids + 1 ELSE CHOOSE i \in act : TRUE
           st(t) == IF act = {} THEN Inserted(t, id, Statement(p)) ELSE t
<1>2. cron' = [cron EXCEPT !.sched[s] = NextRow(s), !.runs = @ \cup new, !.stmts = st(@)]
  BY DEF RunSchedule, NextRow, ThePeriod
<1> HIDE DEF p, new, act, id
<1> DEFINE a1 == [a EXCEPT ![s] = NextRow(s)]
<1>3. [cron EXCEPT !.sched[s] = NextRow(s)] = [sched |-> a1, runs |-> b, stmts |-> c]
  BY <1>1
<1>4. [[sched |-> a1, runs |-> b, stmts |-> c] EXCEPT !.runs = @ \cup new] =
         [sched |-> a1, runs |-> b \cup new, stmts |-> c]
  OBVIOUS
<1>5. [[sched |-> a1, runs |-> b \cup new, stmts |-> c] EXCEPT !.stmts = st(@)] =
         [sched |-> a1, runs |-> b \cup new, stmts |-> st(c)]
  OBVIOUS
<1>6. cron' = [[[cron EXCEPT !.sched[s] = NextRow(s)] EXCEPT !.runs = @ \cup new] EXCEPT !.stmts = st(@)]
  BY <1>2
<1>7. cron' = [sched |-> a1, runs |-> b \cup new, stmts |-> st(c)]
  BY <1>3, <1>4, <1>5, <1>6
<1>8. cron.sched = a /\ cron.runs = b /\ cron.stmts = c
  BY <1>1
<1>9. st(c) = c \/ \E i : st(c) = Inserted(c, i, Statement(p))
  OBVIOUS
<1> QED
  BY <1>7, <1>8, <1>9 DEF p, new

LEMMA CronStepMail ==
    ASSUME MailInv, NEW s \in Schedules, CronStep(s), s \in DOMAIN cron.sched
    PROVE  MailInv'
<1>0. cron # None /\ UNCHANGED <<stmts, stored, mailed>>
  BY DEF CronStep
<1>1. CronShape /\ \A i \in DOMAIN cron.stmts : StatementRow(cron.stmts[i]) /\ cron.stmts[i].pdf # "READY"
  BY <1>0 DEF MailInv, CronInv
<1>2. CASE CompleteSchedule(s)
  <2>1. UNCHANGED jobs
    BY <1>2 DEF CompleteSchedule
  <2>2. CronShape' /\ cron'.stmts = cron.stmts
    <3>1. cron' = [sched |-> [cron.sched EXCEPT ![s].status = "COMPLETED", ![s].next = None],
                   runs |-> cron.runs, stmts |-> cron.stmts]
      BY <1>1, <1>2, CompleteTurn
    <3> QED
      BY <3>1 DEF CronShape
  <2>3. CronInv'
    BY <1>1, <2>2 DEF CronInv
  <2> QED
    BY <1>0, <2>1, <2>3, MailKept
<1>3. CASE RunSchedule(s)
  <2>1. \A j \in jobs' : j \in jobs \/ (JobRow(j) /\ j.at = "queued")
    BY <1>3, EnqueuedJobs, NewJob DEF RunSchedule
  <2>2. PICK st : /\ cron' = [sched |-> [cron.sched EXCEPT ![s] = NextRow(s)],
                              runs |-> cron.runs \cup {[sched |-> s, day |-> Day(now), period |-> ThePeriod(s)]},
                              stmts |-> st]
                  /\ st = cron.stmts \/ \E id : st = Inserted(cron.stmts, id, Statement(ThePeriod(s)))
    BY <1>1, <1>3, RunTurn
  <2>3. CronShape' /\ cron'.stmts = st
    BY <2>2 DEF CronShape
  <2>4. \A i \in DOMAIN st : StatementRow(st[i]) /\ st[i].pdf # "READY"
    <3>1. CASE st = cron.stmts
      BY <1>1, <3>1
    <3>2. ASSUME NEW id, st = Inserted(cron.stmts, id, Statement(ThePeriod(s)))
          PROVE  \A i \in DOMAIN st : StatementRow(st[i]) /\ st[i].pdf # "READY"
      <4>1. StatementRow(Statement(ThePeriod(s))) /\ Statement(ThePeriod(s)).pdf # "READY"
        BY DEF Statement, StatementRow
      <4>2. \A i \in DOMAIN st : \/ i \in DOMAIN cron.stmts /\ st[i] = cron.stmts[i]
                                 \/ st[i] = Statement(ThePeriod(s))
        BY <3>2 DEF Inserted, Merged
      <4> QED
        BY <1>1, <4>1, <4>2
    <3> QED
      BY <2>2, <3>1, <3>2
  <2>5. CronInv'
    BY <2>3, <2>4 DEF CronInv
  <2> QED
    BY <1>0, <2>1, <2>5, MailKept
<1>4. CASE FailOnSchedule(s)
  BY <1>0, <1>4, MailQuiet DEF FailOnSchedule
<1> QED
  BY <1>2, <1>3, <1>4 DEF CronStep

-----------------------------------------------------------------------------
(* What is stated *)

LEMMA StatedInit == Init => StatedInv
<1> SUFFICES ASSUME Init PROVE StatedInv
  OBVIOUS
<1>1. now \in 0..3 * LastDay + 2
  BY AccountStatementsAssumption DEF Init
<1>2. DOMAIN sched = Schedules /\ \A s \in Schedules : sched[s] = None
  BY DEF Init
<1> QED
  BY <1>1, <1>2 DEF Init, StatedInv, Together, Unrun, Row

\* The month or quarter before a day.
LEMMA BeforeDay ==
    ASSUME NEW starts \in {MonthStarts, QuarterStarts}, NEW d \in 0..LastDay
    PROVE  /\ Before(starts, d) \in starts /\ Before(starts, d) \in Int
           /\ Before(starts, d) < d
           /\ \A k \in starts : k < d => k <= Before(starts, d)
<1> DEFINE S == {m \in starts : m < d}
<1>1. starts \subseteq Int
  BY AccountStatementsAssumption
<1>2. PICK m \in S : \A k \in S : k <= m
  BY AccountStatementsAssumption
<1>3. Max(S) \in S /\ \A k \in S : Max(S) >= k
  <2>1. m \in S /\ \A k \in S : m >= k
    BY <1>1, <1>2
  <2> HIDE DEF S
  <2> QED
    BY <2>1 DEF Max
<1>4. Before(starts, d) = Max(S)
  BY DEF Before
<1> QED
  BY <1>1, <1>3, <1>4

\* Two runs of a monthly, quarterly or one-time schedule.
LEMMA RunsApart ==
    ASSUME NEW s \in Schedules, Config[s].freq # "INTERVAL", NEW r, NEW q, RunShape(s, r), RunShape(s, q)
    PROVE  Apart(r.period, q.period)
<1>1. CASE Config[s].freq = "ONCE"
  BY <1>1 DEF RunShape, Apart
<1>2. ASSUME NEW starts \in {MonthStarts, QuarterStarts}, r.day \in starts, q.day \in starts,
             r.period = <<Before(starts, r.day), r.day - 1>>,
             q.period = <<Before(starts, q.day), q.day - 1>>
      PROVE  Apart(r.period, q.period)
  <2>0. r.day \in 0..LastDay /\ q.day \in 0..LastDay
    BY DEF RunShape
  <2>1. CASE r.day = q.day
    BY <1>2, <2>1 DEF Apart
  <2>2. CASE r.day < q.day
    <3>1. r.day <= Before(starts, q.day) /\ Before(starts, q.day) \in Int
      BY <1>2, <2>0, <2>2, BeforeDay
    <3> QED
      BY <1>2, <2>0, <3>1, AccountStatementsAssumption DEF Apart
  <2>3. CASE q.day < r.day
    <3>1. q.day <= Before(starts, r.day) /\ Before(starts, r.day) \in Int
      BY <1>2, <2>0, <2>3, BeforeDay
    <3> QED
      BY <1>2, <2>0, <3>1, AccountStatementsAssumption DEF Apart
  <2> QED
    BY <2>0, <2>1, <2>2, <2>3, AccountStatementsAssumption
<1>3. CASE Config[s].freq = "MONTHLY_FIRST"
  BY <1>2, <1>3 DEF RunShape
<1>4. CASE Config[s].freq = "QUARTERLY"
  BY <1>2, <1>4 DEF RunShape
<1> QED
  BY <1>1, <1>3, <1>4, AccountStatementsAssumption

LEMMA DayBounds ==
    ASSUME NEW t \in 0..3 * LastDay + 2, NEW u \in 0..t
    PROVE  Day(t) \in 0..LastDay /\ Day(u) \in 0..Day(t) /\ u \in 0..3 * LastDay + 2
BY AccountStatementsAssumption DEF Day

\* The new run has the shape its schedule asks for.
LEMMA NewRunShape ==
    ASSUME NEW s \in Schedules, NEW last, NEW d \in 0..LastDay, NEW p,
           p = Period(Config[s], last, d), PeriodValid(Config[s], p, d),
           last # None => last \in Nat
    PROVE  RunShape(s, [sched |-> s, day |-> d, period |-> p])
<1> DEFINE c == Config[s]
           r == [sched |-> s, day |-> d, period |-> p]
<1>0. c.from \in Int /\ c.to \in Int /\ d \in Int
  BY AccountStatementsAssumption
<1>1. CASE c.freq = "ONCE"
  <2>1. p = <<c.from, c.to>>
    BY <1>1 DEF Period
  <2> QED
    BY <1>0, <1>1, <2>1 DEF RunShape
<1>2. CASE c.freq = "INTERVAL"
  <2>1. p = <<IF last = None THEN c.from ELSE Day(last) + 1, d - 1>>
    BY <1>2 DEF Period
  <2>2. last # None => Day(last) \in Int
    BY DEF Day
  <2>3. p[1] \in Int /\ p[2] = d - 1
    BY <1>0, <2>1, <2>2
  <2> QED
    BY <1>0, <1>2, <2>3 DEF RunShape
<1>3. CASE c.freq = "MONTHLY_FIRST"
  <2>1. p = <<Before(MonthStarts, d), d - 1>> /\ d \in MonthStarts
    BY <1>3 DEF Period, PeriodValid
  <2>2. Before(MonthStarts, d) \in Int
    BY BeforeDay
  <2> QED
    BY <1>0, <1>3, <2>1, <2>2 DEF RunShape
<1>4. CASE c.freq = "QUARTERLY"
  <2>1. p = <<Before(QuarterStarts, d), d - 1>> /\ d \in QuarterStarts
    BY <1>4 DEF Period, PeriodValid
  <2>2. Before(QuarterStarts, d) \in Int
    BY BeforeDay
  <2> QED
    BY <1>0, <1>4, <2>1, <2>2 DEF RunShape
<1> QED
  BY <1>1, <1>2, <1>3, <1>4, AccountStatementsAssumption

\* A run keeps schedules and runs together.
LEMMA RunTogether ==
    ASSUME NEW sc, NEW rs, NEW sc2, NEW rs2, NEW s \in Schedules, NEW row, NEW p,
           now \in 0..3 * LastDay + 2, DOMAIN sc = Schedules, Together(sc, rs, now),
           sc[s] # None, row # None, row.last = now,
           p = Period(Config[s], sc[s].last, Day(now)), PeriodValid(Config[s], p, Day(now)),
           sc2 = [sc EXCEPT ![s] = row],
           rs2 = rs \cup {[sched |-> s, day |-> Day(now), period |-> p]}
    PROVE  Together(sc2, rs2, now)
<1> DEFINE d == Day(now)
           new == [sched |-> s, day |-> d, period |-> p]
           c == Config[s]
<1>0. d \in 0..LastDay /\ now # None /\ now \in 0..now /\ now \in Nat /\ c.from \in Int
  BY DayBounds, AccountStatementsAssumption
<1>1. /\ ~Unrun(sc2[s]) /\ sc2[s].last = now
      /\ \A q \in Schedules \ {s} : sc2[q] = sc[q]
  BY <1>0 DEF Unrun
<1>2. /\ \A r \in rs2 : r \in rs \/ r = new
      /\ rs \subseteq rs2 /\ new \in rs2 /\ new.sched = s /\ new.day = d /\ new.period = p
  OBVIOUS
<1>3. sc[s].last # None => sc[s].last \in Nat /\ sc[s].last \in 0..now
  BY <1>0 DEF Together, Unrun
<1>4. RunShape(s, new)
  BY <1>0, <1>3, NewRunShape
<1> HIDE DEF new, d, c
<1>5. ASSUME NEW q \in Schedules, q # s
      PROVE  /\ Unrun(sc2[q]) => \A r \in rs2 : r.sched # q
             /\ ~Unrun(sc2[q]) =>
                   /\ sc2[q].last \in 0..now
                   /\ \A r \in rs2 : r.sched = q => RunShape(q, r) /\ r.day <= Day(sc2[q].last)
                   /\ \A r, t \in rs2 : r.sched = q /\ t.sched = q => Apart(r.period, t.period)
                   /\ Config[q].freq = "INTERVAL" =>
                         /\ \E r \in rs2 : r.sched = q /\ r.day = Day(sc2[q].last)
                         /\ \A e \in Config[q].from..Day(sc2[q].last) - 1 :
                               \E r \in rs2 : r.sched = q /\ (r.day = e \/ (r.period[1] <= e /\ e <= r.period[2]))
  <2>1. sc2[q] = sc[q] /\ \A r \in rs2 : r.sched = q => r \in rs
    BY <1>1, <1>2, <1>5
  <2> QED
    BY <1>2, <2>1 DEF Together
<1>6. CASE Unrun(sc[s])
  <2>1. sc[s].last = None /\ \A r \in rs2 : r.sched = s => r = new
    BY <1>2, <1>6 DEF Together, Unrun
  <2>2. c.freq = "INTERVAL" => p[1] = c.from /\ p[2] = d - 1
    BY <2>1 DEF Period, c, d
  <2>3. c.freq = "INTERVAL" => \A e \in c.from..d - 1 : p[1] <= e /\ e <= p[2]
    BY <1>0, <2>2 DEF d
  <2>4. /\ \A r \in rs2 : r.sched = s => RunShape(s, r) /\ r.day <= d
        /\ \A r, t \in rs2 : r.sched = s /\ t.sched = s => Apart(r.period, t.period)
    BY <1>0, <1>2, <1>4, <2>1 DEF Apart
  <2>5. c.freq = "INTERVAL" =>
           /\ \E r \in rs2 : r.sched = s /\ r.day = d
           /\ \A e \in c.from..d - 1 :
                 \E r \in rs2 : r.sched = s /\ (r.day = e \/ (r.period[1] <= e /\ e <= r.period[2]))
    BY <1>2, <2>3
  <2> QED
    BY <1>0, <1>1, <1>5, <2>4, <2>5 DEF Together, c, d
<1>7. CASE ~Unrun(sc[s])
  <2> DEFINE L == Day(sc[s].last)
  <2>1. /\ sc[s].last # None /\ L \in 0..d
        /\ \A r \in rs : r.sched = s => RunShape(s, r) /\ r.day <= L
        /\ \A r, t \in rs : r.sched = s /\ t.sched = s => Apart(r.period, t.period)
        /\ c.freq = "INTERVAL" =>
              /\ \E r \in rs : r.sched = s /\ r.day = L
              /\ \A e \in c.from..L - 1 :
                    \E r \in rs : r.sched = s /\ (r.day = e \/ (r.period[1] <= e /\ e <= r.period[2]))
    BY <1>3, <1>7, DayBounds DEF Together, Unrun, c, d
  <2>2. c.freq = "INTERVAL" => p[1] = L + 1 /\ p[2] = d - 1
    BY <2>1 DEF Period, c, d
  <2> HIDE DEF L
  <2>3. \A r \in rs2 : r.sched = s => RunShape(s, r) /\ r.day <= d /\ r.day \in Int
    BY <1>0, <1>2, <1>4, <2>1 DEF RunShape
  <2>4. ASSUME NEW r \in rs, r.sched = s
        PROVE  Apart(r.period, p) /\ Apart(p, r.period)
    <3>1. CASE c.freq = "INTERVAL"
      <4>1. r.period[2] < r.day /\ r.day <= L /\ r.period[2] \in Int /\ r.day \in Int
        BY <2>1, <2>4, <3>1 DEF RunShape, c
      <4> QED
        BY <2>1, <2>2, <3>1, <4>1, <1>0 DEF Apart
    <3>2. CASE c.freq # "INTERVAL"
      BY <1>2, <1>4, <2>1, <2>4, <3>2, RunsApart DEF c
    <3> QED
      BY <3>1, <3>2
  <2>5. \A r, t \in rs2 : r.sched = s /\ t.sched = s => Apart(r.period, t.period)
    BY <1>2, <2>1, <2>4 DEF Apart
  <2>6. ASSUME c.freq = "INTERVAL", NEW e \in c.from..d - 1
        PROVE  \E r \in rs2 : r.sched = s /\ (r.day = e \/ (r.period[1] <= e /\ e <= r.period[2]))
    <3>1. CASE e < L
      <4>1. e \in c.from..L - 1
        BY <1>0, <2>1, <3>1
      <4> QED
        BY <1>2, <2>1, <2>6, <4>1
    <3>2. CASE e = L
      BY <1>2, <2>1, <2>6, <3>2
    <3>3. CASE e > L
      <4>1. p[1] <= e /\ e <= p[2]
        BY <1>0, <2>1, <2>2, <2>6, <3>3
      <4> QED
        BY <1>2, <4>1
    <3> QED
      BY <1>0, <2>1, <3>1, <3>2, <3>3
  <2>7. c.freq = "INTERVAL" => \E r \in rs2 : r.sched = s /\ r.day = d
    BY <1>2
  <2> QED
    BY <1>0, <1>1, <1>5, <2>3, <2>5, <2>6, <2>7 DEF Together, c, d
<1> QED
  BY <1>6, <1>7

\* Later, and after changes that touch no last run, they still are.
LEMMA StillTogether ==
    ASSUME NEW sc, NEW rs, NEW sc2, NEW t \in Nat, NEW t2 \in Nat, t <= t2, Together(sc, rs, t),
           \A s \in Schedules : \/ sc2[s] = sc[s]
                                \/ Unrun(sc2[s]) /\ Unrun(sc[s])
                                \/ sc2[s].last = sc[s].last /\ sc2[s] # None /\ sc[s] # None
    PROVE  Together(sc2, rs, t2)
<1>1. \A s \in Schedules : /\ Unrun(sc2[s]) <=> Unrun(sc[s])
                           /\ ~Unrun(sc[s]) => sc2[s].last = sc[s].last
  BY DEF Unrun
<1>2. \A s \in Schedules : sc[s].last \in 0..t => sc[s].last \in 0..t2
  OBVIOUS
<1> QED
  BY <1>1, <1>2 DEF Together

\* Steps that leave the clock, the schedules, the runs and the cron alone, or
\* end the cron.
LEMMA StatedQuiet ==
    ASSUME StatedInv, UNCHANGED <<now, sched, runs>>, cron' = cron \/ cron' = None
    PROVE  StatedInv'
BY DEF StatedInv, CronShape

LEMMA NowIsNat == StatedInv => now \in Nat
BY AccountStatementsAssumption DEF StatedInv

LEMMA CreateScheduleStated ==
    ASSUME StatedInv, NEW s \in Schedules, CreateSchedule(s)
    PROVE  StatedInv'
<1> DEFINE row == [status |-> IF NextRun(Config[s], now) = None THEN "COMPLETED" ELSE "ACTIVE",
                   next |-> NextRun(Config[s], now), last |-> None]
<1>1. sched' = [sched EXCEPT ![s] = row]
  BY DEF CreateSchedule
<1>2. Unrun(sched[s]) /\ Unrun(row) /\ Row(row)
  BY DEF CreateSchedule, Row, Unrun
<1> HIDE DEF row
<1>3. DOMAIN sched' = Schedules /\ \A q \in Schedules : sched'[q] = IF q = s THEN row ELSE sched[q]
  BY <1>1 DEF StatedInv
<1>4. Together(sched', runs, now)
  BY <1>2, <1>3, NowIsNat, StillTogether DEF StatedInv
<1>5. UNCHANGED <<now, runs, cron>>
  BY DEF CreateSchedule
<1> QED
  BY <1>2, <1>3, <1>4, <1>5 DEF StatedInv, CronShape

LEMMA TickStated ==
    ASSUME StatedInv, Tick
    PROVE  StatedInv'
<1>1. now' = now + 1 /\ cron = None /\ UNCHANGED <<sched, runs, cron>> /\ Day(now + 1) <= LastDay
  BY DEF Tick
<1>2. now \in Nat /\ now' \in Nat /\ now <= now'
  BY <1>1, NowIsNat
<1>3. now' \in 0..3 * LastDay + 2
  BY <1>1, <1>2, AccountStatementsAssumption DEF Day
<1>4. Together(sched, runs, now')
  BY <1>2, StillTogether DEF StatedInv
<1> QED
  BY <1>1, <1>3, <1>4 DEF StatedInv, CronShape

LEMMA CronStartStated ==
    ASSUME StatedInv, CronStart
    PROVE  StatedInv'
<1>1. cron' = [sched |-> sched, runs |-> {}, stmts |-> << >>] /\ UNCHANGED <<now, sched, runs>>
  BY DEF CronStart
<1>2. CronShape' /\ cron'.sched = sched /\ runs \cup cron'.runs = runs
  BY <1>1 DEF CronShape
<1>3. \A s \in Schedules : sched[s] = None => Unrun(sched[s])
  BY DEF Unrun
<1> QED
  BY <1>1, <1>2, <1>3 DEF StatedInv

LEMMA CronCommitStated ==
    ASSUME StatedInv, CronCommit
    PROVE  StatedInv'
<1>1. /\ cron # None /\ cron' = None /\ now' = now
      /\ sched' = [s \in Schedules |-> IF cron.sched[s] = None THEN sched[s] ELSE cron.sched[s]]
      /\ runs' = runs \cup cron.runs
  BY DEF CronCommit
<1>2. \A s \in Schedules : \/ sched'[s] = cron.sched[s]
                           \/ Unrun(sched'[s]) /\ Unrun(cron.sched[s])
  BY <1>1 DEF StatedInv, Unrun
<1>3. Together(sched', runs \cup cron.runs, now)
  BY <1>1, <1>2, NowIsNat, StillTogether DEF StatedInv
<1>4. DOMAIN sched' = Schedules /\ \A s \in Schedules : Row(sched'[s])
  BY <1>1 DEF StatedInv
<1> QED
  BY <1>1, <1>3, <1>4 DEF StatedInv

LEMMA CronStepStated ==
    ASSUME StatedInv, NEW s \in Schedules, CronStep(s)
    PROVE  StatedInv'
<1>1. cron # None /\ UNCHANGED <<now, sched, runs>> /\ cron.sched[s] # None
  BY DEF CronStep, Due
<1>2. /\ CronShape /\ DOMAIN cron.sched = Schedules /\ \A q \in Schedules : Row(cron.sched[q])
      /\ Together(cron.sched, runs \cup cron.runs, now)
      /\ \A q \in Schedules : cron.sched[q] = None => Unrun(sched[q])
      /\ now \in 0..3 * LastDay + 2
  BY <1>1 DEF StatedInv
<1>3. ASSUME NEW row, NEW rs, NEW st, Row(row), row # None,
             cron' = [sched |-> [cron.sched EXCEPT ![s] = row], runs |-> rs, stmts |-> st],
             Together([cron.sched EXCEPT ![s] = row], runs \cup rs, now)
      PROVE  StatedInv'
  <2>1. CronShape' /\ cron'.sched = [cron.sched EXCEPT ![s] = row] /\ cron'.runs = rs
    BY <1>3 DEF CronShape
  <2>2. /\ DOMAIN cron'.sched = Schedules
        /\ \A q \in Schedules : cron'.sched[q] = IF q = s THEN row ELSE cron.sched[q]
    BY <1>2, <2>1
  <2>3. /\ \A q \in Schedules : Row(cron'.sched[q])
        /\ \A q \in Schedules : cron'.sched[q] = None => Unrun(sched[q])
    BY <1>2, <1>3, <2>2
  <2>4. Together(cron'.sched, runs \cup cron'.runs, now)
    BY <1>3, <2>1
  <2> QED
    BY <1>1, <2>1, <2>2, <2>3, <2>4 DEF StatedInv
<1>4. CASE CompleteSchedule(s)
  <2> DEFINE row == [status |-> "COMPLETED", next |-> None, last |-> cron.sched[s].last]
  <2>1. cron' = [sched |-> [cron.sched EXCEPT ![s].status = "COMPLETED", ![s].next = None],
                 runs |-> cron.runs, stmts |-> cron.stmts]
    BY <1>2, <1>4, CompleteTurn
  <2>2. [cron.sched EXCEPT ![s].status = "COMPLETED", ![s].next = None] = [cron.sched EXCEPT ![s] = row]
    <3>1. PICK status, next, last : cron.sched[s] = [status |-> status, next |-> next, last |-> last]
      BY <1>1, <1>2 DEF Row
    <3> DEFINE one == [cron.sched EXCEPT ![s].status = "COMPLETED"]
    <3>2. one = [cron.sched EXCEPT ![s] = [status |-> "COMPLETED", next |-> next, last |-> last]]
      BY <3>1
    <3>3. one[s] = [status |-> "COMPLETED", next |-> next, last |-> last]
      BY <1>2, <3>2
    <3>4. [one EXCEPT ![s].next = None] = [one EXCEPT ![s] = row]
      BY <3>1, <3>3
    <3>5. [one EXCEPT ![s] = row] = [cron.sched EXCEPT ![s] = row]
      BY <3>2
    <3>6. [cron.sched EXCEPT ![s].status = "COMPLETED", ![s].next = None] = [one EXCEPT ![s].next = None]
      OBVIOUS
    <3> QED
      BY <3>4, <3>5, <3>6
  <2>3. Row(row) /\ row # None /\ row.last = cron.sched[s].last
    <3>1. cron.sched[s].last \in {None} \cup 0..3 * LastDay + 2
      BY <1>1, <1>2, DayBounds DEF Together, Unrun
    <3>2. row # None
      BY <1>2, <3>1, RowAssumption
    <3> QED
      BY <3>2 DEF Row
  <2> HIDE DEF row
  <2>4. Together([cron.sched EXCEPT ![s] = row], runs \cup cron.runs, now)
    BY <1>1, <1>2, <2>3, NowIsNat, StillTogether
  <2> QED
    BY <1>3, <2>1, <2>2, <2>3, <2>4
<1>5. CASE RunSchedule(s)
  <2> DEFINE new == [sched |-> s, day |-> Day(now), period |-> ThePeriod(s)]
  <2>1. PICK st : cron' = [sched |-> [cron.sched EXCEPT ![s] = NextRow(s)],
                           runs |-> cron.runs \cup {new}, stmts |-> st]
    BY <1>2, <1>5, RunTurn
  <2>2. Row(NextRow(s)) /\ NextRow(s).last = now /\ NextRow(s) # None
    BY <1>2, RowAssumption DEF NextRow, Row
  <2>3. PeriodValid(Config[s], ThePeriod(s), Day(now))
    BY <1>5 DEF RunSchedule, ThePeriod
  <2>4. runs \cup (cron.runs \cup {new}) = (runs \cup cron.runs) \cup {new}
    OBVIOUS
  <2>5. Together([cron.sched EXCEPT ![s] = NextRow(s)], runs \cup (cron.runs \cup {new}), now)
    BY <1>1, <1>2, <2>2, <2>3, <2>4, RunTogether DEF ThePeriod
  <2> QED
    BY <1>3, <2>1, <2>2, <2>5
<1>6. CASE FailOnSchedule(s)
  BY <1>1, <1>6, StatedQuiet DEF FailOnSchedule
<1> QED
  BY <1>4, <1>5, <1>6 DEF CronStep

-----------------------------------------------------------------------------
(* Every step keeps both *)

IInv == MailInv /\ StatedInv

LEMMA JobStep ==
    ASSUME MailInv, StatedInv, NEW j \in jobs,
           \/ MissingStatement(j) \/ UploadPdf(j) \/ MarkReady(j) \/ MarkFailed(j) \/ JobDies(j)
           \/ RetryMail(j) \/ MailStatement(j) \/ MailFails(j) \/ DropJob(j)
    PROVE  MailInv' /\ StatedInv'
<1>1. UNCHANGED <<now, sched, runs, cron>>
  BY DEF MissingStatement, UploadPdf, MarkReady, MarkFailed, JobDies, RetryMail, MailStatement,
         MailFails, DropJob
<1>2. StatedInv'
  BY <1>1, StatedQuiet
<1>3. MailInv'
  BY RequestMail, UploadPdfMail, PdfMail, RetryMailKept, SendMail
<1> QED
  BY <1>2, <1>3

LEMMA RequestStep ==
    ASSUME MailInv, StatedInv, NEW id \in DOMAIN stmts,
           SendEmail(id) \/ SendEmailNow(id) \/ DeleteStatement(id)
    PROVE  MailInv' /\ StatedInv'
<1>1. UNCHANGED <<now, sched, runs, cron>>
  BY DEF SendEmail, SendEmailNow, DeleteStatement
<1>2. StatedInv'
  BY <1>1, StatedQuiet
<1>3. MailInv'
  BY SendEmailMail, SendMail, DeleteStatementMail
<1> QED
  BY <1>2, <1>3

LEMMA NextInv ==
    ASSUME IInv, [Next]_vars
    PROVE  IInv'
<1> SUFFICES MailInv' /\ StatedInv'
  BY DEF IInv
<1>0. MailInv /\ StatedInv
  BY DEF IInv
<1>1. ASSUME NEW s \in Schedules, CreateSchedule(s) \/ CronStep(s)
      PROVE  MailInv' /\ StatedInv'
  <2>1. CASE CreateSchedule(s)
    BY <1>0, <2>1, RequestMail, CreateScheduleStated
  <2>2. CASE CronStep(s)
    <3>1. s \in DOMAIN cron.sched
      BY <1>0, <2>2 DEF StatedInv, CronStep
    <3> QED
      BY <1>0, <2>2, <3>1, CronStepMail, CronStepStated
  <2> QED
    BY <1>1, <2>1, <2>2
<1>2. ASSUME NEW p \in UserPeriods, CreateStatement(p)
      PROVE  MailInv' /\ StatedInv'
  <2>1. UNCHANGED <<now, sched, runs, cron>>
    BY <1>2 DEF CreateStatement
  <2> QED
    BY <1>0, <1>2, <2>1, CreateStatementMail, StatedQuiet
<1>3. CASE CommitRequest
  <2>1. UNCHANGED <<now, sched, runs, cron>>
    BY <1>3 DEF CommitRequest
  <2> QED
    BY <1>0, <1>3, <2>1, CommitRequestMail, StatedQuiet
<1>4. CASE CronStart
  BY <1>0, <1>4, CronStartMail, CronStartStated
<1>5. CASE CronCommit
  BY <1>0, <1>5, CronCommitMail, CronCommitStated
<1>6. CASE Crash
  <2>1. UNCHANGED <<now, sched, runs>> /\ (cron' = cron \/ cron' = None)
    BY <1>6 DEF Crash
  <2> QED
    BY <1>0, <1>6, <2>1, RequestMail, StatedQuiet
<1>7. CASE Tick
  BY <1>0, <1>7, RequestMail, TickStated
<1>8. CASE UNCHANGED vars
  <2>1. UNCHANGED <<now, sched, runs, cron>>
    BY <1>8 DEF vars
  <2> QED
    BY <1>0, <1>8, <2>1, RequestMail, StatedQuiet
<1> QED
  BY <1>0, <1>1, <1>2, <1>3, <1>4, <1>5, <1>6, <1>7, <1>8, JobStep, RequestStep DEF Next

\* Two statements of a schedule that hold the same day are one.
LEMMA StatedOnce == StatedInv => EveryDayStatedOnce
<1> SUFFICES ASSUME StatedInv, NEW s \in Schedules, sched[s] # None, sched[s].last # None,
                    NEW d \in Config[s].from..Day(sched[s].last) - 1
             PROVE  /\ Cardinality(StatedBy(s, d)) <= 1
                    /\ Config[s].freq = "INTERVAL" /\ StatedBy(s, d) = {} =>
                          \E r \in runs : r.sched = s /\ r.day = d
  BY DEF EveryDayStatedOnce
<1>0. d \in Int
  OBVIOUS
<1>1. /\ \A r \in runs : r.sched = s => r.period[1] \in Int /\ r.period[2] \in Int
      /\ \A r, q \in runs : r.sched = s /\ q.sched = s => Apart(r.period, q.period)
      /\ Config[s].freq = "INTERVAL" =>
            \E r \in runs : r.sched = s /\ (r.day = d \/ (r.period[1] <= d /\ d <= r.period[2]))
  BY DEF StatedInv, Together, Unrun, RunShape
<1>2. ASSUME NEW p \in StatedBy(s, d), NEW q \in StatedBy(s, d)
      PROVE  p = q
  <2>1. PICK r \in runs : r.sched = s /\ r.period[1] <= d /\ d <= r.period[2] /\ p = r.period
    BY DEF StatedBy
  <2>2. PICK t \in runs : t.sched = s /\ t.period[1] <= d /\ d <= t.period[2] /\ q = t.period
    BY DEF StatedBy
  <2>3. Apart(r.period, t.period)
    BY <1>1, <2>1, <2>2
  <2> QED
    BY <1>0, <1>1, <2>1, <2>2, <2>3 DEF Apart
<1>3. Cardinality(StatedBy(s, d)) <= 1
  <2>1. CASE StatedBy(s, d) = {}
    BY <2>1, FS_EmptySet
  <2>2. ASSUME NEW p \in StatedBy(s, d)
        PROVE  Cardinality(StatedBy(s, d)) <= 1
    <3>1. StatedBy(s, d) = {p}
      BY <1>2
    <3> QED
      BY <3>1, FS_Singleton
  <2> QED
    BY <2>1, <2>2
<1>4. ASSUME Config[s].freq = "INTERVAL", StatedBy(s, d) = {}
      PROVE  \E r \in runs : r.sched = s /\ r.day = d
  <2>1. PICK r \in runs : r.sched = s /\ (r.day = d \/ (r.period[1] <= d /\ d <= r.period[2]))
    BY <1>1, <1>4
  <2>2. ~(r.period[1] <= d /\ d <= r.period[2])
    BY <1>4, <2>1 DEF StatedBy
  <2> QED
    BY <2>1, <2>2
<1> QED
  BY <1>3, <1>4

LEMMA StatementsInvariant == Spec => []IInv
<1>1. Init => IInv
  BY MailInit, StatedInit DEF IInv
<1>2. IInv /\ [Next]_vars => IInv'
  BY NextInv
<1> QED
  BY <1>1, <1>2, PTL DEF Spec

\* Nothing is mailed but committed statements whose PDF is stored, whatever
\* jobs are repeated, come early or outlive their transaction.
THEOREM MailedStored == Spec => []MailedIsStored
<1>1. IInv => MailedIsStored
  BY DEF IInv, MailInv
<1> QED
  BY <1>1, StatementsInvariant, PTL

\* No schedule states a day twice, and one with an interval misses none, for
\* any calendar, any windows and any crashes of the cron.
THEOREM DaysStatedOnce == Spec => []EveryDayStatedOnce
<1>1. IInv => EveryDayStatedOnce
  BY StatedOnce DEF IInv
<1> QED
  BY <1>1, StatementsInvariant, PTL
=============================================================================

-------------------------- MODULE StatusAutomation --------------------------
(***************************************************************************)
(* The rules that change a status when another one was reached             *)
(* (app/modules/status_automation_rules): a request changes the status of a*)
(* package or of a delivery stop and enqueues the evaluation of the rules  *)
(* before it commits; the job takes a Redis lock for the entity, looks for *)
(* the event in the execution log, picks the first effective rule, changes *)
(* the status, releases the lock and then commits.  Every night the events *)
(* of a day are to be replayed.                                            *)
(*                                                                         *)
(* Requests and jobs overlap.  Each compares and sets the copy it loaded;  *)
(* the flush updates the row only where the copy was changed, and keeps it *)
(* locked until the transaction ends.                                      *)
(*                                                                         *)
(* Sessions do not flush by themselves: the event of a package is flushed  *)
(* before its id is used, the event of a stop or of an order is not, and   *)
(* its job is enqueued under the id "None".                                *)
(***************************************************************************)
EXTENDS Naturals, Sequences

CONSTANTS
    Packages, Stops,
    Statuses, Initial,
    Unchecked,      \* statuses a stop is given without a look at its own: DELIVERY_SCHEDULED
    Sessions,       \* requests open at a time
    Rules,          \* rule sets of the organisation, global ones included
    Rule,           \* their trigger, timing, new status, priority and parent
    None,
    MaxRequests,    \* bound: status changes by people
    MaxEdits,       \* bound: changes of rules
    MaxCrashes,     \* bound: jobs that die
    MaxTries        \* DefaultWorkerSettings.max_tries

ASSUME StatusAutomationAssumption ==
    /\ Unchecked \subseteq Statuses
    /\ None \notin Statuses
    /\ MaxRequests \in Nat /\ MaxEdits \in Nat /\ MaxCrashes \in Nat /\ MaxTries \in Nat \ {0}
    /\ \A r, q \in Rules : r # q => Rule[r].priority # Rule[q].priority

Entities == Packages \cup Stops

VARIABLES
    status,     \* committed statuses
    events,     \* committed transitions, in the order of their commits
    log,        \* committed status_automation_execution_logs
    active,     \* rule sets with status ACTIVE
    pickedUp,   \* the status of the order is past the pickup
    req,        \* the transactions of open requests, or None
    overtaken,  \* history: sessions whose entity was changed since they loaded it
    queue,      \* evaluation jobs in Redis
    results,    \* ids of finished jobs
    job,        \* running jobs, by id
    redis,      \* entity locks
    replay,     \* the nightly replay
    requests, edits, crashes

vars == <<status, events, log, active, pickedUp, req, overtaken, queue, results, job, redis,
          replay, requests, edits, crashes>>

Init ==
    /\ status = [e \in Entities |-> Initial]
    /\ events = << >>
    /\ log = {}
    /\ active = Rules
    /\ pickedUp = FALSE
    /\ req = [s \in Sessions |-> None]
    /\ overtaken = {}
    /\ queue = {}
    /\ results = {}
    /\ job = << >>
    /\ redis = [e \in Entities |-> None]
    /\ replay = [at |-> "waiting", entity |-> None, matched |-> {}]
    /\ requests = 0 /\ edits = 0 /\ crashes = 0

-----------------------------------------------------------------------------
(* Transactions on loaded copies *)

\* The ORM emits an UPDATE of the status only if the loaded value was changed.
\* (A new date may update and lock the row all the same: that has fewer
\* interleavings.)
Updates(x) == x.from # x.to

\* Somebody has updated the row and not ended the transaction
RowLocked(e) ==
    \/ \E s \in Sessions : /\ req[s] # None /\ req[s].entity = e
                          /\ req[s].at = "flushed" /\ Updates(req[s])
    \/ \E w \in DOMAIN job : /\ job[w].entity = e /\ job[w].at \in {"release", "commit"}
                            /\ job[w].to # None /\ Updates(job[w])

Written(x) == IF Updates(x) THEN [status EXCEPT ![x.entity] = x.to] ELSE status

Overtaking(x) ==
    IF Updates(x) THEN {s \in Sessions : req[s] # None /\ req[s].entity = x.entity} ELSE {}

-----------------------------------------------------------------------------
(* Requests *)

\* str(event_row.id), which names the job; the id of an unflushed event is 0
EventId(x) == IF x.entity \in Packages THEN x.event ELSE 0

\* arq drops a job whose id is queued, running or has a result
Enqueue(x) ==
    LET id == EventId(x) IN
    queue' = IF id \in results \/ \E q \in queue : q.id = id THEN queue
             ELSE queue \cup {[id |-> id, entity |-> x.entity, to |-> x.to, tries |-> 0]}

Load(s, e) ==
    /\ req[s] = None
    /\ requests < MaxRequests
    /\ requests' = requests + 1
    /\ req' = [req EXCEPT ![s] = [entity |-> e, at |-> "loaded", from |-> status[e], to |-> None,
                                  event |-> requests + 1]]
    /\ UNCHANGED <<status, events, log, active, pickedUp, overtaken, queue, results, job, redis,
                   replay, edits, crashes>>

\* The copy gets its status and the event is added to the session.  The job of
\* a stop is enqueued before the flush, that of a package after it.
ChangeStatus(s, to) ==
    LET x == [req[s] EXCEPT !.at = "changed", !.to = to] IN
    /\ req[s] # None /\ req[s].at = "loaded"
    /\ to # req[s].from \/ (req[s].entity \in Stops /\ to \in Unchecked)
    /\ req' = [req EXCEPT ![s] = x]
    /\ IF x.entity \in Stops THEN Enqueue(x) ELSE UNCHANGED queue
    /\ UNCHANGED <<status, events, log, active, pickedUp, overtaken, results, job, redis, replay,
                   requests, edits, crashes>>

\* The flush waits for a row lock it needs.  The requests of administrators
\* change packages without a job.
Flush(s) ==
    /\ req[s] # None /\ req[s].at = "changed"
    /\ Updates(req[s]) => ~RowLocked(req[s].entity)
    /\ req' = [req EXCEPT ![s].at = "flushed"]
    /\ \/ req[s].entity \in Packages /\ Enqueue(req[s])
       \/ UNCHANGED queue
    /\ UNCHANGED <<status, events, log, active, pickedUp, overtaken, results, job, redis, replay,
                   requests, edits, crashes>>

\* Was the status recorded without an UPDATE, from a copy that was overtaken?
StaleRepeat(s) == s \in overtaken /\ ~Updates(req[s])

CommitRequest(s) ==
    /\ req[s] # None /\ req[s].at = "flushed"
    /\ status' = Written(req[s])
    /\ events' = Append(events, [id |-> req[s].event, entity |-> req[s].entity, to |-> req[s].to,
                                 stale |-> StaleRepeat(s)])
    /\ overtaken' = (overtaken \cup Overtaking(req[s])) \ {s}
    /\ req' = [req EXCEPT ![s] = None]
    /\ UNCHANGED <<log, active, pickedUp, queue, results, job, redis, replay, requests, edits, crashes>>

RollbackRequest(s) ==
    /\ req[s] # None
    /\ req' = [req EXCEPT ![s] = None]
    /\ overtaken' = overtaken \ {s}
    /\ UNCHANGED <<status, events, log, active, pickedUp, queue, results, job, redis, replay,
                   requests, edits, crashes>>

\* set_rule_status
SetRuleStatus(r) ==
    /\ edits < MaxEdits
    /\ edits' = edits + 1
    /\ active' = IF r \in active THEN active \ {r} ELSE active \cup {r}
    /\ UNCHANGED <<status, events, log, pickedUp, req, overtaken, queue, results, job, redis, replay,
                   requests, crashes>>

PickUpOrder ==
    /\ ~pickedUp
    /\ pickedUp' = TRUE
    /\ UNCHANGED <<status, events, log, active, req, overtaken, queue, results, job, redis, replay,
                   requests, edits, crashes>>

\* arq forgets the result of a job after an hour
ForgetResult(id) ==
    /\ results' = results \ {id}
    /\ UNCHANGED <<status, events, log, active, pickedUp, req, overtaken, queue, job, redis, replay,
                   requests, edits, crashes>>

-----------------------------------------------------------------------------
(* Which rule applies *)

\* get_effective_for_org: a customised rule hides the global one it replaces
Effective == {r \in active : \A c \in active : Rule[c].parent # r}

\* _trigger_matches and _conditions_match
Matching(e, to) ==
    {r \in Effective : /\ Rule[r].onPackage = (e \in Packages)
                       /\ Rule[r].trigger = to
                       /\ Rule[r].afterPickup => pickedUp}

\* The rule with the highest priority, or None
FirstMatch(e, to) ==
    IF Matching(e, to) = {} THEN None
    ELSE CHOOSE r \in Matching(e, to) :
            \A q \in Matching(e, to) : Rule[r].priority >= Rule[q].priority

Logged(id) == \E l \in log : l.event = id

-----------------------------------------------------------------------------
(* evaluate_for_event in a job *)

Started(j) == [entity |-> j.entity, event |-> j.to, at |-> "check", from |-> None, to |-> None,
               rule |-> None]

\* An event whose entity is locked is skipped, and its job is finished
StartJob(j) ==
    /\ j.id \notin DOMAIN job
    /\ j.tries < MaxTries
    /\ IF redis[j.entity] = None
       THEN /\ redis' = [redis EXCEPT ![j.entity] = j.id]
            /\ queue' = (queue \ {j}) \cup {[j EXCEPT !.tries = @ + 1]}
            /\ job' = [w \in DOMAIN job \cup {j.id} |->
                  IF w = j.id THEN Started(j) ELSE job[w]]
            /\ UNCHANGED results
       ELSE /\ queue' = queue \ {j}
            /\ results' = results \cup {j.id}
            /\ UNCHANGED <<redis, job>>
    /\ UNCHANGED <<status, events, log, active, pickedUp, req, overtaken, replay, requests, edits, crashes>>

DropJob(j) ==
    /\ j.id \notin DOMAIN job
    /\ j.tries = MaxTries
    /\ queue' = queue \ {j}
    /\ results' = results \cup {j.id}
    /\ UNCHANGED <<status, events, log, active, pickedUp, req, overtaken, job, redis, replay, requests, edits, crashes>>

\* Mutant: the log is not consulted.
NeverLogged(w) == FALSE

AlreadyProcessed(w) == Logged(w)

\* `event_already_processed', or no rule matches: nothing to commit
CheckLog(w) ==
    LET r == FirstMatch(job[w].entity, job[w].event) IN
    /\ job[w].at = "check"
    /\ job' = [job EXCEPT ![w] =
          IF AlreadyProcessed(w) \/ r = None THEN [@ EXCEPT !.at = "release"]
          ELSE [@ EXCEPT !.at = "execute", !.rule = r]]
    /\ UNCHANGED <<status, events, log, active, pickedUp, req, overtaken, queue, results, redis, replay,
                   requests, edits, crashes>>

\* Mutant: the event is recorded although the loaded status is the new one.
ChangedAnyway(w) == Rule[job[w].rule].new

\* What the rule writes to the copy just loaded, or None
Changed(w) ==
    LET new == Rule[job[w].rule].new IN
    IF status[job[w].entity] = new THEN None ELSE new

\* _execute_change_status.  The status the entity has now is not compared with
\* the one of the event.
Execute(w) ==
    /\ job[w].at = "execute"
    /\ job' = [job EXCEPT ![w] = [@ EXCEPT !.at = "flush", !.from = status[job[w].entity],
                                          !.to = Changed(w)]]
    /\ UNCHANGED <<status, events, log, active, pickedUp, req, overtaken, queue, results, redis, replay,
                   requests, edits, crashes>>

\* The row of the execution log is created, which flushes the session
FlushJob(w) ==
    /\ job[w].at = "flush"
    /\ job[w].to # None /\ Updates(job[w]) => ~RowLocked(job[w].entity)
    /\ job' = [job EXCEPT ![w].at = "release"]
    /\ UNCHANGED <<status, events, log, active, pickedUp, req, overtaken, queue, results, redis, replay,
                   requests, edits, crashes>>

\* _release_entity_lock deletes the key whoever holds it by now
Release(w) ==
    /\ job[w].at = "release"
    /\ redis' = [redis EXCEPT ![job[w].entity] = None]
    /\ job' = [job EXCEPT ![w].at = "commit"]
    /\ UNCHANGED <<status, events, log, active, pickedUp, req, overtaken, queue, results, replay,
                   requests, edits, crashes>>

\* The session commits; suppress_automation: no job for this transition
CommitJob(w) ==
    /\ job[w].at = "commit"
    /\ IF job[w].to = None THEN UNCHANGED <<status, events, overtaken>>
       ELSE /\ status' = Written(job[w])
            /\ events' = Append(events, [id |-> None, entity |-> job[w].entity, to |-> job[w].to,
                                         stale |-> FALSE])
            /\ overtaken' = overtaken \cup Overtaking(job[w])
    /\ log' = IF job[w].rule = None THEN log ELSE log \cup {[event |-> w, rule |-> job[w].rule]}
    /\ job' = [job EXCEPT ![w].at = "done"]
    /\ UNCHANGED <<active, pickedUp, req, queue, results, redis, replay, requests, edits, crashes>>

\* arq stores the result
FinishJob(w) ==
    /\ job[w].at = "done"
    /\ queue' = {q \in queue : q.id # w}
    /\ results' = results \cup {w}
    /\ job' = [v \in DOMAIN job \ {w} |-> job[v]]
    /\ UNCHANGED <<status, events, log, active, pickedUp, req, overtaken, redis, replay, requests, edits, crashes>>

\* The worker dies: the job stays in the queue, the lock until it expires
CrashJob(w) ==
    /\ crashes < MaxCrashes
    /\ crashes' = crashes + 1
    /\ job' = [v \in DOMAIN job \ {w} |-> job[v]]
    /\ UNCHANGED <<status, events, log, active, pickedUp, req, overtaken, queue, results, redis, replay, requests, edits>>

\* The lock expires after 30 seconds, also under a job that is still running
LockExpires(e) ==
    /\ redis[e] # None
    /\ redis' = [redis EXCEPT ![e] = None]
    /\ UNCHANGED <<status, events, log, active, pickedUp, req, overtaken, queue, results, job, replay,
                   requests, edits, crashes>>

-----------------------------------------------------------------------------
(* run_daily_reconciliation: one transaction over the events of the day,   *)
(* packages first.  Its query for the events of stops names DeliveryStop,  *)
(* which the module does not import: a NameError ends it, and everything   *)
(* it did before is rolled back.                                           *)

ReplayEvent(i) ==
    LET ev == events[i] IN
    /\ replay.at \in {"waiting", "packages"} /\ replay.entity = None
    /\ ev.entity \in Packages /\ ev.id # None
    /\ redis[ev.entity] = None
    /\ redis' = [redis EXCEPT ![ev.entity] = "replay"]
    /\ replay' = [at |-> "packages", entity |-> ev.entity, matched |-> replay.matched \cup
                     IF ~Logged(ev.id) /\ FirstMatch(ev.entity, ev.to) # None THEN {ev.id} ELSE {}]
    /\ UNCHANGED <<status, events, log, active, pickedUp, req, overtaken, queue, results, job, requests, edits, crashes>>

ReplayRelease ==
    /\ replay.entity # None
    /\ redis' = [redis EXCEPT ![replay.entity] = None]
    /\ replay' = [replay EXCEPT !.entity = None]
    /\ UNCHANGED <<status, events, log, active, pickedUp, req, overtaken, queue, results, job, requests, edits, crashes>>

ReplayFails ==
    /\ replay.at = "packages" /\ replay.entity = None
    /\ replay' = [replay EXCEPT !.at = "over"]
    /\ UNCHANGED <<status, events, log, active, pickedUp, req, overtaken, queue, results, job, redis,
                   requests, edits, crashes>>

-----------------------------------------------------------------------------
Next ==
    \/ \E s \in Sessions :
          \/ \E e \in Entities : Load(s, e)
          \/ \E to \in Statuses : ChangeStatus(s, to)
          \/ Flush(s) \/ CommitRequest(s) \/ RollbackRequest(s)
    \/ PickUpOrder
    \/ \E e \in Entities : LockExpires(e)
    \/ \E r \in Rules : SetRuleStatus(r)
    \/ \E id \in results : ForgetResult(id)
    \/ \E j \in queue : StartJob(j) \/ DropJob(j)
    \/ \E w \in DOMAIN job :
          \/ CheckLog(w) \/ Execute(w) \/ FlushJob(w) \/ Release(w)
          \/ CommitJob(w) \/ FinishJob(w) \/ CrashJob(w)
    \/ \E i \in DOMAIN events : ReplayEvent(i)
    \/ ReplayRelease \/ ReplayFails

Spec == Init /\ [][Next]_vars

-----------------------------------------------------------------------------
\* `One transition event must not execute multiple rule sets; replays must
\* no-op once any log exists': also when a job is started again after its
\* commit, its lock has expired and the rules have changed meanwhile.
OneRulePerEvent == \A l, m \in log : l.event = m.event => l = m

LastOf(e, i) ==
    /\ i \in DOMAIN events /\ events[i].entity = e
    /\ \A k \in DOMAIN events : events[k].entity = e => k <= i

\* The history explains the status: an entity has the status of the last event
\* committed for it, however requests and rules overlapped.  Only a request
\* that records a status without comparing (a rescheduled stop that was
\* DELIVERY_SCHEDULED when it was loaded, so that no UPDATE is emitted) and was
\* overtaken by another writer breaks it; a rule never does.
DriftNeedsStaleRepeat ==
    \A e \in Entities, i \in DOMAIN events :
        LastOf(e, i) /\ ~events[i].stale => status[e] = events[i].to

\* Without the exception.
HistoryExplainsStatus ==
    \A e \in Entities, i \in DOMAIN events : LastOf(e, i) => status[e] = events[i].to

\* The nightly replay is a `safety-net reconciliation': after it ran, the
\* transitions for which it found a rule have been executed.
ReplayedEventsExecuted ==
    replay.at = "over" => \A id \in replay.matched : Logged(id)
=============================================================================

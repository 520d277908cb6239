----------------------- MODULE StatusAutomationProofs -----------------------
(***************************************************************************)
(* Proofs about StatusAutomation for all sets of entities, sessions and    *)
(* statuses, every configuration of rules, and any number of requests and  *)
(* crashes.                                                                *)
(***************************************************************************)
EXTENDS StatusAutomation, TLAPS

RequestTyped(x) ==
    /\ x.entity \in Entities
    /\ x = [entity |-> x.entity, at |-> x.at, from |-> x.from, to |-> x.to, event |-> x.event]

QueueTyped(j) ==
    /\ j.entity \in Entities
    /\ j = [id |-> j.id, entity |-> j.entity, to |-> j.to, tries |-> j.tries]

JobTyped(j) ==
    /\ j.entity \in Entities
    /\ j = [entity |-> j.entity, event |-> j.event, at |-> j.at, from |-> j.from, to |-> j.to,
            rule |-> j.rule]

\* What the requests and the jobs refer to.
TypeOK ==
    /\ DOMAIN status = Entities
    /\ events \in Seq({events[i] : i \in DOMAIN events})
    /\ DOMAIN req = Sessions
    /\ \A s \in Sessions : req[s] # None => RequestTyped(req[s])
    /\ \A j \in queue : QueueTyped(j)
    /\ \A w \in DOMAIN job : JobTyped(job[w])

\* A job chooses its rule after it has looked at the log, and as long as it
\* has not committed nobody else logs its event.  It records a transition only
\* if it also updates the row.
JobSound(w, j) ==
    /\ j.at = "check" => j.rule = None /\ j.to = None
    /\ j.at # "done" /\ j.rule # None => ~Logged(w)
    /\ j.to # None => Updates(j)

ChosenInv == \A w \in DOMAIN job : JobSound(w, job[w])

\* The copy of a request that nobody has overtaken is the committed status.
CopyInv ==
    \A s \in Sessions : req[s] # None /\ s \notin overtaken => status[req[s].entity] = req[s].from

IInv == TypeOK /\ ChosenInv /\ OneRulePerEvent /\ CopyInv /\ DriftNeedsStaleRepeat

LEMMA InitIInv == Init => IInv
<1> SUFFICES ASSUME Init PROVE IInv
  OBVIOUS
<1>1. DOMAIN job = {} /\ DOMAIN events = {}
  BY DEF Init
<1>2. events \in Seq({events[i] : i \in DOMAIN events})
  BY DEF Init
<1> QED
  BY <1>1, <1>2 DEF Init, IInv, TypeOK, ChosenInv, OneRulePerEvent, CopyInv, DriftNeedsStaleRepeat

LEMMA SeqOfRange ==
    ASSUME NEW S, NEW s \in Seq(S)
    PROVE  s \in Seq({s[i] : i \in DOMAIN s})
<1>1. DOMAIN s = 1..Len(s) /\ Len(s) \in Nat /\ s = [i \in 1..Len(s) |-> s[i]]
  OBVIOUS
<1> QED
  BY <1>1

\* What appending a transition does to the history.
LEMMA AppendEvent ==
    ASSUME events \in Seq({events[i] : i \in DOMAIN events}), NEW ev, events' = Append(events, ev)
    PROVE  /\ events' \in Seq({events'[i] : i \in DOMAIN events'})
           /\ DOMAIN events' = DOMAIN events \cup {Len(events) + 1}
           /\ Len(events) \in Nat /\ DOMAIN events = 1..Len(events)
           /\ \A i \in DOMAIN events : events'[i] = events[i]
           /\ events'[Len(events) + 1] = ev
<1> DEFINE S == {events[i] : i \in DOMAIN events} \cup {ev}
<1>1. events \in Seq(S)
  <2>1. DOMAIN events = 1..Len(events) /\ Len(events) \in Nat
    OBVIOUS
  <2>2. events \in [1..Len(events) -> S]
    BY <2>1
  <2> QED
    BY <2>1, <2>2
<1> HIDE DEF S
<1>2. /\ events' \in Seq(S) /\ Len(events') = Len(events) + 1 /\ Len(events) \in Nat
      /\ DOMAIN events = 1..Len(events) /\ DOMAIN events' = 1..Len(events')
      /\ \A i \in 1..Len(events) : events'[i] = events[i]
      /\ events'[Len(events) + 1] = ev
  BY <1>1 DEF S
<1>3. events' \in Seq({events'[i] : i \in DOMAIN events'})
  BY <1>2, SeqOfRange
<1> QED
  BY <1>2, <1>3

\* A committed transition with the status the entity has after it.
LEMMA TransitionLast ==
    ASSUME TypeOK, DriftNeedsStaleRepeat, NEW e \in Entities, NEW ev, ev.entity = e,
           events' = Append(events, ev), DOMAIN status' = Entities,
           \A f \in Entities \ {e} : status'[f] = status[f],
           ev.stale \/ status'[e] = ev.to
    PROVE  /\ DriftNeedsStaleRepeat'
           /\ events' \in Seq({events'[i] : i \in DOMAIN events'})
<1>1. /\ events' \in Seq({events'[i] : i \in DOMAIN events'})
      /\ DOMAIN events' = DOMAIN events \cup {Len(events) + 1}
      /\ Len(events) \in Nat /\ DOMAIN events = 1..Len(events)
      /\ \A i \in DOMAIN events : events'[i] = events[i]
      /\ events'[Len(events) + 1] = ev
  BY AppendEvent DEF TypeOK
<1>2. ASSUME NEW f \in Entities, NEW i \in DOMAIN events', LastOf(f, i)', ~events'[i].stale
      PROVE  status'[f] = events'[i].to
  <2>1. CASE i = Len(events) + 1
    BY <1>1, <1>2, <2>1 DEF LastOf
  <2>2. CASE i # Len(events) + 1
    <3>1. i \in DOMAIN events /\ events'[i] = events[i] /\ i < Len(events) + 1
      BY <1>1, <2>2
    <3>2. f # e
      BY <1>1, <1>2, <3>1 DEF LastOf
    <3>3. LastOf(f, i)
      BY <1>1, <1>2, <3>1 DEF LastOf
    <3> QED
      BY <1>2, <3>1, <3>2, <3>3 DEF DriftNeedsStaleRepeat
  <2> QED
    BY <2>1, <2>2
<1> QED
  BY <1>1, <1>2 DEF DriftNeedsStaleRepeat

\* What a committed write does to the statuses and to the copies of others.
LEMMA WriteCopies ==
    ASSUME TypeOK, CopyInv, NEW x, x.entity \in Entities, NEW R \in SUBSET Sessions,
           status' = Written(x), overtaken' = (overtaken \cup Overtaking(x)) \ R,
           DOMAIN req' = Sessions,
           \A s \in Sessions : (s \notin R /\ req'[s] = req[s]) \/ req'[s] = None
    PROVE  /\ DOMAIN status' = Entities
           /\ \A f \in Entities \ {x.entity} : status'[f] = status[f]
           /\ Updates(x) => status'[x.entity] = x.to
           /\ ~Updates(x) => status' = status
           /\ CopyInv'
<1>1. /\ DOMAIN status' = Entities
      /\ \A f \in Entities \ {x.entity} : status'[f] = status[f]
      /\ Updates(x) => status'[x.entity] = x.to
      /\ ~Updates(x) => status' = status
  BY DEF Written, TypeOK
<1>2. ASSUME NEW s \in Sessions, req'[s] # None, s \notin overtaken'
      PROVE  status'[req'[s].entity] = req'[s].from
  <2>1. /\ s \notin R /\ req'[s] = req[s] /\ s \notin overtaken /\ s \notin Overtaking(x)
        /\ req[s].entity \in Entities
    BY <1>2 DEF TypeOK, RequestTyped
  <2>2. status'[req[s].entity] = status[req[s].entity]
    BY <1>1, <1>2, <2>1 DEF Overtaking
  <2> QED
    BY <1>2, <2>1, <2>2 DEF CopyInv
<1> QED
  BY <1>1, <1>2 DEF CopyInv

\* Steps that commit nothing are right when the requests and jobs they leave are.
LEMMA NoCommit ==
    ASSUME IInv, UNCHANGED <<status, events, log>>,
           DOMAIN req' = Sessions, overtaken' \subseteq overtaken,
           \A s \in Sessions :
              \/ req'[s] = None
              \/ /\ RequestTyped(req'[s])
                 /\ s \notin overtaken' => status[req'[s].entity] = req'[s].from,
           \A j \in queue' : QueueTyped(j),
           \A w \in DOMAIN job' : JobTyped(job'[w]) /\ JobSound(w, job'[w])
    PROVE  IInv'
<1>1. TypeOK'
  BY DEF IInv, TypeOK
<1>2. ChosenInv'
  BY DEF ChosenInv, JobSound, Logged
<1>3. OneRulePerEvent' /\ DriftNeedsStaleRepeat'
  BY DEF IInv, OneRulePerEvent, DriftNeedsStaleRepeat, LastOf
<1>4. CopyInv'
  BY DEF CopyInv
<1> QED
  BY <1>1, <1>2, <1>3, <1>4 DEF IInv

\* What is known of a request, a queued and a running job.
LEMMA OpenRequest ==
    ASSUME IInv, NEW s \in Sessions, req[s] # None
    PROVE  /\ RequestTyped(req[s])
           /\ s \notin overtaken => status[req[s].entity] = req[s].from
BY DEF IInv, TypeOK, CopyInv

LEMMA RunningJob ==
    ASSUME IInv, NEW w \in DOMAIN job
    PROVE  JobTyped(job[w]) /\ JobSound(w, job[w])
BY DEF IInv, TypeOK, ChosenInv

\* Steps that leave the requests and the running jobs alone.
LEMMA OtherIInv ==
    ASSUME IInv,
           \/ \E e \in Entities : LockExpires(e)
           \/ PickUpOrder
           \/ \E r \in Rules : SetRuleStatus(r)
           \/ \E id \in results : ForgetResult(id)
           \/ \E j \in queue : DropJob(j)
           \/ \E i \in DOMAIN events : ReplayEvent(i)
           \/ ReplayRelease \/ ReplayFails \/ UNCHANGED vars
    PROVE  IInv'
<1>1. UNCHANGED <<status, events, log, job, req, overtaken>>
  BY DEF LockExpires, PickUpOrder, SetRuleStatus, ForgetResult,
         DropJob, ReplayEvent, ReplayRelease, ReplayFails, vars
<1>2. queue' \subseteq queue
  BY DEF LockExpires, PickUpOrder, SetRuleStatus, ForgetResult,
         DropJob, ReplayEvent, ReplayRelease, ReplayFails, vars
<1>3. (\A j \in queue' : QueueTyped(j)) /\ DOMAIN req' = Sessions
  BY <1>1, <1>2 DEF IInv, TypeOK
<1> QED
  BY <1>1, <1>3, OpenRequest, RunningJob, NoCommit

-----------------------------------------------------------------------------
(* Requests *)

\* Steps of one request that commit nothing.
LEMMA RequestStep ==
    ASSUME IInv, NEW s \in Sessions, NEW x, req' = [req EXCEPT ![s] = x],
           x = None \/ (RequestTyped(x) /\ (s \notin overtaken => status[x.entity] = x.from)),
           UNCHANGED <<status, events, log, job>>,
           overtaken' = overtaken \/ (x = None /\ overtaken' = overtaken \ {s}),
           \A j \in queue' : QueueTyped(j)
    PROVE  IInv'
<1>1. DOMAIN req' = Sessions /\ \A r \in Sessions : req'[r] = IF r = s THEN x ELSE req[r]
  BY DEF IInv, TypeOK
<1>2. \A r \in Sessions : r # s => (r \in overtaken' <=> r \in overtaken)
  OBVIOUS
<1>3. overtaken' \subseteq overtaken
  OBVIOUS
<1>4. ASSUME NEW r \in Sessions, req'[r] # None
      PROVE  RequestTyped(req'[r]) /\ (r \notin overtaken' => status[req'[r].entity] = req'[r].from)
  <2>1. CASE r = s
    BY <1>1, <1>4, <2>1
  <2>2. CASE r # s
    BY <1>1, <1>2, <1>4, <2>2, OpenRequest
  <2> QED
    BY <2>1, <2>2
<1>5. \A w \in DOMAIN job' : JobTyped(job'[w]) /\ JobSound(w, job'[w])
  BY RunningJob
<1> QED
  BY <1>1, <1>3, <1>4, <1>5, NoCommit

LEMMA EnqueueTyped ==
    ASSUME IInv, NEW x, x.entity \in Entities, Enqueue(x) \/ UNCHANGED queue
    PROVE  \A j \in queue' : QueueTyped(j)
BY DEF Enqueue, IInv, TypeOK, QueueTyped

LEMMA LoadIInv ==
    ASSUME IInv, NEW s \in Sessions, NEW e \in Entities, Load(s, e)
    PROVE  IInv'
<1> DEFINE x == [entity |-> e, at |-> "loaded", from |-> status[e], to |-> None, event |-> requests + 1]
<1>1. RequestTyped(x) /\ status[x.entity] = x.from
  BY DEF RequestTyped
<1>2. /\ req' = [req EXCEPT ![s] = x] /\ UNCHANGED <<status, events, log, job, overtaken>>
      /\ \A j \in queue' : QueueTyped(j)
  BY DEF Load, IInv, TypeOK
<1> QED
  BY <1>1, <1>2, RequestStep

LEMMA ChangeStatusIInv ==
    ASSUME IInv, NEW s \in Sessions, NEW to \in Statuses, ChangeStatus(s, to)
    PROVE  IInv'
<1> DEFINE x == [req[s] EXCEPT !.at = "changed", !.to = to]
<1>1. /\ req' = [req EXCEPT ![s] = x] /\ UNCHANGED <<status, events, log, job, overtaken>>
      /\ req[s] # None /\ (Enqueue(x) \/ UNCHANGED queue)
  BY DEF ChangeStatus
<1>2. RequestTyped(req[s]) /\ (s \notin overtaken => status[req[s].entity] = req[s].from)
  BY <1>1, OpenRequest
<1>3. x = [entity |-> req[s].entity, at |-> "changed", from |-> req[s].from, to |-> to,
           event |-> req[s].event]
  <2>1. PICK e, a, f, t, n : req[s] = [entity |-> e, at |-> a, from |-> f, to |-> t, event |-> n]
    BY <1>2 DEF RequestTyped
  <2> DEFINE k == [entity |-> e, at |-> "changed", from |-> f, to |-> t, event |-> n]
  <2>2. [req[s] EXCEPT !.at = "changed"] = k
    BY <2>1
  <2>3. [k EXCEPT !.to = to] = [entity |-> e, at |-> "changed", from |-> f, to |-> to, event |-> n]
    OBVIOUS
  <2>4. x = [[req[s] EXCEPT !.at = "changed"] EXCEPT !.to = to]
    OBVIOUS
  <2> QED
    BY <2>1, <2>2, <2>3, <2>4
<1> HIDE DEF x
<1>4. RequestTyped(x) /\ x.entity = req[s].entity /\ x.from = req[s].from
  BY <1>2, <1>3 DEF RequestTyped
<1>5. \A j \in queue' : QueueTyped(j)
  BY <1>1, <1>2, <1>4, EnqueueTyped DEF RequestTyped
<1> QED
  BY <1>1, <1>2, <1>4, <1>5, RequestStep

LEMMA FlushIInv ==
    ASSUME IInv, NEW s \in Sessions, Flush(s)
    PROVE  IInv'
<1> DEFINE x == [req[s] EXCEPT !.at = "flushed"]
<1>1. /\ req' = [req EXCEPT ![s] = x] /\ UNCHANGED <<status, events, log, job, overtaken>>
      /\ req[s] # None /\ (Enqueue(req[s]) \/ UNCHANGED queue)
  BY DEF Flush
<1>2. RequestTyped(req[s]) /\ (s \notin overtaken => status[req[s].entity] = req[s].from)
  BY <1>1, OpenRequest
<1>3. x = [entity |-> req[s].entity, at |-> "flushed", from |-> req[s].from, to |-> req[s].to,
           event |-> req[s].event]
  BY <1>2 DEF RequestTyped
<1> HIDE DEF x
<1>4. RequestTyped(x) /\ x.entity = req[s].entity /\ x.from = req[s].from
  BY <1>2, <1>3 DEF RequestTyped
<1>5. \A j \in queue' : QueueTyped(j)
  BY <1>1, <1>2, EnqueueTyped DEF RequestTyped
<1> QED
  BY <1>1, <1>2, <1>4, <1>5, RequestStep

LEMMA RollbackIInv ==
    ASSUME IInv, NEW s \in Sessions, RollbackRequest(s)
    PROVE  IInv'
<1>1. /\ req' = [req EXCEPT ![s] = None] /\ UNCHANGED <<status, events, log, job, queue>>
      /\ overtaken' = overtaken \ {s}
  BY DEF RollbackRequest
<1>2. \A j \in queue' : QueueTyped(j)
  BY <1>1 DEF IInv, TypeOK
<1> QED
  BY <1>1, <1>2, RequestStep

\* A repeated status is true unless the request was overtaken.
LEMMA CommitRequestIInv ==
    ASSUME IInv, NEW s \in Sessions, CommitRequest(s)
    PROVE  IInv'
<1> DEFINE x == req[s]
           ev == [id |-> x.event, entity |-> x.entity, to |-> x.to, stale |-> StaleRepeat(s)]
<1>1. /\ x # None /\ req' = [req EXCEPT ![s] = None]
      /\ status' = Written(x) /\ events' = Append(events, ev)
      /\ overtaken' = (overtaken \cup Overtaking(x)) \ {s}
      /\ UNCHANGED <<log, queue, job>>
  BY DEF CommitRequest
<1>2. RequestTyped(x) /\ (s \notin overtaken => status[x.entity] = x.from) /\ x.entity \in Entities
  BY <1>1, OpenRequest DEF RequestTyped
<1>3. /\ DOMAIN req' = Sessions
      /\ \A r \in Sessions : (r \notin {s} /\ req'[r] = req[r]) \/ req'[r] = None
  BY <1>1 DEF IInv, TypeOK
<1>4. /\ DOMAIN status' = Entities
      /\ \A f \in Entities \ {x.entity} : status'[f] = status[f]
      /\ Updates(x) => status'[x.entity] = x.to
      /\ ~Updates(x) => status' = status
      /\ CopyInv'
  <2> HIDE DEF x
  <2>1. TypeOK /\ CopyInv /\ {s} \in SUBSET Sessions
    BY DEF IInv
  <2> QED
    BY <1>1, <1>2, <1>3, <2>1, WriteCopies
<1>5. ev.stale \/ status'[x.entity] = x.to
  BY <1>2, <1>4 DEF StaleRepeat, Updates
<1>6. DriftNeedsStaleRepeat' /\ events' \in Seq({events'[i] : i \in DOMAIN events'})
  <2>1. ev.entity = x.entity /\ ev.to = x.to
    OBVIOUS
  <2> HIDE DEF ev, x
  <2> QED
    BY <1>1, <1>2, <1>4, <1>5, <2>1, TransitionLast DEF IInv
<1>7. TypeOK'
  BY <1>1, <1>3, <1>4, <1>6 DEF IInv, TypeOK
<1>8. ChosenInv' /\ OneRulePerEvent'
  BY <1>1 DEF IInv, ChosenInv, JobSound, Logged, OneRulePerEvent
<1> QED
  BY <1>4, <1>6, <1>7, <1>8 DEF IInv

-----------------------------------------------------------------------------
(* Jobs *)

\* Steps that change jobs and commit nothing.
LEMMA JobsStep ==
    ASSUME IInv, UNCHANGED <<status, events, log, req, overtaken>>,
           \A j \in queue' : QueueTyped(j),
           \A w \in DOMAIN job' : JobTyped(job'[w]) /\ JobSound(w, job'[w])
    PROVE  IInv'
<1>1. DOMAIN req' = Sessions
  BY DEF IInv, TypeOK
<1> QED
  BY <1>1, OpenRequest, NoCommit

LEMMA StartJobIInv ==
    ASSUME IInv, NEW j \in queue, StartJob(j)
    PROVE  IInv'
<1>1. QueueTyped(j) /\ j.entity \in Entities
  BY DEF IInv, TypeOK, QueueTyped
<1>2. UNCHANGED <<status, events, log, req, overtaken>>
  BY DEF StartJob
<1>3. \A k \in queue' : QueueTyped(k)
  <2>1. \A k \in queue : QueueTyped(k)
    BY DEF IInv, TypeOK
  <2>2. QueueTyped([j EXCEPT !.tries = @ + 1])
    <3>1. [j EXCEPT !.tries = @ + 1] = [id |-> j.id, entity |-> j.entity, to |-> j.to,
                                        tries |-> j.tries + 1]
      BY <1>1 DEF QueueTyped
    <3> QED
      BY <1>1, <3>1 DEF QueueTyped
  <2> QED
    BY <2>1, <2>2 DEF StartJob
<1>4. \A w \in DOMAIN job' : (w \in DOMAIN job /\ job'[w] = job[w]) \/ job'[w] = Started(j)
  BY DEF StartJob
<1>5. JobTyped(Started(j)) /\ Started(j).rule = None /\ Started(j).to = None
  BY <1>1 DEF JobTyped, Started
<1>6. \A w : JobSound(w, Started(j))
  BY <1>5 DEF JobSound
<1> QED
  BY <1>2, <1>3, <1>4, <1>5, <1>6, RunningJob, JobsStep

\* Steps of one job that only move it forward.
LEMMA JobStepIInv ==
    ASSUME IInv, NEW w \in DOMAIN job, NEW new,
           UNCHANGED <<status, events, log, req, overtaken, queue>>,
           job' = [job EXCEPT ![w] = new], JobTyped(new), JobSound(w, new)
    PROVE  IInv'
<1>1. \A v \in DOMAIN job' : v \in DOMAIN job /\ job'[v] = IF v = w THEN new ELSE job[v]
  OBVIOUS
<1>2. \A k \in queue' : QueueTyped(k)
  BY DEF IInv, TypeOK
<1> QED
  BY <1>1, <1>2, RunningJob, JobsStep

\* A job that is moved on without another change.
LEMMA MovedJob ==
    ASSUME NEW j, JobTyped(j), NEW a
    PROVE  /\ JobTyped([j EXCEPT !.at = a])
           /\ [j EXCEPT !.at = a].at = a /\ [j EXCEPT !.at = a].rule = j.rule
           /\ [j EXCEPT !.at = a].to = j.to /\ [j EXCEPT !.at = a].from = j.from
<1> DEFINE new == [j EXCEPT !.at = a]
<1>1. new = [entity |-> j.entity, event |-> j.event, at |-> a, from |-> j.from, to |-> j.to,
             rule |-> j.rule]
  BY DEF JobTyped
<1> HIDE DEF new
<1>2. JobTyped(new) /\ new.at = a /\ new.rule = j.rule /\ new.to = j.to /\ new.from = j.from
  BY <1>1 DEF JobTyped
<1> QED
  BY <1>2 DEF new

LEMMA CheckLogIInv ==
    ASSUME IInv, NEW w \in DOMAIN job, CheckLog(w)
    PROVE  IInv'
<1> DEFINE r == FirstMatch(job[w].entity, job[w].event)
           new == IF AlreadyProcessed(w) \/ r = None THEN [job[w] EXCEPT !.at = "release"]
                  ELSE [job[w] EXCEPT !.at = "execute", !.rule = r]
<1>1. JobTyped(job[w]) /\ job[w].rule = None /\ job[w].to = None
  BY RunningJob DEF CheckLog, JobSound
<1>2. /\ job' = [job EXCEPT ![w] = new]
      /\ UNCHANGED <<status, events, log, req, overtaken, queue>>
  BY DEF CheckLog
<1>3. JobTyped(new) /\ JobSound(w, new)
  <2>1. CASE AlreadyProcessed(w) \/ r = None
    <3>1. JobTyped(new) /\ new.at = "release" /\ new.rule = None /\ new.to = None
      BY <1>1, <2>1, MovedJob
    <3> QED
      BY <3>1 DEF JobSound
  <2>2. CASE ~(AlreadyProcessed(w) \/ r = None)
    <3>1. PICK e, v, a, f, t, u :
            job[w] = [entity |-> e, event |-> v, at |-> a, from |-> f, to |-> t, rule |-> u]
      BY <1>1 DEF JobTyped
    <3> HIDE DEF r
    <3>2. new = [entity |-> e, event |-> v, at |-> "execute", from |-> f, to |-> t, rule |-> r]
      <4> DEFINE k == [entity |-> e, event |-> v, at |-> "execute", from |-> f, to |-> t, rule |-> u]
      <4>1. [job[w] EXCEPT !.at = "execute"] = k
        BY <3>1
      <4>2. [k EXCEPT !.rule = r] =
              [entity |-> e, event |-> v, at |-> "execute", from |-> f, to |-> t, rule |-> r]
        OBVIOUS
      <4>3. new = [[job[w] EXCEPT !.at = "execute"] EXCEPT !.rule = r]
        BY <2>2
      <4> QED
        BY <4>1, <4>2, <4>3
    <3> HIDE DEF new
    <3>3. JobTyped(new) /\ new.at = "execute" /\ new.to = None
      BY <1>1, <3>1, <3>2 DEF JobTyped
    <3> QED
      BY <2>2, <3>3 DEF JobSound, AlreadyProcessed
  <2> QED
    BY <2>1, <2>2
<1> HIDE DEF new
<1> QED
  BY <1>2, <1>3, JobStepIInv

\* The rule does nothing if the status it loads is the one it would set.
LEMMA ExecuteIInv ==
    ASSUME IInv, NEW w \in DOMAIN job, Execute(w)
    PROVE  IInv'
<1> DEFINE now == status[job[w].entity]
           new == [job[w] EXCEPT !.at = "flush", !.from = now, !.to = Changed(w)]
<1>1. JobTyped(job[w]) /\ (job[w].rule # None => ~Logged(w))
  BY RunningJob DEF Execute, JobSound
<1>2. /\ job' = [job EXCEPT ![w] = new]
      /\ UNCHANGED <<status, events, log, req, overtaken, queue>>
  BY DEF Execute
<1>3. Changed(w) # None => now # Changed(w)
  BY DEF Changed
<1>4. JobTyped(new) /\ JobSound(w, new)
  <2>1. PICK e, v, a, f, t, u :
          job[w] = [entity |-> e, event |-> v, at |-> a, from |-> f, to |-> t, rule |-> u]
    BY <1>1 DEF JobTyped
  <2> DEFINE c == Changed(w)
  <2> HIDE DEF now, c
  <2>2. new = [entity |-> e, event |-> v, at |-> "flush", from |-> now, to |-> c, rule |-> u]
    <3> DEFINE k == [entity |-> e, event |-> v, at |-> "flush", from |-> f, to |-> t, rule |-> u]
               m == [entity |-> e, event |-> v, at |-> "flush", from |-> now, to |-> t, rule |-> u]
    <3>1. [job[w] EXCEPT !.at = "flush"] = k
      BY <2>1
    <3>2. [k EXCEPT !.from = now] = m
      OBVIOUS
    <3>3. [m EXCEPT !.to = c] =
            [entity |-> e, event |-> v, at |-> "flush", from |-> now, to |-> c, rule |-> u]
      OBVIOUS
    <3>4. new = [[[job[w] EXCEPT !.at = "flush"] EXCEPT !.from = now] EXCEPT !.to = c]
      BY DEF c
    <3> QED
      BY <3>1, <3>2, <3>3, <3>4
  <2> HIDE DEF new
  <2>3. JobTyped(new) /\ new.at = "flush" /\ new.from = now /\ new.to = c /\ new.rule = job[w].rule
    BY <1>1, <2>1, <2>2 DEF JobTyped
  <2> QED
    BY <1>1, <1>3, <2>3 DEF JobSound, Updates, c
<1> HIDE DEF new
<1> QED
  BY <1>2, <1>4, JobStepIInv

LEMMA MoveIInv ==
    ASSUME IInv, NEW w \in DOMAIN job, FlushJob(w) \/ Release(w)
    PROVE  IInv'
<1>1. PICK a \in {"release", "commit"} :
         /\ job' = [job EXCEPT ![w] = [job[w] EXCEPT !.at = a]]
         /\ UNCHANGED <<status, events, log, req, overtaken, queue>>
         /\ job[w].at \in {"flush", "release"}
  BY DEF FlushJob, Release
<1> DEFINE new == [job[w] EXCEPT !.at = a]
<1>2. JobTyped(job[w]) /\ JobSound(w, job[w])
  BY RunningJob
<1>3. /\ JobTyped(new) /\ new.at = a /\ new.rule = job[w].rule
      /\ new.to = job[w].to /\ new.from = job[w].from
  BY <1>2, MovedJob
<1> HIDE DEF new
<1>4. JobSound(w, new)
  BY <1>1, <1>2, <1>3 DEF JobSound, Updates
<1>5. job' = [job EXCEPT ![w] = new]
  BY <1>1 DEF new
<1> QED
  BY <1>1, <1>3, <1>4, <1>5, JobStepIInv

LEMMA EndIInv ==
    ASSUME IInv, NEW w \in DOMAIN job, FinishJob(w) \/ CrashJob(w)
    PROVE  IInv'
<1>1. UNCHANGED <<status, events, log, req, overtaken>> /\ \A k \in queue' : QueueTyped(k)
  BY DEF FinishJob, CrashJob, IInv, TypeOK
<1>2. \A v \in DOMAIN job' : v \in DOMAIN job /\ job'[v] = job[v]
  BY DEF FinishJob, CrashJob
<1> QED
  BY <1>1, <1>2, RunningJob, JobsStep

\* The commit logs the event of the job for the first time, and updates the row
\* when it records a transition.
LEMMA CommitJobIInv ==
    ASSUME IInv, NEW w \in DOMAIN job, CommitJob(w)
    PROVE  IInv'
<1> DEFINE x == job[w]
           new == [x EXCEPT !.at = "done"]
<1>0. /\ job' = [job EXCEPT ![w] = new] /\ UNCHANGED <<req, queue>>
      /\ log' = IF x.rule = None THEN log ELSE log \cup {[event |-> w, rule |-> x.rule]}
      /\ x.at = "commit"
  BY DEF CommitJob
<1>1. /\ x.entity \in Entities /\ JobTyped(x) /\ (x.rule # None => ~Logged(w))
      /\ x.to # None => Updates(x)
  BY <1>0, RunningJob DEF JobTyped, JobSound
<1>2. /\ DriftNeedsStaleRepeat' /\ CopyInv' /\ DOMAIN status' = Entities
      /\ events' \in Seq({events'[i] : i \in DOMAIN events'})
  <2>1. CASE x.to = None
    <3>1. UNCHANGED <<status, events, overtaken>>
      BY <2>1 DEF CommitJob
    <3> QED
      BY <1>0, <3>1 DEF IInv, TypeOK, DriftNeedsStaleRepeat, LastOf, CopyInv
  <2>2. CASE x.to # None
    <3> DEFINE ev == [id |-> None, entity |-> x.entity, to |-> x.to, stale |-> FALSE]
    <3>1. /\ status' = Written(x) /\ events' = Append(events, ev)
          /\ overtaken' = (overtaken \cup Overtaking(x)) \ {}
      BY <2>2 DEF CommitJob
    <3>2. ev.entity = x.entity /\ ev.to = x.to
      OBVIOUS
    <3> HIDE DEF x, ev
    <3>3. TypeOK /\ CopyInv /\ DriftNeedsStaleRepeat /\ {} \in SUBSET Sessions
      BY DEF IInv
    <3>4. DOMAIN req' = Sessions /\ \A s \in Sessions : s \notin {} /\ req'[s] = req[s]
      BY <1>0, <3>3 DEF TypeOK
    <3>5. /\ DOMAIN status' = Entities
          /\ \A f \in Entities \ {x.entity} : status'[f] = status[f]
          /\ Updates(x) => status'[x.entity] = x.to
          /\ CopyInv'
      BY <1>1, <3>1, <3>3, <3>4, WriteCopies
    <3>6. status'[x.entity] = ev.to
      BY <1>1, <2>2, <3>2, <3>5
    <3> QED
      BY <1>1, <3>1, <3>2, <3>3, <3>5, <3>6, TransitionLast
  <2> QED
    BY <2>1, <2>2
<1>3. /\ JobTyped(new) /\ new.at = "done" /\ new.rule = x.rule
      /\ new.to = x.to /\ new.from = x.from
  BY <1>1, MovedJob
<1> HIDE DEF new
<1>4. \A v \in DOMAIN job' : v \in DOMAIN job /\ job'[v] = IF v = w THEN new ELSE job[v]
  BY <1>0
<1>5. TypeOK'
  <2>1. \A v \in DOMAIN job' : JobTyped(job'[v])
    BY <1>3, <1>4, RunningJob
  <2> QED
    BY <1>0, <1>2, <2>1 DEF IInv, TypeOK
<1>6. ChosenInv'
  <2>1. \A v \in DOMAIN job : v # w => (Logged(v)' <=> Logged(v))
    BY <1>0 DEF Logged
  <2>2. ASSUME NEW v \in DOMAIN job' PROVE JobSound(v, job[v])'
    <3>1. CASE v = w
      <4>1. job'[v] = new
        BY <1>4, <3>1
      <4> QED
        BY <1>1, <1>3, <4>1 DEF JobSound, Updates
    <3>2. CASE v # w
      BY <1>4, <2>1, <3>2, RunningJob DEF JobSound
    <3> QED
      BY <3>1, <3>2
  <2> QED
    BY <2>2 DEF ChosenInv
<1>7. OneRulePerEvent'
  BY <1>0, <1>1 DEF IInv, OneRulePerEvent, Logged
<1> QED
  BY <1>2, <1>5, <1>6, <1>7 DEF IInv

-----------------------------------------------------------------------------
LEMMA NextIInv == IInv /\ [Next]_vars => IInv'
BY OtherIInv, LoadIInv, ChangeStatusIInv, FlushIInv, RollbackIInv, CommitRequestIInv, StartJobIInv,
   CheckLogIInv, ExecuteIInv, MoveIInv, EndIInv, CommitJobIInv DEF Next

LEMMA Invariance == Spec => []IInv
BY InitIInv, NextIInv, PTL DEF Spec

\* No event executes two rule sets, whatever jobs are repeated and whichever
\* locks expire: the log and the single job per event are enough, and the
\* Redis lock of the entity is not needed for it.
THEOREM EventExecutedOnce == Spec => []OneRulePerEvent
BY Invariance, PTL DEF IInv

\* Every entity has the status of its last committed event, unless that event
\* was recorded by a request that repeated the status of an overtaken copy.
THEOREM StatusDriftsOnlyByStaleRepeat == Spec => []DriftNeedsStaleRepeat
BY Invariance, PTL DEF IInv
=============================================================================

-------------------------- MODULE AuditBooksProofs -------------------------
(***************************************************************************)
(* Two records of what the company did that are kept by concurrent         *)
(* transactions.  The audit chain of an organisation is linear for every   *)
(* number of transactions, provided the machines' clocks agree.  The books *)
(* in QuickBooks have no document twice, and the fingerprints of the       *)
(* documents are those of what QuickBooks holds, for every number of jobs, *)
(* tries, requests and lost enqueues.                                      *)
(***************************************************************************)
EXTENDS AuditChain, QuickBooks, FiniteSetTheorems, TLAPS

-----------------------------------------------------------------------------
(* The audit chain. *)

\* All machines read the same clock.
NoSkew == \A s \in Sessions : Skew[Host[s]] = 0

\* A set of rows that forms one chain of rows not younger than the clock.
Stamped(R) == \A r \in R : r.at = r.id /\ r.id <= clock
UniqueIds(R) == \A r, q \in R : r.id = q.id => r = q
Linked(R) == \A r \in R : r.prev # NoRow => \E q \in R : q.id = r.prev /\ q.at < r.at
Unforked(R) == \A r, q \in R : r.prev = q.prev => r = q
Chain(R) == Stamped(R) /\ UniqueIds(R) /\ Linked(R) /\ Unforked(R)

\* Only the holder of the chain lock has uncommitted rows; what is committed
\* is a chain, and so is what each transaction sees.  The second part is what
\* the insertion of a row needs, the first what a rollback needs.
ChainInv ==
    /\ TypeOK
    /\ \A s \in Sessions : own[s] # {} => chainLock = s
    /\ Chain(committed)
    /\ \A s \in Sessions : Chain(Visible(s))

\* The initial state satisfies the inductive invariant.
LEMMA InitChain == ChainInit => ChainInv
BY DEF ChainInit, ChainInv, TypeOK, Chain, Stamped, UniqueIds, Linked, Unforked, Visible

\* Appending a row behind the latest row of a chain gives a chain.
LEMMA ExtendChain ==
    ASSUME NEW R \in SUBSET AuditRow, Chain(R), clock \in Nat, clock' = clock + 1,
           NEW h, IF R = {} THEN h = NoRow
                  ELSE \E r \in R : h = r.id /\ \A q \in R : q.at <= r.at,
           NEW n, n = [id |-> clock + 1, at |-> clock + 1, prev |-> h]
    PROVE  n \in AuditRow /\ Chain(R \cup {n})'
<1> DEFINE Q == R \cup {n}
<1>1. /\ \A r \in R : r.id \in Nat /\ r.id # 0 /\ r.at \in Nat /\ r.prev \in Nat
      /\ \A r \in R : r.at = r.id /\ r.id <= clock
  BY DEF AuditRow, Chain, Stamped
<1>2. h \in Nat /\ n \in AuditRow /\ n.id = clock + 1 /\ n.at = clock + 1 /\ n.prev = h
  BY <1>1 DEF AuditRow, NoRow
<1>3. Stamped(Q)'
  BY <1>1, <1>2 DEF Stamped
<1>4. UniqueIds(Q)
  BY <1>1, <1>2 DEF Chain, UniqueIds
<1>5. Linked(Q)
  <2> SUFFICES ASSUME NEW r \in Q, r.prev # NoRow
               PROVE  \E q \in Q : q.id = r.prev /\ q.at < r.at
    BY DEF Linked
  <2>1. CASE r \in R
    BY <2>1 DEF Chain, Linked
  <2>2. CASE r = n
    BY <1>1, <1>2, <2>2
  <2> QED
    BY <2>1, <2>2
<1>6. \A r \in R : r.prev # h
  <2> SUFFICES ASSUME NEW r \in R, r.prev = h PROVE FALSE
    OBVIOUS
  <2>1. PICK m \in R : h = m.id /\ \A q \in R : q.at <= m.at
    OBVIOUS
  <2>2. PICK q \in R : q.id = r.prev /\ q.at < r.at
    BY <1>1, <2>1 DEF Chain, Linked, NoRow
  <2>3. q = m
    BY <2>1, <2>2 DEF Chain, UniqueIds
  <2> QED
    BY <1>1, <2>1, <2>2, <2>3
<1>7. Unforked(Q)
  BY <1>2, <1>6 DEF Chain, Unforked
<1>8. UniqueIds(Q)' /\ Linked(Q)' /\ Unforked(Q)'
  BY <1>4, <1>5, <1>7 DEF UniqueIds, Linked, Unforked
<1> QED
  BY <1>2, <1>3, <1>8 DEF Chain

\* A chain stays one while the clock does not go back.
LEMMA KeepChain ==
    ASSUME NEW R \in SUBSET AuditRow, Chain(R), clock \in Nat, clock' \in Nat, clock <= clock'
    PROVE  Chain(R)'
BY DEF Chain, Stamped, UniqueIds, Linked, Unforked, AuditRow

LEMMA LogChainInv ==
    ASSUME NoSkew, ChainInv, NEW s \in Sessions, NEW h \in 0..MaxClock, Log(s, h)
    PROVE  ChainInv'
<1>0. PICK n, V : n = [id |-> clock + 1, at |-> clock + 1, prev |-> h] /\ V = Visible(s)
  OBVIOUS
<1>1. /\ clock \in Nat /\ clock' = clock + 1 /\ committed' = committed
      /\ own' = [own EXCEPT ![s] = @ \cup {n}] /\ chainLock' = s
  <2>1. clock \in Nat /\ Skew[Host[s]] = 0
    BY DEF NoSkew, ChainInv, TypeOK
  <2>2. clock + 1 + Skew[Host[s]] = clock + 1
    BY <2>1
  <2> QED
    BY <1>0, <2>1, <2>2 DEF Log
<1>2. /\ committed \subseteq AuditRow /\ own \in [Sessions -> SUBSET AuditRow]
      /\ V \in SUBSET AuditRow /\ Chain(V)
  BY <1>0 DEF ChainInv, TypeOK, Visible
<1>3. IF V = {} THEN h = NoRow
      ELSE \E r \in V : h = r.id /\ \A q \in V : q.at <= r.at
  BY <1>0 DEF Log, LatestHash
<1>4. n \in AuditRow /\ Chain(V \cup {n})'
  BY <1>0, <1>1, <1>2, <1>3, ExtendChain
<1>5. TypeOK'
  BY <1>1, <1>2, <1>4 DEF ChainInv, TypeOK
<1>6. \A t \in Sessions : t # s => own[t] = {} /\ own'[t] = {}
  BY <1>1, <1>2, ConstantsAssumption DEF ChainInv, Log
<1>7. Chain(committed)'
  BY <1>1, <1>2, KeepChain DEF ChainInv
<1>8. ASSUME NEW t \in Sessions PROVE Chain(Visible(t))'
  <2>1. CASE t = s
    <3>1. Visible(s)' = V \cup {n}
      BY <1>0, <1>1, <1>2 DEF Visible
    <3> QED
      BY <1>4, <2>1, <3>1
  <2>2. CASE t # s
    <3>1. Visible(t)' = committed'
      BY <1>6, <2>2 DEF Visible
    <3> QED
      BY <1>7, <3>1
  <2> QED
    BY <2>1, <2>2
<1> QED
  BY <1>1, <1>5, <1>6, <1>7, <1>8 DEF ChainInv

LEMMA EndChainInv ==
    ASSUME ChainInv, NEW s \in Sessions, Commit(s) \/ Rollback(s)
    PROVE  ChainInv'
<1>1. /\ clock \in Nat /\ clock' = clock /\ chainLock' = NoSession
      /\ committed \subseteq AuditRow /\ own \in [Sessions -> SUBSET AuditRow]
      /\ own' = [own EXCEPT ![s] = {}]
  BY DEF ChainInv, TypeOK, Commit, Rollback
<1>2. \A t \in Sessions : own'[t] = {}
  BY <1>1 DEF ChainInv, Commit, Rollback
<1>3. committed' \subseteq AuditRow /\ Chain(committed)'
  <2>1. CASE Commit(s)
    <3>1. committed' = Visible(s) /\ Visible(s) \in SUBSET AuditRow /\ Chain(Visible(s))
      BY <1>1, <2>1 DEF Commit, Visible, ChainInv
    <3>2. Chain(committed')
      BY <3>1
    <3> QED
      BY <1>1, <3>1, <3>2 DEF Chain, Stamped, UniqueIds, Linked, Unforked
  <2>2. CASE Rollback(s)
    BY <1>1, <2>2, KeepChain DEF Rollback, ChainInv
  <2> QED
    BY <2>1, <2>2
<1>4. TypeOK'
  BY <1>1, <1>3 DEF TypeOK
<1>5. \A t \in Sessions : Visible(t)' = committed'
  BY <1>2 DEF Visible
<1>6. \A t \in Sessions : Chain(Visible(t))'
  BY <1>3, <1>5
<1> QED
  BY <1>2, <1>3, <1>4, <1>6 DEF ChainInv

\* With synchronised clocks every step preserves the inductive invariant.
LEMMA NextChainInv == NoSkew /\ ChainInv /\ [ChainNext]_chainVars => ChainInv'
<1> SUFFICES ASSUME NoSkew, ChainInv, [ChainNext]_chainVars PROVE ChainInv'
  OBVIOUS
<1>1. CASE ChainNext
  BY <1>1, LogChainInv, EndChainInv DEF ChainNext
<1>2. CASE UNCHANGED chainVars
  BY <1>2 DEF chainVars, ChainInv, TypeOK, Chain, Stamped, UniqueIds, Linked, Unforked, Visible
<1> QED
  BY <1>1, <1>2

\* With synchronised clocks the committed rows never fork.
THEOREM ChainIsLinear ==
    ASSUME NoSkew PROVE ChainSpec => []NoFork
<1>1. ChainInv => NoFork
  BY DEF ChainInv, Chain, Unforked, NoFork
<1>2. ChainInv /\ [ChainNext]_chainVars => ChainInv'
  BY NextChainInv
<1> QED
  BY <1>1, <1>2, InitChain, PTL DEF ChainSpec

\* With synchronised clocks no committed row hangs on a row that is missing.
THEOREM ChainIsComplete ==
    ASSUME NoSkew PROVE ChainSpec => []NoDanglingHash
<1>1. ChainInv => NoDanglingHash
  BY DEF ChainInv, Chain, Linked, NoDanglingHash
<1>2. ChainInv /\ [ChainNext]_chainVars => ChainInv'
  BY NextChainInv
<1> QED
  BY <1>1, <1>2, InitChain, PTL DEF ChainSpec

-----------------------------------------------------------------------------
(* QuickBooks: the inductive invariant.                                    *)

\* The functions from a part of S to T.
Partial(S, T) == UNION {[D -> T] : D \in SUBSET S}

\* The steps a job can have before it, and the rows of the tables and records.
VoidSteps == {"void_invoice", "void_credit_note"}
StepNames == Entities \cup VoidSteps \cup {"allocation"}
SyncStatus == {"NOT_SYNCED", "QUEUED", "SYNCED"}
Id == Nat \cup {None}

DocRow == [state : {"DRAFT", "LIVE", "VOID"}, content : Nat, status : SyncStatus, fp : Id]
LinkRow == [id : Id, token : Nat, status : SyncStatus, version : Nat]
RemoteRow == [entity : Entities, content : Nat, token : Nat, void : BOOLEAN]
QueueRow == [id : JobIds, task : Tasks, force : BOOLEAN, tries : Nat]
ApiRow == [doc : Docs, row : DocRow] \cup [doc : {"customer"}, row : LinkRow]
JobRow == [force : BOOLEAN, todo : Seq(StepNames), rows : Partial(Docs, DocRow),
           links : Partial(Entities, LinkRow), sent : SUBSET Entities,
           absent : SUBSET Docs, call : CallRow \cup {None}, created : SUBSET Nat]

\* Every variable has the type the tables give it.
BooksTypeOK ==
    /\ row \in [Docs -> DocRow]
    /\ link \in [Entities -> LinkRow]
    /\ lock \in [Entities -> {None, ApiSession} \cup JobIds]
    /\ remote \in Seq(RemoteRow)
    /\ queue \subseteq QueueRow
    /\ requests \in Nat
    /\ api \in ApiRow \cup {None}
    /\ job \in Partial(JobIds, JobRow)
    /\ lost \in [Entities -> Nat]
    /\ forced \in [Entities -> Nat]

\* The object id of QuickBooks belongs to the entity e.
Pointer(e, id) == id \in 1..Len(remote) /\ remote[id].entity = e

\* The rows that a step of a job reads are loaded when it is planned.
Ready(s, rows) ==
    /\ s \in Docs => s \in DOMAIN rows
    /\ s = "allocation" => "payment" \in DOMAIN rows
    /\ s = "void_invoice" => "invoice" \in DOMAIN rows /\ rows["invoice"].state = "VOID"

\* A job brings the customer to QuickBooks before anything but voids.
CustomerFirst(todo) ==
    \/ \A i \in 1..Len(todo) : todo[i] \in VoidSteps
    \/ todo # << >> /\ Head(todo) = "customer"

\* What a job has to do, and what it has confirmed or called for, is about rows
\* it has loaded.
PlanOK(j) ==
    /\ \A i \in 1..Len(j.todo) : Ready(j.todo[i], j.rows)
    /\ "customer" \notin DOMAIN j.links => CustomerFirst(j.todo)
    /\ j.call # None =>
          /\ j.todo # << >>
          /\ "customer" \notin DOMAIN j.links =>
                j.call.e = "customer" \/ \A i \in 1..Len(j.todo) : j.todo[i] \in VoidSteps
    /\ \A d \in Docs : d \in j.sent \/ (j.call # None /\ j.call.e = d) => d \in DOMAIN j.rows

\* What a job has written is its own until it ends, and refers to objects of
\* the right kind.
OwnOK(w, j) ==
    /\ \A e \in DOMAIN j.links : lock[e] = w /\ j.links[e].id # None /\ Pointer(e, j.links[e].id)
    /\ j.call # None => Pointer(j.call.e, j.call.id)
    /\ j.created \subseteq 1..Len(remote)

\* What a job has created is recorded by it, or about to be, and while that is
\* so it holds the link of the customer.
CreatedOK(j) ==
    ~j.force => \A i \in j.created : remote[i].entity # "customer" =>
        /\ "customer" \in DOMAIN j.links
        /\ \/ remote[i].entity \in DOMAIN j.links
           \/ j.call # None /\ j.call.e = remote[i].entity

JobOK(w, j) == PlanOK(j) /\ OwnOK(w, j) /\ CreatedOK(j)

\* The customer's link does not change while a request has written it.
CustomerOK ==
    api # None /\ api.doc = "customer" =>
        lock["customer"] = ApiSession /\ api.row.id \in {None, link["customer"].id}

LinksOK == \A e \in Entities : link[e].id # None => Pointer(e, link[e].id)

\* An object of e is accounted for by the committed link or by a running job.
Booked(e) ==
    \/ link[e].id # None
    \/ \E w \in DOMAIN job : ~job[w].force /\ \E i \in job[w].created : remote[i].entity = e

\* Without an account of it there is only what forced and rolled back jobs left.
CountOK ==
    \A e \in Entities \ {"customer"} :
        /\ Cardinality(RemoteOf(e)) <= lost[e] + forced[e] + 1
        /\ ~Booked(e) => Cardinality(RemoteOf(e)) <= lost[e] + forced[e]

\* The inductive invariant of the accounts.
BooksInv ==
    /\ BooksTypeOK /\ CustomerOK /\ LinksOK /\ CountOK
    /\ \A w \in DOMAIN job : JobOK(w, job[w])

-----------------------------------------------------------------------------
(* The fingerprints. *)

\* A payment is never voided; a credit note is never edited while it is live.
RowOK(d, r) ==
    /\ d = "payment" => r.state = "LIVE"
    /\ d = "credit_note" => /\ r.state \in {"LIVE", "VOID"}
                            /\ r.state = "LIVE" => r.content = 0

\* The fingerprint a job leaves on the document.
SyncedFp(j, d) ==
    LET r == j.rows[d]
    IN  IF r.state = "VOID" \/ r.fp = r.content THEN row[d].fp ELSE r.content

\* The version of a link as the job sees it.
Version(j, e) == IF e \in DOMAIN j.links THEN j.links[e].version ELSE link[e].version

\* No forced job has created an object for d or updated it.
Plain(d) == forced[d] = 0 /\ d \notin resent

\* What QuickBooks holds, and whether a link or an answer is up to date with it.
Payload(id) == remote[id].content
Current(l) == remote[l.id].token = l.token

\* A loaded row has a fingerprint only if its document has a link.
FpRowsOK(j) ==
    \A d \in DOMAIN j.rows :
        RowOK(d, j.rows[d]) /\ (j.rows[d].fp # None => link[d].id # None)

\* What a job confirms without a call has an unchanged fingerprint.
FpSentOK(j) ==
    \A d \in Docs : d \in j.sent /\ d \notin DOMAIN j.links => j.rows[d].fp = j.rows[d].content

\* A link that a job wrote is newer than the committed one, and while QuickBooks
\* shows its token, it holds the fingerprint the job will leave.
FpLinksOK(j) ==
    \A d \in Docs : d \in DOMAIN j.links =>
        /\ d \in j.sent
        /\ j.links[d].version > link[d].version
        /\ j.links[d].token <= remote[j.links[d].id].token
        /\ Plain(d) /\ Current(j.links[d]) => Payload(j.links[d].id) = SyncedFp(j, d)

\* The same of an answer: it was sent from a changed row, or it can be recorded
\* only while the link is as it was read.
FpCallOK(j) ==
    \A d \in Docs : j.call # None /\ j.call.e = d =>
        /\ j.call.read <= Version(j, d)
        /\ j.call.token <= remote[j.call.id].token
        /\ Plain(d) /\ Current(j.call) =>
              \/ /\ j.rows[d].state # "VOID" /\ j.rows[d].fp # j.rows[d].content
                 /\ Payload(j.call.id) = j.rows[d].content
              \/ /\ j.call.read # 0
                 /\ Version(j, d) = j.call.read => Payload(j.call.id) = SyncedFp(j, d)

FpJobOK(j) == FpRowsOK(j) /\ FpSentOK(j) /\ FpLinksOK(j) /\ FpCallOK(j)

\* The same of a committed row and its link.
FpDocOK(d) ==
    /\ RowOK(d, row[d])
    /\ row[d].fp # None => link[d].id # None
    /\ link[d].id # None =>
          /\ link[d].version # 0
          /\ link[d].token <= remote[link[d].id].token
          /\ Plain(d) /\ Current(link[d]) => row[d].fp = Payload(link[d].id)

\* The inductive invariant of the fingerprints, relative to BooksInv.
FingerprintInv ==
    /\ \A d \in Docs : FpDocOK(d)
    /\ api # None /\ api.doc \in Docs => RowOK(api.doc, api.row)
    /\ \A i \in 1..Len(remote) : remote[i].entity = "credit_note" => remote[i].content = 0
    /\ \A w \in DOMAIN job : FpJobOK(job[w])

-----------------------------------------------------------------------------
(* Partial functions, sequences and the records of the model. *)

LEMMA PartialFacts ==
  ASSUME NEW S, NEW T, NEW f \in Partial(S, T)
  PROVE  /\ DOMAIN f \subseteq S
         /\ \A x \in DOMAIN f : f[x] \in T
         /\ f = [x \in DOMAIN f |-> f[x]]
  BY DEF Partial

LEMMA PartialIntro ==
  ASSUME NEW S, NEW T, NEW D \in SUBSET S, NEW f \in [D -> T]
  PROVE  f \in Partial(S, T)
  BY DEF Partial

LEMMA WithFacts ==
  ASSUME NEW f, NEW x, NEW v
  PROVE  /\ DOMAIN With(f, x, v) = DOMAIN f \cup {x}
         /\ With(f, x, v)[x] = v
         /\ \A y \in DOMAIN f : y # x => With(f, x, v)[y] = f[y]
  BY DEF With

LEMMA PartialWith ==
  ASSUME NEW S, NEW T, NEW f \in Partial(S, T), NEW x \in S, NEW v \in T
  PROVE  With(f, x, v) \in Partial(S, T)
  <1>1. DOMAIN f \subseteq S /\ \A y \in DOMAIN f : f[y] \in T
    BY PartialFacts
  <1>2. With(f, x, v) \in [DOMAIN f \cup {x} -> T]
    BY <1>1 DEF With
  <1> QED BY <1>1, <1>2, PartialIntro

LEMMA PartialExcept ==
  ASSUME NEW S, NEW T, NEW f \in Partial(S, T), NEW x \in DOMAIN f, NEW v \in T
  PROVE  /\ [f EXCEPT ![x] = v] \in Partial(S, T)
         /\ DOMAIN [f EXCEPT ![x] = v] = DOMAIN f
         /\ [f EXCEPT ![x] = v][x] = v
         /\ \A y \in DOMAIN f : y # x => [f EXCEPT ![x] = v][y] = f[y]
  <1>1. DOMAIN f \subseteq S /\ f \in [DOMAIN f -> T]
    BY DEF Partial
  <1>2. [f EXCEPT ![x] = v] \in [DOMAIN f -> T]
    BY <1>1
  <1> QED BY <1>1, <1>2, PartialIntro

LEMMA PartialWithout ==
  ASSUME NEW S, NEW T, NEW f \in Partial(S, T), NEW x
  PROVE  [y \in DOMAIN f \ {x} |-> f[y]] \in Partial(S, T)
  <1>1. DOMAIN f \subseteq S /\ \A y \in DOMAIN f : f[y] \in T
    BY PartialFacts
  <1>2. [y \in DOMAIN f \ {x} |-> f[y]] \in [DOMAIN f \ {x} -> T]
    BY <1>1
  <1> QED BY <1>1, <1>2, PartialIntro

LEMMA NoEntriesFacts ==
  ASSUME NEW S, NEW T
  PROVE  NoEntries \in Partial(S, T) /\ DOMAIN NoEntries = {}
  <1>1. NoEntries \in [{} -> T] /\ DOMAIN NoEntries = {}
    BY DEF NoEntries
  <1> QED BY <1>1, PartialIntro

\* What holds of every member of a sequence holds of its tail and its head.
LEMMA TailFacts ==
  ASSUME NEW S, NEW t \in Seq(S), t # << >>
  PROVE  /\ Tail(t) \in Seq(S)
         /\ Len(Tail(t)) = Len(t) - 1
         /\ \A i \in 1..Len(Tail(t)) : i + 1 \in 1..Len(t) /\ Tail(t)[i] = t[i + 1]
         /\ 1 \in 1..Len(t) /\ Head(t) = t[1] /\ Head(t) \in S
  OBVIOUS

LEMMA ConcatFacts ==
  ASSUME NEW S, NEW s \in Seq(S), NEW t \in Seq(S)
  PROVE  /\ s \o t \in Seq(S)
         /\ \A i \in 1..Len(s \o t) :
              \/ i \in 1..Len(s) /\ (s \o t)[i] = s[i]
              \/ i - Len(s) \in 1..Len(t) /\ (s \o t)[i] = t[i - Len(s)]
         /\ s # << >> => s \o t # << >> /\ Head(s \o t) = Head(s)
  OBVIOUS

LEMMA EmptyFacts ==
  ASSUME NEW S
  PROVE  << >> \in Seq(S) /\ Len(<< >>) = 0 /\ 1..0 = {}
  OBVIOUS

\* The records of running jobs after a step.
LEMMA PlannedFacts ==
  ASSUME NEW j \in JobRow, NEW rows \in Partial(Docs, DocRow), NEW todo \in Seq(StepNames),
         NEW k, k = Planned(j, rows, todo)
  PROVE  /\ k \in JobRow
         /\ k.force = j.force /\ k.todo = todo /\ k.rows = rows /\ k.links = j.links
         /\ k.sent = j.sent /\ k.call = j.call /\ k.created = j.created
  BY DEF JobRow, Planned

LEMMA ConfirmedFacts ==
  ASSUME NEW j \in JobRow, j.todo # << >>, NEW d \in Entities, NEW k, k = Confirmed(j, d)
  PROVE  /\ k \in JobRow
         /\ k.force = j.force /\ k.todo = Tail(j.todo) /\ k.rows = j.rows /\ k.links = j.links
         /\ k.sent = j.sent \cup {d} /\ k.call = j.call /\ k.created = j.created
  <1>1. Tail(j.todo) \in Seq(StepNames)
    BY TailFacts DEF JobRow
  <1> QED BY <1>1 DEF JobRow, Confirmed

LEMMA AbsentFacts ==
  ASSUME NEW j \in JobRow, j.todo # << >>, NEW rows \in Partial(Docs, DocRow), NEW d \in Docs,
         NEW k, k = Absent(j, rows, d)
  PROVE  /\ k \in JobRow
         /\ k.force = j.force /\ k.todo = Tail(j.todo) /\ k.rows = rows /\ k.links = j.links
         /\ k.sent = j.sent /\ k.call = j.call /\ k.created = j.created
  <1>1. Tail(j.todo) \in Seq(StepNames)
    BY TailFacts DEF JobRow
  <1> QED BY <1>1 DEF JobRow, Absent

LEMMA CalledFacts ==
  ASSUME NEW j \in JobRow, NEW rows \in Partial(Docs, DocRow), NEW c \in CallRow,
         NEW k, k = Called(j, rows, c)
  PROVE  /\ k \in JobRow
         /\ k.force = j.force /\ k.todo = j.todo /\ k.rows = rows /\ k.links = j.links
         /\ k.sent = j.sent /\ k.call = c /\ k.created = j.created
  BY DEF JobRow, Called

LEMMA CreatedFacts ==
  ASSUME NEW j \in JobRow, NEW c \in CallRow, NEW k, k = Created(j, c)
  PROVE  /\ k \in JobRow
         /\ k.force = j.force /\ k.todo = j.todo /\ k.rows = j.rows /\ k.links = j.links
         /\ k.sent = j.sent /\ k.call = c /\ k.created = j.created \cup {c.id}
  BY DEF JobRow, CallRow, Created

LEMMA RecordedFacts ==
  ASSUME NEW j \in JobRow, j.todo # << >>, NEW e \in Entities, NEW l \in LinkRow,
         NEW k, k = Recorded(j, e, l)
  PROVE  /\ k \in JobRow
         /\ k.force = j.force /\ k.todo = Tail(j.todo) /\ k.rows = j.rows
         /\ k.links = With(j.links, e, l)
         /\ k.sent = j.sent \cup {e} /\ k.call = None /\ k.created = j.created
  <1>1. Tail(j.todo) \in Seq(StepNames)
    BY TailFacts DEF JobRow
  <1>2. With(j.links, e, l) \in Partial(Entities, LinkRow)
    BY PartialWith DEF JobRow
  <1> QED BY <1>1, <1>2 DEF JobRow, Recorded

-----------------------------------------------------------------------------
(* What a step may do to the objects in QuickBooks, and what survives it. *)

\* Objects are added and their tokens grow; a payload changes with the token.
RemoteGrows ==
    /\ remote' \in Seq(RemoteRow)
    /\ Len(remote) <= Len(remote')
    /\ \A i \in 1..Len(remote) :
          /\ remote'[i].entity = remote[i].entity
          /\ remote[i].token <= remote'[i].token
          /\ remote'[i].token = remote[i].token => remote'[i].content = remote[i].content

LEMMA GrowsSame ==
  ASSUME remote \in Seq(RemoteRow), remote' = remote
  PROVE  RemoteGrows
  <1>1. \A i \in 1..Len(remote) : remote[i] \in RemoteRow
    OBVIOUS
  <1>2. \A i \in 1..Len(remote) : remote[i].token \in Nat
    BY <1>1 DEF RemoteRow
  <1> QED BY <1>2 DEF RemoteGrows

LEMMA GrowsAppend ==
  ASSUME remote \in Seq(RemoteRow), NEW r \in RemoteRow, remote' = Append(remote, r)
  PROVE  /\ RemoteGrows
         /\ Len(remote') = Len(remote) + 1
         /\ remote'[Len(remote) + 1] = r
         /\ \A i \in 1..Len(remote) : remote'[i] = remote[i]
  <1>1. \A i \in 1..Len(remote) : remote[i] \in RemoteRow
    OBVIOUS
  <1>2. \A i \in 1..Len(remote) : remote[i].token \in Nat
    BY <1>1 DEF RemoteRow
  <1>3. /\ remote' \in Seq(RemoteRow)
        /\ Len(remote') = Len(remote) + 1
        /\ remote'[Len(remote) + 1] = r
        /\ \A i \in 1..Len(remote) : remote'[i] = remote[i]
    OBVIOUS
  <1> QED BY <1>2, <1>3 DEF RemoteGrows

LEMMA GrowsUpdate ==
  ASSUME remote \in Seq(RemoteRow), NEW id \in 1..Len(remote), NEW r \in RemoteRow,
         r.entity = remote[id].entity, r.token = remote[id].token + 1,
         remote' = [remote EXCEPT ![id] = r]
  PROVE  /\ RemoteGrows
         /\ Len(remote') = Len(remote)
         /\ remote'[id] = r
         /\ \A i \in 1..Len(remote) : i # id => remote'[i] = remote[i]
  <1>1. \A i \in 1..Len(remote) : remote[i] \in RemoteRow
    OBVIOUS
  <1>2. \A i \in 1..Len(remote) : remote[i].token \in Nat
    BY <1>1 DEF RemoteRow
  <1>3. /\ remote' \in Seq(RemoteRow)
        /\ Len(remote') = Len(remote)
        /\ remote'[id] = r
        /\ \A i \in 1..Len(remote) : i # id => remote'[i] = remote[i]
    OBVIOUS
  <1> QED BY <1>2, <1>3 DEF RemoteGrows

LEMMA PointerStable ==
  ASSUME remote \in Seq(RemoteRow), RemoteGrows, NEW e, NEW id, Pointer(e, id)
  PROVE  Pointer(e, id)'
  BY DEF RemoteGrows, Pointer

\* A job whose record and whose locks stay as they are stays sound.
LEMMA JobStable ==
  ASSUME remote \in Seq(RemoteRow), RemoteGrows, NEW w, NEW j, JobOK(w, j),
         \A e \in DOMAIN j.links : lock'[e] = lock[e]
  PROVE  JobOK(w, j)'
  <1>1. PlanOK(j)'
    BY DEF JobOK, PlanOK, Ready, CustomerFirst
  <1>2. OwnOK(w, j)'
    <2>1. \A e \in DOMAIN j.links :
             lock'[e] = w /\ j.links[e].id # None /\ Pointer(e, j.links[e].id)'
      BY PointerStable DEF JobOK, OwnOK
    <2>2. j.call # None => Pointer(j.call.e, j.call.id)'
      BY PointerStable DEF JobOK, OwnOK
    <2>3. j.created \subseteq 1..Len(remote')
      BY DEF JobOK, OwnOK, RemoteGrows
    <2> QED BY <2>1, <2>2, <2>3 DEF OwnOK
  <1>3. CreatedOK(j)'
    <2>1. \A i \in j.created : remote'[i].entity = remote[i].entity
      BY DEF JobOK, OwnOK, RemoteGrows
    <2> QED BY <2>1 DEF JobOK, CreatedOK
  <1> QED BY <1>1, <1>2, <1>3 DEF JobOK

LEMMA LinksStable ==
  ASSUME remote \in Seq(RemoteRow), RemoteGrows, LinksOK, link' = link
  PROVE  LinksOK'
  BY PointerStable DEF LinksOK

\* Objects of an entity: their number, and how a step changes it.
LEMMA RemoteOfFinite ==
  ASSUME remote \in Seq(RemoteRow), NEW e
  PROVE  IsFiniteSet(RemoteOf(e)) /\ Cardinality(RemoteOf(e)) \in Nat
  <1>1. IsFiniteSet(1..Len(remote)) /\ RemoteOf(e) \subseteq 1..Len(remote)
    BY FS_Interval DEF RemoteOf
  <1> QED BY <1>1, FS_Subset, FS_CardinalityType

LEMMA RemoteOfSame ==
  ASSUME remote \in Seq(RemoteRow), RemoteGrows, Len(remote') = Len(remote), NEW e
  PROVE  RemoteOf(e)' = RemoteOf(e)
  BY DEF RemoteGrows, RemoteOf

LEMMA RemoteOfMore ==
  ASSUME remote \in Seq(RemoteRow), RemoteGrows, Len(remote') = Len(remote) + 1, NEW e
  PROVE  /\ remote'[Len(remote) + 1].entity = e =>
               Cardinality(RemoteOf(e)') = Cardinality(RemoteOf(e)) + 1
         /\ remote'[Len(remote) + 1].entity # e => RemoteOf(e)' = RemoteOf(e)
  <1>1. ASSUME remote'[Len(remote) + 1].entity = e
        PROVE  RemoteOf(e)' = RemoteOf(e) \cup {Len(remote) + 1}
    BY <1>1 DEF RemoteGrows, RemoteOf
  <1>2. Len(remote) + 1 \notin RemoteOf(e)
    BY DEF RemoteOf
  <1>3. ASSUME remote'[Len(remote) + 1].entity # e
        PROVE  RemoteOf(e)' = RemoteOf(e)
    BY <1>3 DEF RemoteGrows, RemoteOf
  <1> QED BY <1>1, <1>2, <1>3, RemoteOfFinite, FS_AddElement

-----------------------------------------------------------------------------
(* A job w whose transaction becomes k, while all others stay.             *)

Moves(w, k) ==
    /\ w \in DOMAIN job /\ k \in JobRow
    /\ job' = [job EXCEPT ![w] = k]
    /\ RemoteGrows
    /\ link' = link /\ row' = row /\ queue' = queue /\ requests' = requests
    /\ api' = api /\ lost' = lost

LEMMA JobFacts ==
  ASSUME BooksTypeOK, NEW w \in DOMAIN job
  PROVE  w \in JobIds /\ w # None /\ w # ApiSession /\ job[w] \in JobRow
  BY PartialFacts, NoneAssumption DEF BooksTypeOK

LEMMA MoveFacts ==
  ASSUME BooksTypeOK, NEW w, NEW k, Moves(w, k)
  PROVE  /\ job' \in Partial(JobIds, JobRow)
         /\ DOMAIN job' = DOMAIN job
         /\ job'[w] = k
         /\ \A v \in DOMAIN job : v # w => job'[v] = job[v]
  <1>1. job \in Partial(JobIds, JobRow) /\ w \in DOMAIN job /\ k \in JobRow
    BY DEF BooksTypeOK, Moves
  <1> QED BY <1>1, PartialExcept DEF Moves

LEMMA JobOKAt ==
  ASSUME NEW w, NEW k, JobOK(w, k)', job'[w] = k
  PROVE  JobOK(w, job[w])'
  BY DEF JobOK, PlanOK, OwnOK, CreatedOK, Ready, CustomerFirst, Pointer

\* A step of a job keeps the invariant if the job stays sound, if it leaves the
\* locks of the others alone and if the objects it created are accounted for.
LEMMA MoveKeeps ==
  ASSUME BooksInv, NEW w, NEW k, Moves(w, k), JobOK(w, k)',
         lock' \in [Entities -> {None, ApiSession} \cup JobIds],
         \A e \in Entities : lock[e] \notin {None, w} => lock'[e] = lock[e],
         forced' \in [Entities -> Nat], CountOK'
  PROVE  BooksInv'
  <1> USE DEF BooksInv
  <1>1. BooksTypeOK'
    BY MoveFacts DEF BooksTypeOK, Moves, RemoteGrows
  <1>2. remote \in Seq(RemoteRow) /\ RemoteGrows
    BY DEF BooksTypeOK, Moves
  <1>3. CustomerOK'
    <2>1. lock["customer"] = ApiSession => lock'["customer"] = ApiSession
      BY JobFacts, NoneAssumption DEF BooksTypeOK, Moves, Entities
    <2> QED BY <2>1 DEF CustomerOK, Moves
  <1>4. LinksOK'
    BY <1>2, LinksStable DEF Moves
  <1>5. ASSUME NEW v \in DOMAIN job'
        PROVE  JobOK(v, job[v])'
    <2>1. CASE v = w
      BY <2>1, MoveFacts, JobOKAt
    <2>2. CASE v # w
      <3>1. v \in DOMAIN job /\ job'[v] = job[v]
        BY <2>2, <1>5, MoveFacts
      <3> PICK j : j = job[v]
        OBVIOUS
      <3>2. v \in JobIds /\ v # None /\ j \in JobRow /\ DOMAIN j.links \subseteq Entities
        BY <3>1, JobFacts, PartialFacts DEF JobRow
      <3>3. JobOK(v, j)
        BY <3>1
      <3>4. \A e \in DOMAIN j.links : lock'[e] = lock[e]
        BY <3>2, <3>3, <2>2 DEF JobOK, OwnOK
      <3>5. JobOK(v, j)'
        BY <1>2, <3>3, <3>4, JobStable
      <3> QED BY <3>1, <3>5, JobOKAt
    <2> QED BY <2>1, <2>2
  <1> QED BY <1>1, <1>3, <1>4, <1>5

\* If a step creates nothing, the accounts stay as they are.
LEMMA CountSame ==
  ASSUME BooksInv, NEW w, NEW k, Moves(w, k), Len(remote') = Len(remote), forced' = forced,
         k.force = job[w].force, k.created = job[w].created
  PROVE  CountOK'
  <1> USE DEF BooksInv
  <1>1. \A e \in Entities : RemoteOf(e)' = RemoteOf(e)
    BY RemoteOfSame DEF BooksTypeOK, Moves
  <1>2. ASSUME NEW e \in Entities, Booked(e)
        PROVE  Booked(e)'
    <2>1. CASE link[e].id # None
      BY <2>1 DEF Booked, Moves
    <2>2. CASE \E v \in DOMAIN job : ~job[v].force /\ \E i \in job[v].created : remote[i].entity = e
      <3> PICK v \in DOMAIN job : ~job[v].force /\ \E i \in job[v].created : remote[i].entity = e
        BY <2>2
      <3> PICK i \in job[v].created : remote[i].entity = e
        OBVIOUS
      <3>1. v \in DOMAIN job' /\ job'[v].force = job[v].force /\ job'[v].created = job[v].created
        BY MoveFacts DEF Moves
      <3>2. i \in 1..Len(remote)
        BY DEF JobOK, OwnOK
      <3>3. remote'[i].entity = e
        BY <3>2 DEF Moves, RemoteGrows
      <3> QED BY <3>1, <3>3 DEF Booked
    <2> QED BY <1>2, <2>1, <2>2 DEF Booked
  <1> QED BY <1>1, <1>2 DEF CountOK, Moves

\* A job that creates an object has no unrecorded one of the same entity, and no
\* other running job has one: each would hold the link of the customer.
LEMMA CountMore ==
  ASSUME BooksInv, NEW w, NEW k, Moves(w, k), NEW e \in Entities,
         Len(remote') = Len(remote) + 1, remote'[Len(remote) + 1].entity = e,
         job[w].call = None,
         k.force = job[w].force, k.created = job[w].created \cup {Len(remote) + 1},
         e # "customer" => "customer" \in DOMAIN job[w].links,
         e # "customer" /\ ~job[w].force => link[e].id = None /\ e \notin DOMAIN job[w].links,
         forced' = IF job[w].force THEN [forced EXCEPT ![e] = forced[e] + 1] ELSE forced
  PROVE  CountOK'
  <1> USE DEF BooksInv
  <1>0. /\ w \in DOMAIN job /\ job'[w] = k /\ DOMAIN job' = DOMAIN job
        /\ \A v \in DOMAIN job : v # w => job'[v] = job[v]
    BY MoveFacts DEF Moves
  <1>1. \A d \in Entities : Cardinality(RemoteOf(d)) \in Nat /\ lost[d] \in Nat /\ forced[d] \in Nat
    BY RemoteOfFinite DEF BooksTypeOK
  <1>2. /\ Cardinality(RemoteOf(e)') = Cardinality(RemoteOf(e)) + 1
        /\ \A d \in Entities : d # e => RemoteOf(d)' = RemoteOf(d)
    BY RemoteOfMore DEF BooksTypeOK, Moves
  <1>3. ASSUME NEW d \in Entities, Booked(d)
        PROVE  Booked(d)'
    <2>1. CASE link[d].id # None
      BY <2>1 DEF Booked, Moves
    <2>2. CASE \E v \in DOMAIN job : ~job[v].force /\ \E i \in job[v].created : remote[i].entity = d
      <3> PICK v \in DOMAIN job : ~job[v].force /\ \E i \in job[v].created : remote[i].entity = d
        BY <2>2
      <3> PICK i \in job[v].created : remote[i].entity = d
        OBVIOUS
      <3>1. v \in DOMAIN job' /\ ~job'[v].force /\ i \in job'[v].created
        BY <1>0
      <3>2. i \in 1..Len(remote)
        BY DEF JobOK, OwnOK
      <3>3. remote'[i].entity = d
        BY <3>2 DEF Moves, RemoteGrows
      <3> QED BY <3>1, <3>3 DEF Booked
    <2> QED BY <1>3, <2>1, <2>2 DEF Booked
  <1>4. ASSUME e # "customer", ~job[w].force
        PROVE  ~Booked(e)
    <2> SUFFICES ASSUME NEW v \in DOMAIN job, ~job[v].force,
                        NEW i \in job[v].created, remote[i].entity = e
                 PROVE  FALSE
      BY <1>4 DEF Booked
    <2>1. "customer" \in DOMAIN job[v].links
      BY <1>4 DEF JobOK, CreatedOK
    <2>2. lock["customer"] = v /\ lock["customer"] = w
      BY <1>0, <1>4, <2>1 DEF JobOK, OwnOK
    <2> QED BY <2>2, <1>4 DEF JobOK, CreatedOK
  <1>5. ~job[w].force => Booked(e)'
    BY <1>0 DEF Booked, Moves, BooksTypeOK
  <1>6. ASSUME NEW d \in Entities \ {"customer"}, d # e
        PROVE  /\ Cardinality(RemoteOf(d)') <= lost'[d] + forced'[d] + 1
               /\ ~Booked(d)' => Cardinality(RemoteOf(d)') <= lost'[d] + forced'[d]
    BY <1>1, <1>2, <1>3, <1>6 DEF CountOK, Moves, BooksTypeOK
  <1>7. ASSUME e # "customer"
        PROVE  /\ Cardinality(RemoteOf(e)') <= lost'[e] + forced'[e] + 1
               /\ ~Booked(e)' => Cardinality(RemoteOf(e)') <= lost'[e] + forced'[e]
    <2>1. CASE job[w].force
      <3>1. forced'[e] = forced[e] + 1
        BY <2>1 DEF BooksTypeOK
      <3>2. lost'[e] = lost[e]
        BY DEF Moves
      <3>3. /\ Cardinality(RemoteOf(e)) <= lost[e] + forced[e] + 1
            /\ ~Booked(e) => Cardinality(RemoteOf(e)) <= lost[e] + forced[e]
        BY <1>7 DEF CountOK
      <3> QED BY <1>1, <1>2, <1>3, <3>1, <3>2, <3>3
    <2>2. CASE ~job[w].force
      <3>1. ~Booked(e) /\ Booked(e)'
        BY <1>4, <1>5, <1>7, <2>2
      <3>2. Cardinality(RemoteOf(e)) <= lost[e] + forced[e]
        BY <1>7, <3>1 DEF CountOK
      <3>3. lost'[e] = lost[e] /\ forced'[e] = forced[e]
        BY <2>2 DEF Moves
      <3> QED BY <1>1, <1>2, <3>1, <3>2, <3>3
    <2> QED BY <2>1, <2>2
  <1> QED BY <1>6, <1>7 DEF CountOK

-----------------------------------------------------------------------------
(* The kinds of steps: a changed plan, an answered call, a created object,  *)
(* a recorded answer.                                                      *)

LEMMA PlanMove ==
  ASSUME BooksInv, NEW w, NEW j, NEW k, j = job[w], Moves(w, k),
         remote' = remote, lock' = lock, forced' = forced,
         k.force = j.force, k.links = j.links, k.created = j.created,
         j.call = None, k.call = None, PlanOK(k)
  PROVE  BooksInv'
  <1>1. JobOK(w, j) /\ w \in DOMAIN job
    BY DEF BooksInv, Moves
  <1>2. PlanOK(k)'
    BY DEF PlanOK, Ready, CustomerFirst
  <1>3. OwnOK(w, k)'
    BY <1>1 DEF JobOK, OwnOK, Pointer
  <1>4. CreatedOK(k)'
    BY <1>1 DEF JobOK, CreatedOK
  <1>5. CountOK'
    BY CountSame
  <1> QED BY <1>2, <1>3, <1>4, <1>5, MoveKeeps DEF JobOK, BooksInv, BooksTypeOK

LEMMA CallMove ==
  ASSUME BooksInv, NEW w, NEW j, NEW k, j = job[w], Moves(w, k),
         Len(remote') = Len(remote), lock' = lock, forced' = forced,
         k.force = j.force, k.links = j.links, k.created = j.created,
         j.call = None, k.call # None, Pointer(k.call.e, k.call.id)', PlanOK(k)
  PROVE  BooksInv'
  <1>1. JobOK(w, j) /\ w \in DOMAIN job /\ remote \in Seq(RemoteRow) /\ RemoteGrows
    BY DEF BooksInv, Moves, BooksTypeOK
  <1>2. PlanOK(k)'
    BY DEF PlanOK, Ready, CustomerFirst
  <1>3. JobOK(w, j)'
    BY <1>1, JobStable
  <1>4. OwnOK(w, k)'
    BY <1>3 DEF JobOK, OwnOK, Pointer
  <1>5. CreatedOK(k)'
    BY <1>3 DEF JobOK, CreatedOK
  <1>6. CountOK'
    BY CountSame
  <1> QED BY <1>2, <1>4, <1>5, <1>6, MoveKeeps DEF JobOK, BooksInv, BooksTypeOK

LEMMA CreateMove ==
  ASSUME BooksInv, NEW w, NEW j, NEW k, j = job[w], Moves(w, k), NEW e \in Entities,
         Len(remote') = Len(remote) + 1, remote'[Len(remote) + 1].entity = e, lock' = lock,
         k.force = j.force, k.links = j.links, k.created = j.created \cup {Len(remote) + 1},
         j.call = None, k.call # None, k.call.e = e, k.call.id = Len(remote) + 1, PlanOK(k),
         e # "customer" => "customer" \in DOMAIN j.links,
         e # "customer" /\ ~j.force => link[e].id = None /\ e \notin DOMAIN j.links,
         forced' = IF j.force THEN [forced EXCEPT ![e] = forced[e] + 1] ELSE forced
  PROVE  BooksInv'
  <1>1. JobOK(w, j) /\ w \in DOMAIN job /\ remote \in Seq(RemoteRow) /\ RemoteGrows
    BY DEF BooksInv, Moves, BooksTypeOK
  <1>2. PlanOK(k)'
    BY DEF PlanOK, Ready, CustomerFirst
  <1>3. JobOK(w, j)'
    BY <1>1, JobStable
  <1>4. OwnOK(w, k)'
    BY <1>1, <1>3 DEF JobOK, OwnOK, Pointer
  <1>5. CreatedOK(k)'
    BY <1>3 DEF JobOK, CreatedOK
  <1>6. CountOK'
    BY CountMore
  <1>7. forced' \in [Entities -> Nat]
    BY DEF BooksInv, BooksTypeOK
  <1> QED BY <1>2, <1>4, <1>5, <1>6, <1>7, MoveKeeps DEF JobOK, BooksInv, BooksTypeOK

LEMMA RecordMove ==
  ASSUME BooksInv, NEW w, NEW j, NEW k, j = job[w], Moves(w, k), NEW e \in Entities,
         remote' = remote, forced' = forced,
         lock[e] \in {None, w}, lock' = [lock EXCEPT ![e] = w],
         j.call # None, j.call.e = e,
         DOMAIN k.links = DOMAIN j.links \cup {e}, k.links[e].id = j.call.id,
         \A f \in DOMAIN j.links : f # e => k.links[f] = j.links[f],
         k.force = j.force, k.created = j.created,
         k.call = None, PlanOK(k)
  PROVE  BooksInv'
  <1>1. JobOK(w, j) /\ w \in DOMAIN job /\ j \in JobRow /\ w \in JobIds
    BY JobFacts DEF BooksInv, Moves, BooksTypeOK
  <1>2. PlanOK(k)'
    BY DEF PlanOK, Ready, CustomerFirst
  <1>4. lock' \in [Entities -> {None, ApiSession} \cup JobIds]
        /\ lock'[e] = w /\ \A f \in Entities : f # e => lock'[f] = lock[f]
    BY <1>1 DEF BooksInv, BooksTypeOK
  <1>5. j.call.id \in Nat /\ j.call.id # None
    BY <1>1, NoneAssumption DEF JobRow, CallRow
  <1>6. DOMAIN j.links \subseteq Entities
    BY <1>1, PartialFacts DEF JobRow
  <1>7. OwnOK(w, k)'
    <2>1. \A f \in DOMAIN k.links :
             lock'[f] = w /\ k.links[f].id # None /\ Pointer(f, k.links[f].id)'
      BY <1>1, <1>4, <1>5, <1>6 DEF JobOK, OwnOK, Pointer
    <2> QED BY <2>1, <1>1 DEF JobOK, OwnOK
  <1>8. CreatedOK(k)'
    BY <1>1 DEF JobOK, CreatedOK
  <1>9. CountOK'
    BY CountSame
  <1>10. forced' \in [Entities -> Nat]
    BY DEF BooksInv, BooksTypeOK
  <1> QED BY <1>2, <1>4, <1>7, <1>8, <1>9, <1>10, MoveKeeps DEF JobOK

-----------------------------------------------------------------------------
(* The plan of a job. *)

\* The rows that are loaded stay as they are.
Loads(old, new) == \A d \in DOMAIN old : d \in DOMAIN new /\ new[d] = old[d]

LEMMA LoadFacts ==
  ASSUME BooksTypeOK, NEW w \in DOMAIN job, NEW d \in Docs
  PROVE  /\ Load(w, d) \in Partial(Docs, DocRow)
         /\ DOMAIN Load(w, d) = DOMAIN job[w].rows \cup {d}
         /\ Loads(job[w].rows, Load(w, d))
         /\ Load(w, d)[d] \in DocRow
         /\ d \notin DOMAIN job[w].rows => Load(w, d)[d] = row[d]
  <1>1. job[w].rows \in Partial(Docs, DocRow) /\ row[d] \in DocRow
    BY JobFacts DEF JobRow, BooksTypeOK
  <1>2. CASE d \in DOMAIN job[w].rows
    BY <1>1, <1>2, PartialFacts DEF Load, Loads
  <1>3. CASE d \notin DOMAIN job[w].rows
    <2>1. Load(w, d) = With(job[w].rows, d, row[d])
      BY <1>3 DEF Load
    <2>2. With(job[w].rows, d, row[d]) \in Partial(Docs, DocRow)
      BY <1>1, PartialWith
    <2>3. /\ DOMAIN With(job[w].rows, d, row[d]) = DOMAIN job[w].rows \cup {d}
          /\ With(job[w].rows, d, row[d])[d] = row[d]
          /\ \A f \in DOMAIN job[w].rows : f # d =>
                With(job[w].rows, d, row[d])[f] = job[w].rows[f]
      BY DEF With
    <2> QED BY <1>1, <1>3, <2>1, <2>2, <2>3 DEF Loads
  <1> QED BY <1>2, <1>3

LEMMA ReadyStays ==
  ASSUME NEW s, NEW old, NEW new, Ready(s, old), Loads(old, new)
  PROVE  Ready(s, new)
  BY DEF Ready, Loads

\* A step that is done leaves a sound plan.
LEMMA TailPlan ==
  ASSUME NEW j \in JobRow, j.todo # << >>, PlanOK(j), NEW k,
         "customer" \in DOMAIN j.links \/ Head(j.todo) # "customer",
         k.todo = Tail(j.todo), Loads(j.rows, k.rows), k.links = j.links, k.call = None,
         \A d \in k.sent : d \in j.sent \/ d \in DOMAIN k.rows
  PROVE  PlanOK(k)
  <1>1. j.todo \in Seq(StepNames)
    BY DEF JobRow
  <1>2. \A i \in 1..Len(k.todo) : i + 1 \in 1..Len(j.todo) /\ k.todo[i] = j.todo[i + 1]
    BY <1>1, TailFacts
  <1>3. \A i \in 1..Len(k.todo) : Ready(k.todo[i], k.rows)
    BY <1>2, ReadyStays DEF PlanOK
  <1>4. "customer" \notin DOMAIN k.links => CustomerFirst(k.todo)
    BY <1>2 DEF PlanOK, CustomerFirst
  <1>5. \A d \in Docs : d \in k.sent => d \in DOMAIN k.rows
    BY DEF PlanOK, Loads
  <1> QED BY <1>3, <1>4, <1>5 DEF PlanOK

\* An answered call leaves the plan sound, if it was the first step.
LEMMA CallPlan ==
  ASSUME NEW j \in JobRow, j.todo # << >>, PlanOK(j), NEW k,
         k.todo = j.todo, Loads(j.rows, k.rows), k.links = j.links, k.sent = j.sent,
         k.call.e \in Docs => k.call.e \in DOMAIN k.rows,
         \/ "customer" \in DOMAIN j.links
         \/ Head(j.todo) = k.call.e
         \/ Head(j.todo) \in VoidSteps
  PROVE  PlanOK(k)
  <1>1. j.todo \in Seq(StepNames)
    BY DEF JobRow
  <1>2. 1 \in 1..Len(j.todo) /\ Head(j.todo) = j.todo[1]
    BY <1>1, TailFacts
  <1>3. \A i \in 1..Len(k.todo) : Ready(k.todo[i], k.rows)
    BY ReadyStays DEF PlanOK
  <1>4. "customer" \notin DOMAIN k.links => CustomerFirst(k.todo)
    BY DEF PlanOK
  <1>5. "customer" \notin DOMAIN k.links =>
           k.call.e = "customer" \/ \A i \in 1..Len(k.todo) : k.todo[i] \in VoidSteps
    BY <1>2 DEF PlanOK, CustomerFirst, VoidSteps
  <1>6. \A d \in Docs : d \in k.sent \/ k.call.e = d => d \in DOMAIN k.rows
    BY DEF PlanOK, Loads
  <1> QED BY <1>3, <1>4, <1>5, <1>6 DEF PlanOK

\* The recorded answer of the first step leaves a sound plan.
LEMMA RecordPlan ==
  ASSUME NEW j \in JobRow, PlanOK(j), j.call # None, NEW k,
         k.todo = Tail(j.todo), k.rows = j.rows, k.call = None,
         DOMAIN k.links = DOMAIN j.links \cup {j.call.e}, k.sent = j.sent \cup {j.call.e}
  PROVE  PlanOK(k)
  <1>1. j.todo \in Seq(StepNames) /\ j.todo # << >>
    BY DEF JobRow, PlanOK
  <1>2. \A i \in 1..Len(k.todo) : i + 1 \in 1..Len(j.todo) /\ k.todo[i] = j.todo[i + 1]
    BY <1>1, TailFacts
  <1>3. \A i \in 1..Len(k.todo) : Ready(k.todo[i], k.rows)
    BY <1>2 DEF PlanOK
  <1>4. "customer" \notin DOMAIN k.links => CustomerFirst(k.todo)
    BY <1>2 DEF PlanOK, CustomerFirst
  <1> QED BY <1>3, <1>4 DEF PlanOK

-----------------------------------------------------------------------------
(* The steps of a job. *)

JobFrame == UNCHANGED <<queue, link, lock>> /\ Frame

PlanStep(w, k) ==
    /\ job' = [job EXCEPT ![w] = k]
    /\ UNCHANGED <<remote, forced, resent>> /\ JobFrame

CallOf(w, e, id, token) == [e |-> e, id |-> id, token |-> token, read |-> ReadVersion(w, e)]

\* The object id is updated, which moves its token.
CallStep(w, rows, e, id, content, void) ==
    /\ remote' = [remote EXCEPT ![id] = [entity |-> e, content |-> content,
                                         token |-> remote[id].token + 1, void |-> void]]
    /\ job' = [job EXCEPT ![w] = Called(job[w], rows, CallOf(w, e, id, remote[id].token + 1))]
    /\ forced' = forced /\ JobFrame

CreateStep(w, e, content) == Create(w, e, content) /\ JobFrame

LEMMA LinkViewFacts ==
  ASSUME BooksInv, NEW w \in DOMAIN job, NEW e \in Entities
  PROVE  /\ LinkView(w, e) \in LinkRow
         /\ LinkView(w, e).id # None => Pointer(e, LinkView(w, e).id)
         /\ LinkView(w, e).id = None => link[e].id = None /\ e \notin DOMAIN job[w].links
  <1>1. /\ job[w].links \in Partial(Entities, LinkRow) /\ link[e] \in LinkRow
        /\ JobOK(w, job[w]) /\ LinksOK
    BY JobFacts DEF BooksInv, BooksTypeOK, JobRow
  <1>2. CASE e \in DOMAIN job[w].links
    BY <1>1, <1>2, PartialFacts DEF LinkView, JobOK, OwnOK
  <1>3. CASE e \notin DOMAIN job[w].links
    BY <1>1, <1>3 DEF LinkView, LinksOK
  <1> QED BY <1>2, <1>3

LEMMA AtFacts ==
  ASSUME BooksInv, NEW w \in DOMAIN job, NEW s \in StepNames, At(w, s)
  PROVE  /\ job[w] \in JobRow /\ PlanOK(job[w])
         /\ job[w].call = None /\ job[w].todo # << >> /\ Head(job[w].todo) = s
         /\ Ready(s, job[w].rows)
         /\ s \in VoidSteps \cup {"customer"} \/ "customer" \in DOMAIN job[w].links
  <1> PICK j : j = job[w]
    OBVIOUS
  <1>1. j \in JobRow /\ PlanOK(j) /\ j.todo \in Seq(StepNames)
    BY JobFacts DEF BooksInv, JobOK, JobRow
  <1>2. j.call = None /\ j.todo # << >> /\ Head(j.todo) = s
    BY DEF At, Step, StepNames, Entities, Docs, VoidSteps
  <1>3. 1 \in 1..Len(j.todo) /\ Head(j.todo) = j.todo[1]
    BY <1>1, <1>2, TailFacts
  <1> QED BY <1>1, <1>2, <1>3 DEF PlanOK, CustomerFirst

LEMMA PlanShape ==
  ASSUME BooksInv, NEW w \in DOMAIN job, NEW k \in JobRow, PlanStep(w, k)
  PROVE  Moves(w, k) /\ remote' = remote /\ lock' = lock /\ forced' = forced
  <1>1. RemoteGrows
    BY GrowsSame DEF PlanStep, BooksInv, BooksTypeOK
  <1> QED BY <1>1 DEF PlanStep, Moves, JobFrame, Frame

LEMMA CallShape ==
  ASSUME BooksInv, NEW w \in DOMAIN job, NEW rows \in Partial(Docs, DocRow), NEW e \in Entities,
         NEW id, Pointer(e, id), NEW content \in Nat, NEW void \in BOOLEAN,
         CallStep(w, rows, e, id, content, void),
         NEW c, c = CallOf(w, e, id, remote[id].token + 1),
         NEW k, k = Called(job[w], rows, c)
  PROVE  /\ c \in CallRow /\ c # None /\ Moves(w, k)
         /\ Len(remote') = Len(remote) /\ lock' = lock /\ forced' = forced
         /\ remote'[id].token = remote[id].token + 1 /\ remote'[id].content = content
         /\ \A i \in 1..Len(remote) : i # id => remote'[i] = remote[i]
  <1>1. remote \in Seq(RemoteRow) /\ id \in 1..Len(remote) /\ remote[id].entity = e
    BY DEF BooksInv, BooksTypeOK, Pointer
  <1>2. remote[id] \in RemoteRow
    BY <1>1
  <1>3. remote[id].token \in Nat /\ remote[id].token + 1 \in Nat
    BY <1>2 DEF RemoteRow
  <1> DEFINE r == [entity |-> e, content |-> content, token |-> remote[id].token + 1, void |-> void]
  <1>4. /\ r \in RemoteRow /\ r.entity = remote[id].entity
        /\ r.token = remote[id].token + 1 /\ r.content = content
    BY <1>1, <1>3 DEF RemoteRow
  <1>5. remote' = [remote EXCEPT ![id] = r]
    BY DEF CallStep
  <1> HIDE DEF r
  <1>6. /\ RemoteGrows /\ Len(remote') = Len(remote) /\ remote'[id] = r
        /\ \A i \in 1..Len(remote) : i # id => remote'[i] = remote[i]
    BY <1>1, <1>4, <1>5, GrowsUpdate
  <1>7. c \in CallRow /\ c # None
    <2>1. LinkView(w, e).version \in Nat
      BY LinkViewFacts DEF LinkRow
    <2>2. id \in Nat
      BY <1>1
    <2>3. c \in CallRow
      BY <1>3, <2>1, <2>2 DEF CallOf, CallRow, ReadVersion
    <2> QED BY <2>3, NoneAssumption
  <1>8. k \in JobRow
    BY <1>7, CalledFacts, JobFacts DEF BooksInv
  <1>9. Moves(w, k)
    BY <1>6, <1>8 DEF Moves, CallStep, JobFrame, Frame
  <1> QED BY <1>4, <1>6, <1>7, <1>9 DEF CallStep, JobFrame

LEMMA CreateShape ==
  ASSUME BooksInv, NEW w \in DOMAIN job, NEW e \in Entities, NEW content \in Nat,
         CreateStep(w, e, content),
         NEW c, c = CallOf(w, e, Len(remote) + 1, 0),
         NEW k, k = Created(job[w], c)
  PROVE  /\ c \in CallRow /\ c # None /\ Moves(w, k) /\ lock' = lock
         /\ Len(remote') = Len(remote) + 1
         /\ \A i \in 1..Len(remote) : remote'[i] = remote[i]
         /\ remote'[Len(remote) + 1] =
               [entity |-> e, content |-> content, token |-> 0, void |-> FALSE]
         /\ forced' = IF job[w].force THEN [forced EXCEPT ![e] = forced[e] + 1] ELSE forced
  <1>1. remote \in Seq(RemoteRow) /\ Len(remote) + 1 \in Nat
    BY DEF BooksInv, BooksTypeOK
  <1> DEFINE r == [entity |-> e, content |-> content, token |-> 0, void |-> FALSE]
  <1>2. r \in RemoteRow
    BY DEF RemoteRow
  <1>3. remote' = Append(remote, r)
    BY DEF CreateStep, Create
  <1>4. /\ RemoteGrows /\ Len(remote') = Len(remote) + 1 /\ remote'[Len(remote) + 1] = r
        /\ \A i \in 1..Len(remote) : remote'[i] = remote[i]
    <2> HIDE DEF r
    <2> QED BY <1>1, <1>2, <1>3, GrowsAppend
  <1>5. c \in CallRow /\ c # None
    <2>1. LinkView(w, e).version \in Nat
      BY LinkViewFacts DEF LinkRow
    <2>2. c \in CallRow
      BY <1>1, <2>1 DEF CallOf, CallRow, ReadVersion
    <2> QED BY <2>2, NoneAssumption
  <1>6. k \in JobRow
    BY <1>5, CreatedFacts, JobFacts DEF BooksInv
  <1>7. job' = [job EXCEPT ![w] = k]
    BY DEF CreateStep, Create, CallOf
  <1>8. Moves(w, k)
    BY <1>4, <1>6, <1>7 DEF Moves, CreateStep, JobFrame, Frame
  <1> QED BY <1>4, <1>5, <1>8 DEF CreateStep, Create, JobFrame

\* A call of the first step of a job keeps the invariant.
LEMMA CallKeeps ==
  ASSUME BooksInv, NEW w \in DOMAIN job, NEW rows \in Partial(Docs, DocRow), NEW e \in Entities,
         NEW id, Pointer(e, id), NEW content \in Nat, NEW void \in BOOLEAN,
         NEW s \in StepNames, At(w, s), s = e \/ s \in VoidSteps, Loads(job[w].rows, rows),
         e \in Docs => e \in DOMAIN rows,
         CallStep(w, rows, e, id, content, void)
  PROVE  BooksInv'
  <1> PICK j : j = job[w]
    OBVIOUS
  <1> PICK c : c = CallOf(w, e, id, remote[id].token + 1)
    OBVIOUS
  <1> PICK k : k = Called(j, rows, c)
    OBVIOUS
  <1>1. /\ c \in CallRow /\ c # None /\ Moves(w, k)
        /\ Len(remote') = Len(remote) /\ lock' = lock /\ forced' = forced
    BY CallShape
  <1>2. /\ j \in JobRow /\ PlanOK(j) /\ j.call = None /\ j.todo # << >> /\ Head(j.todo) = s
    BY AtFacts
  <1>3. /\ k.force = j.force /\ k.todo = j.todo /\ k.rows = rows /\ k.links = j.links
        /\ k.sent = j.sent /\ k.call = c /\ k.created = j.created
    BY <1>1, <1>2, CalledFacts
  <1>4. c.e = e /\ c.id = id
    BY DEF CallOf
  <1>5. PlanOK(k)
    BY <1>2, <1>3, <1>4, CallPlan
  <1>6. Pointer(e, id)'
    BY <1>1, PointerStable DEF BooksInv, BooksTypeOK, Moves
  <1>7. Pointer(k.call.e, k.call.id)'
    BY <1>3, <1>4, <1>6 DEF Pointer
  <1> QED BY <1>1, <1>2, <1>3, <1>5, <1>7, CallMove

\* So does the creation of an object that the job has no link to.
LEMMA CreateKeeps ==
  ASSUME BooksInv, NEW w \in DOMAIN job, NEW e \in Entities, NEW content \in Nat, At(w, e),
         e # "customer" /\ ~job[w].force => LinkView(w, e).id = None,
         CreateStep(w, e, content)
  PROVE  BooksInv'
  <1> PICK j : j = job[w]
    OBVIOUS
  <1> PICK c : c = CallOf(w, e, Len(remote) + 1, 0)
    OBVIOUS
  <1> PICK k : k = Created(j, c)
    OBVIOUS
  <1>1. /\ c \in CallRow /\ c # None /\ Moves(w, k) /\ lock' = lock
        /\ Len(remote') = Len(remote) + 1 
        /\ remote'[Len(remote) + 1] =
               [entity |-> e, content |-> content, token |-> 0, void |-> FALSE]
        /\ forced' = IF j.force THEN [forced EXCEPT ![e] = forced[e] + 1] ELSE forced
    BY CreateShape
  <1>2. e \in StepNames
    BY DEF StepNames
  <1>3. /\ j \in JobRow /\ PlanOK(j) /\ j.call = None /\ j.todo # << >> /\ Head(j.todo) = e
        /\ e \in VoidSteps \cup {"customer"} \/ "customer" \in DOMAIN j.links
        /\ e \in Docs => e \in DOMAIN j.rows
    BY <1>2, AtFacts DEF Ready
  <1>4. /\ k.force = j.force /\ k.todo = j.todo /\ k.rows = j.rows /\ k.links = j.links
        /\ k.sent = j.sent /\ k.call = c /\ k.created = j.created \cup {c.id}
    BY <1>1, <1>3, CreatedFacts
  <1>5. c.e = e /\ c.id = Len(remote) + 1
    BY DEF CallOf
  <1>6. e \notin VoidSteps
    BY DEF Entities, Docs, VoidSteps
  <1>7. Loads(j.rows, k.rows)
    BY <1>4 DEF Loads
  <1>8. PlanOK(k)
    BY <1>3, <1>4, <1>5, <1>7, CallPlan
  <1>9. e # "customer" /\ ~j.force => link[e].id = None /\ e \notin DOMAIN j.links
    BY LinkViewFacts
  <1>10. remote'[Len(remote) + 1].entity = e
    BY <1>1
  <1> QED BY <1>1, <1>3, <1>4, <1>5, <1>6, <1>8, <1>9, <1>10, CreateMove

\* A step that only confirms or skips.
LEMMA PlanKeeps ==
  ASSUME BooksInv, NEW w \in DOMAIN job, NEW k \in JobRow, PlanStep(w, k),
         job[w].call = None, k.call = None, k.force = job[w].force,
         k.links = job[w].links, k.created = job[w].created, PlanOK(k)
  PROVE  BooksInv'
  <1> PICK j : j = job[w]
    OBVIOUS
  <1>1. Moves(w, k) /\ remote' = remote /\ lock' = lock /\ forced' = forced
    BY PlanShape
  <1> QED BY <1>1, PlanMove

LEMMA UpdateIsCall ==
  ASSUME NEW w, NEW e, NEW id, NEW token, NEW content, NEW void,
         Update(w, e, id, token, content, void), JobFrame
  PROVE  CallStep(w, job[w].rows, e, id, content, void)
  BY DEF Update, CallStep, CallOf

LEMMA SelfLoads ==
  ASSUME NEW rows
  PROVE  Loads(rows, rows)
  BY DEF Loads

LEMMA SyncCustomerKeeps ==
  ASSUME BooksInv, NEW w \in DOMAIN job, SyncCustomer(w)
  PROVE  BooksInv'
  <1>1. /\ "customer" \in Entities /\ "customer" \in StepNames /\ "customer" \notin Docs
        /\ At(w, "customer") /\ JobFrame
    BY DEF SyncCustomer, Entities, StepNames, Docs, JobFrame
  <1>2. job[w].rows \in Partial(Docs, DocRow) /\ Loads(job[w].rows, job[w].rows)
    BY JobFacts, SelfLoads DEF BooksInv, JobRow
  <1> PICK l : l = LinkView(w, "customer")
    OBVIOUS
  <1>3. l.id # None => Pointer("customer", l.id)
    BY <1>1, LinkViewFacts
  <1>4. CASE l.id # None /\ Update(w, "customer", l.id, l.token, 0, FALSE)
    <2>1. CallStep(w, job[w].rows, "customer", l.id, 0, FALSE)
      BY <1>1, <1>4, UpdateIsCall
    <2> QED BY <1>1, <1>2, <1>3, <1>4, <2>1, CallKeeps
  <1>5. CASE \E i \in RemoteOf("customer") : Update(w, "customer", i, remote[i].token, 0, FALSE)
    <2> PICK i \in RemoteOf("customer") : Update(w, "customer", i, remote[i].token, 0, FALSE)
      BY <1>5
    <2>1. CallStep(w, job[w].rows, "customer", i, 0, FALSE)
      BY <1>1, UpdateIsCall
    <2>2. Pointer("customer", i)
      BY DEF RemoteOf, Pointer
    <2> QED BY <1>1, <1>2, <2>1, <2>2, CallKeeps
  <1>6. CASE Create(w, "customer", 0)
    <2>1. CreateStep(w, "customer", 0)
      BY <1>1, <1>6 DEF CreateStep
    <2> QED BY <1>1, <2>1, CreateKeeps
  <1>7. \/ l.id # None /\ Update(w, "customer", l.id, l.token, 0, FALSE)
        \/ \E i \in RemoteOf("customer") : Update(w, "customer", i, remote[i].token, 0, FALSE)
        \/ Create(w, "customer", 0)
    BY DEF SyncCustomer, RemoteOf
  <1> QED BY <1>4, <1>5, <1>6, <1>7

\* What a step confirms is done.
LEMMA ConfirmKeeps ==
  ASSUME BooksInv, NEW w \in DOMAIN job, NEW d \in Docs, At(w, d),
         PlanStep(w, Confirmed(job[w], d))
  PROVE  BooksInv'
  <1> PICK j : j = job[w]
    OBVIOUS
  <1> PICK k : k = Confirmed(j, d)
    OBVIOUS
  <1>1. d \in StepNames /\ d \in Entities /\ d # "customer"
    BY DEF StepNames, Entities, Docs
  <1>2. /\ j \in JobRow /\ PlanOK(j) /\ j.call = None /\ j.todo # << >> /\ Head(j.todo) = d
        /\ d \in DOMAIN j.rows
    BY <1>1, AtFacts DEF Ready
  <1>3. /\ k \in JobRow
        /\ k.force = j.force /\ k.todo = Tail(j.todo) /\ k.rows = j.rows /\ k.links = j.links
        /\ k.sent = j.sent \cup {d} /\ k.call = None /\ k.created = j.created
    BY <1>1, <1>2, ConfirmedFacts
  <1>4. PlanOK(k)
    BY <1>1, <1>2, <1>3, TailPlan, SelfLoads
  <1> QED BY <1>2, <1>3, <1>4, PlanKeeps

\* A step that skips the rest of its part of the plan.
LEMMA SkipKeeps ==
  ASSUME BooksInv, NEW w \in DOMAIN job, NEW s \in StepNames \ {"customer"}, At(w, s),
         PlanStep(w, Planned(job[w], job[w].rows, Tail(job[w].todo)))
  PROVE  BooksInv'
  <1> PICK j : j = job[w]
    OBVIOUS
  <1> PICK t : t = Tail(j.todo)
    OBVIOUS
  <1> PICK rows : rows = j.rows
    OBVIOUS
  <1> PICK k : k = Planned(j, rows, t)
    OBVIOUS
  <1>1. j \in JobRow /\ PlanOK(j) /\ j.call = None /\ j.todo # << >> /\ Head(j.todo) = s
    BY AtFacts
  <1>2. t \in Seq(StepNames) /\ rows \in Partial(Docs, DocRow)
    BY <1>1, TailFacts DEF JobRow
  <1>3. /\ k \in JobRow
        /\ k.force = j.force /\ k.todo = t /\ k.rows = rows /\ k.links = j.links
        /\ k.sent = j.sent /\ k.call = j.call /\ k.created = j.created
    BY <1>1, <1>2 DEF Planned, JobRow
  <1>4. PlanOK(k)
    BY <1>1, <1>3, TailPlan, SelfLoads
  <1> QED BY <1>1, <1>3, <1>4, PlanKeeps

\* The content of a loaded row.
LEMMA LoadedRow ==
  ASSUME BooksInv, NEW w \in DOMAIN job, NEW d \in Docs, At(w, d)
  PROVE  d \in DOMAIN job[w].rows /\ job[w].rows[d] \in DocRow /\ job[w].rows[d].content \in Nat
  <1>1. d \in StepNames
    BY DEF StepNames, Entities
  <1>2. d \in DOMAIN job[w].rows /\ job[w].rows \in Partial(Docs, DocRow)
    BY <1>1, AtFacts DEF Ready, JobRow
  <1>3. job[w].rows[d] \in DocRow
    BY <1>2, PartialFacts
  <1> QED BY <1>2, <1>3 DEF DocRow

LEMMA SyncDocumentKeeps ==
  ASSUME BooksInv, NEW w \in DOMAIN job, NEW d \in Voidable, SyncDocument(w, d)
  PROVE  BooksInv'
  <1>1. /\ d \in Docs /\ d \in Entities /\ d \in StepNames /\ d # "customer"
        /\ At(w, d) /\ JobFrame
    BY DEF SyncDocument, Voidable, Docs, Entities, StepNames, JobFrame
  <1>2. job[w].rows \in Partial(Docs, DocRow) /\ Loads(job[w].rows, job[w].rows)
    BY JobFacts, SelfLoads DEF BooksInv, JobRow
  <1> PICK l : l = LinkView(w, d)
    OBVIOUS
  <1> PICK r : r = job[w].rows[d]
    OBVIOUS
  <1>3. (l.id # None => Pointer(d, l.id)) /\ r.content \in Nat /\ d \in DOMAIN job[w].rows
    BY <1>1, LinkViewFacts, LoadedRow
  <1>4. CASE PlanStep(w, Confirmed(job[w], d))
    BY <1>1, <1>4, ConfirmKeeps
  <1>5. CASE l.id # None /\ Update(w, d, l.id, l.token, r.content, FALSE)
    <2>1. CallStep(w, job[w].rows, d, l.id, r.content, FALSE)
      BY <1>1, <1>5, UpdateIsCall
    <2> QED BY <1>1, <1>2, <1>3, <1>5, <2>1, CallKeeps
  <1>6. CASE Create(w, d, r.content) /\ (~job[w].force => l.id = None)
    <2>1. CreateStep(w, d, r.content)
      BY <1>1, <1>6 DEF CreateStep
    <2> QED BY <1>1, <1>3, <1>6, <2>1, CreateKeeps
  <1>7. \/ PlanStep(w, Confirmed(job[w], d))
        \/ l.id # None /\ Update(w, d, l.id, l.token, r.content, FALSE)
        \/ Create(w, d, r.content) /\ (~job[w].force => l.id = None)
    BY <1>1 DEF SyncDocument, PlanStep
  <1> QED BY <1>4, <1>5, <1>6, <1>7

\* A plan that begins with s goes on to be sound.
LEMMA PlannedKeeps ==
  ASSUME BooksInv, NEW w \in DOMAIN job, NEW s \in StepNames \ (VoidSteps \cup {"customer"}), At(w, s),
         NEW rows \in Partial(Docs, DocRow), NEW todo \in Seq(StepNames),
         Loads(job[w].rows, rows), \A i \in 1..Len(todo) : Ready(todo[i], rows),
         PlanStep(w, Planned(job[w], rows, todo))
  PROVE  BooksInv'
  <1> PICK j : j = job[w]
    OBVIOUS
  <1> PICK k : k = Planned(j, rows, todo)
    OBVIOUS
  <1>1. j \in JobRow /\ PlanOK(j) /\ j.call = None /\ "customer" \in DOMAIN j.links
    BY AtFacts
  <1>2. /\ k \in JobRow
        /\ k.force = j.force /\ k.todo = todo /\ k.rows = rows /\ k.links = j.links
        /\ k.sent = j.sent /\ k.call = None /\ k.created = j.created
    BY <1>1 DEF Planned, JobRow
  <1>3. PlanOK(k)
    BY <1>1, <1>2 DEF PlanOK, Loads
  <1> QED BY <1>1, <1>2, <1>3, PlanKeeps

LEMMA SyncPaymentKeeps ==
  ASSUME BooksInv, NEW w \in DOMAIN job, SyncPayment(w)
  PROVE  BooksInv'
  <1> PICK d : d = "payment"
    OBVIOUS
  <1>1. /\ d \in Docs /\ d \in Entities /\ d \in StepNames /\ d # "customer"
        /\ d \notin VoidSteps /\ At(w, d) /\ JobFrame
    BY DEF SyncPayment, Docs, Entities, StepNames, VoidSteps, JobFrame
  <1>2. job[w].rows \in Partial(Docs, DocRow) /\ Loads(job[w].rows, job[w].rows)
    BY JobFacts, SelfLoads DEF BooksInv, JobRow
  <1> PICK l : l = LinkView(w, d)
    OBVIOUS
  <1> PICK r : r = job[w].rows[d]
    OBVIOUS
  <1>3. (l.id # None => Pointer(d, l.id)) /\ r.content \in Nat /\ d \in DOMAIN job[w].rows
    BY <1>1, LinkViewFacts, LoadedRow
  <1>4. CASE PlanStep(w, Confirmed(job[w], d))
    BY <1>1, <1>4, ConfirmKeeps
  <1>5. CASE l.id # None /\ Update(w, d, l.id, l.token, r.content, FALSE)
    <2>1. CallStep(w, job[w].rows, d, l.id, r.content, FALSE)
      BY <1>1, <1>5, UpdateIsCall
    <2> QED BY <1>1, <1>2, <1>3, <1>5, <2>1, CallKeeps
  <1>6. CASE Create(w, d, r.content) /\ l.id = None
    <2>1. CreateStep(w, d, r.content)
      BY <1>1, <1>6 DEF CreateStep
    <2> QED BY <1>1, <1>3, <1>6, <2>1, CreateKeeps
  <1>7. CASE PlanStep(w, Planned(job[w], job[w].rows, << >>))
    <2>1. << >> \in Seq(StepNames) /\ \A i \in 1..Len(<< >>) : FALSE
      BY EmptyFacts
    <2> QED BY <1>1, <1>2, <1>7, <2>1, PlannedKeeps
  <1>8. \/ PlanStep(w, Confirmed(job[w], d))
        \/ l.id # None /\ Update(w, d, l.id, l.token, r.content, FALSE)
        \/ Create(w, d, r.content) /\ l.id = None
        \/ PlanStep(w, Planned(job[w], job[w].rows, << >>))
    BY <1>1 DEF SyncPayment, PlanStep
  <1> QED BY <1>4, <1>5, <1>6, <1>7, <1>8

LEMMA InvoiceStepsFacts ==
  ASSUME NEW rows, "invoice" \in DOMAIN rows, NEW s, s = InvoiceSteps(rows["invoice"].state)
  PROVE  /\ s \in Seq(StepNames) /\ s # << >> /\ CustomerFirst(s)
         /\ \A i \in 1..Len(s) : Ready(s[i], rows)
  <1>1. {"customer", "invoice", "application", "void_invoice"} \subseteq StepNames
    BY DEF StepNames, Entities, Docs, VoidSteps
  <1>2. CASE s = <<"void_invoice">> /\ rows["invoice"].state = "VOID"
    <2>1. Len(s) = 1 /\ s[1] = "void_invoice"
      BY <1>2
    <2>2. Ready("void_invoice", rows) /\ "void_invoice" \in VoidSteps
      BY <1>2 DEF Ready, Docs, VoidSteps
    <2> QED BY <1>1, <1>2, <2>1, <2>2 DEF CustomerFirst
  <1>3. CASE s = <<"customer", "invoice", "application">>
    <2>1. Len(s) = 3 /\ s[1] = "customer" /\ s[2] = "invoice" /\ s[3] = "application"
      BY <1>3
    <2>2. Ready("customer", rows) /\ Ready("invoice", rows) /\ Ready("application", rows)
      BY DEF Ready, Docs
    <2>3. \A i \in 1..Len(s) : i = 1 \/ i = 2 \/ i = 3
      BY <2>1
    <2>4. \A i \in 1..Len(s) : Ready(s[i], rows)
      BY <2>1, <2>2, <2>3
    <2> QED BY <1>1, <1>3, <2>4 DEF CustomerFirst
  <1> QED BY <1>2, <1>3 DEF InvoiceSteps

LEMMA SyncAllocatedInvoiceKeeps ==
  ASSUME BooksInv, NEW w \in DOMAIN job, SyncAllocatedInvoice(w)
  PROVE  BooksInv'
  <1> PICK j : j = job[w]
    OBVIOUS
  <1> PICK rows : rows = Load(w, "invoice")
    OBVIOUS
  <1>1. /\ "allocation" \in StepNames \ (VoidSteps \cup {"customer"}) /\ "invoice" \in Docs
        /\ At(w, "allocation") /\ JobFrame
    BY DEF SyncAllocatedInvoice, StepNames, VoidSteps, JobFrame, Docs
  <1>2. j \in JobRow /\ PlanOK(j) /\ j.todo # << >>
    BY <1>1, AtFacts
  <1>3. rows \in Partial(Docs, DocRow) /\ "invoice" \in DOMAIN rows /\ Loads(j.rows, rows)
    <2> PICK d \in Docs : d = "invoice"
      BY <1>1
    <2>1. /\ Load(w, d) \in Partial(Docs, DocRow) /\ Loads(job[w].rows, Load(w, d))
          /\ DOMAIN Load(w, d) = DOMAIN job[w].rows \cup {d}
      BY LoadFacts DEF BooksInv
    <2> QED BY <2>1
  <1>s. PICK s : s = InvoiceSteps(rows["invoice"].state)
    OBVIOUS
  <1> PICK t : t = Tail(j.todo)
    OBVIOUS
  <1>4. CASE PlanStep(w, Planned(job[w], rows, s \o t))
    <2>1. t \in Seq(StepNames) /\ \A i \in 1..Len(t) : Ready(t[i], rows)
      BY <1>2, <1>3, TailFacts, ReadyStays DEF PlanOK, JobRow
    <2>2. s \in Seq(StepNames) /\ \A i \in 1..Len(s) : Ready(s[i], rows)
      BY <1>3, <1>s, InvoiceStepsFacts
    <2>3. s \o t \in Seq(StepNames) /\ \A i \in 1..Len(s \o t) : Ready((s \o t)[i], rows)
      <3>1. /\ s \o t \in Seq(StepNames)
            /\ \A i \in 1..Len(s \o t) :
                  \/ i \in 1..Len(s) /\ (s \o t)[i] = s[i]
                  \/ i - Len(s) \in 1..Len(t) /\ (s \o t)[i] = t[i - Len(s)]
        <4>1. s \in Seq(StepNames) /\ t \in Seq(StepNames)
          BY <2>1, <2>2
        <4> QED BY <4>1, ConcatFacts
      <3> QED BY <2>1, <2>2, <3>1
    <2> QED BY <1>1, <1>3, <1>4, <2>3, PlannedKeeps
  <1>5. CASE PlanStep(w, Planned(job[w], job[w].rows, Tail(job[w].todo)))
    BY <1>1, <1>5, SkipKeeps
  <1>6. \/ PlanStep(w, Planned(job[w], rows, s \o t))
        \/ PlanStep(w, Planned(job[w], job[w].rows, Tail(job[w].todo)))
    BY <1>1, <1>s DEF SyncAllocatedInvoice, PlanStep, JobFrame
  <1> QED BY <1>4, <1>5, <1>6

LEMMA SyncCreditApplicationKeeps ==
  ASSUME BooksInv, NEW w \in DOMAIN job, SyncCreditApplication(w)
  PROVE  BooksInv'
  <1> PICK j : j = job[w]
    OBVIOUS
  <1> PICK rows : rows = Load(w, "credit_note")
    OBVIOUS
  <1>1. /\ "application" \in StepNames \ (VoidSteps \cup {"customer"}) /\ "application" \in Entities
        /\ "credit_note" \in Docs /\ At(w, "application") /\ JobFrame
    BY DEF SyncCreditApplication, StepNames, VoidSteps, JobFrame, Docs, Entities
  <1>2. j \in JobRow /\ PlanOK(j) /\ j.todo # << >>
    BY <1>1, AtFacts
  <1>3. rows \in Partial(Docs, DocRow) /\ "credit_note" \in DOMAIN rows /\ Loads(j.rows, rows)
    <2> PICK d \in Docs : d = "credit_note"
      BY <1>1
    <2>1. /\ Load(w, d) \in Partial(Docs, DocRow) /\ Loads(job[w].rows, Load(w, d))
          /\ DOMAIN Load(w, d) = DOMAIN job[w].rows \cup {d}
      BY LoadFacts DEF BooksInv
    <2> QED BY <2>1
  <1> PICK s : s = <<"customer", "credit_note">>
    OBVIOUS
  <1> PICK t : t = j.todo
    OBVIOUS
  <1>4. CASE PlanStep(w, Planned(job[w], rows, s \o t))
    <2>1. t \in Seq(StepNames) /\ \A i \in 1..Len(t) : Ready(t[i], rows)
      BY <1>2, <1>3, ReadyStays DEF PlanOK, JobRow
    <2>2. s \in Seq(StepNames) /\ Len(s) = 2 /\ s[1] = "customer" /\ s[2] = "credit_note"
      BY DEF StepNames, Entities, Docs
    <2>3. Ready("customer", rows) /\ Ready("credit_note", rows)
      BY <1>3 DEF Ready, Docs
    <2>4. \A i \in 1..Len(s) : i = 1 \/ i = 2
      BY <2>2
    <2>5. \A i \in 1..Len(s) : Ready(s[i], rows)
      BY <2>2, <2>3, <2>4
    <2>6. s \o t \in Seq(StepNames) /\ \A i \in 1..Len(s \o t) : Ready((s \o t)[i], rows)
      BY <2>1, <2>2, <2>5, ConcatFacts
    <2> QED BY <1>1, <1>3, <1>4, <2>6, PlannedKeeps
  <1>5. CASE PlanStep(w, Planned(job[w], job[w].rows, Tail(job[w].todo)))
    BY <1>1, <1>5, SkipKeeps
  <1>6. CASE Create(w, "application", 0) /\ (~job[w].force => LinkView(w, "application").id = None)
    <2>1. CreateStep(w, "application", 0)
      BY <1>1, <1>6 DEF CreateStep
    <2> QED BY <1>1, <1>6, <2>1, CreateKeeps
  <1>7. \/ PlanStep(w, Planned(job[w], rows, s \o t))
        \/ PlanStep(w, Planned(job[w], job[w].rows, Tail(job[w].todo)))
        \/ Create(w, "application", 0) /\ (~job[w].force => LinkView(w, "application").id = None)
    BY <1>1 DEF SyncCreditApplication, ApplicationMissing, PlanStep, JobFrame
  <1> QED BY <1>4, <1>5, <1>6, <1>7

LEMMA VoidDocumentKeeps ==
  ASSUME BooksInv, NEW w \in DOMAIN job, NEW d \in Voidable, VoidDocument(w, d)
  PROVE  BooksInv'
  <1> PICK j : j = job[w]
    OBVIOUS
  <1> PICK rows : rows = Load(w, d)
    OBVIOUS
  <1> PICK l : l = LinkView(w, d)
    OBVIOUS
  <1> PICK s : s = VoidStep(d)
    OBVIOUS
  <1>1. /\ d \in Docs /\ d \in Entities /\ s \in VoidSteps /\ s \in StepNames
        /\ s # "customer" /\ At(w, s) /\ JobFrame
    BY DEF VoidDocument, Voidable, VoidStep, VoidSteps, StepNames, Docs, Entities, JobFrame
  <1>2. j \in JobRow /\ PlanOK(j) /\ j.todo # << >> /\ j.call = None /\ Head(j.todo) = s
    BY <1>1, AtFacts
  <1>3. rows \in Partial(Docs, DocRow) /\ Loads(j.rows, rows) /\ d \in DOMAIN rows
    BY <1>1, LoadFacts DEF BooksInv
  <1>4. CASE PlanStep(w, Absent(j, rows, d))
    <2> PICK k : k = Absent(j, rows, d)
      OBVIOUS
    <2>1. /\ k \in JobRow
          /\ k.force = j.force /\ k.todo = Tail(j.todo) /\ k.rows = rows /\ k.links = j.links
          /\ k.sent = j.sent /\ k.call = None /\ k.created = j.created
      BY <1>1, <1>2, <1>3, AbsentFacts
    <2>2. PlanOK(k)
      BY <1>1, <1>2, <1>3, <2>1, TailPlan
    <2> QED BY <1>2, <1>4, <2>1, <2>2, PlanKeeps
  <1>5. CASE /\ l.id # None
             /\ CallStep(w, rows, d, l.id, remote[l.id].content, TRUE)
    <2>1. Pointer(d, l.id)
      BY <1>1, <1>5, LinkViewFacts
    <2>2. remote[l.id] \in RemoteRow
      BY <2>1 DEF Pointer, BooksInv, BooksTypeOK
    <2>3. remote[l.id].content \in Nat
      BY <2>2 DEF RemoteRow
    <2> QED BY <1>1, <1>3, <1>5, <2>1, <2>3, CallKeeps
  <1>6. \/ PlanStep(w, Absent(j, rows, d))
        \/ l.id # None /\ CallStep(w, rows, d, l.id, remote[l.id].content, TRUE)
    BY <1>1 DEF VoidDocument, PlanStep, CallStep, CallOf
  <1> QED BY <1>4, <1>5, <1>6

\* The answer of a call becomes a link of the job.
LEMMA RecordShape ==
  ASSUME BooksInv, NEW w \in DOMAIN job, Record(w), NEW j, j = job[w], NEW e, e = j.call.e,
         NEW l, l = [id |-> j.call.id, token |-> j.call.token, status |-> "SYNCED",
                     version |-> LinkView(w, e).version + 1],
         NEW k, k = Recorded(j, e, l)
  PROVE  /\ j \in JobRow /\ PlanOK(j) /\ e \in Entities /\ l \in LinkRow
         /\ j.call \in CallRow /\ j.call # None
         /\ Moves(w, k) /\ remote' = remote /\ forced' = forced
         /\ lock[e] \in {None, w} /\ lock' = [lock EXCEPT ![e] = w]
         /\ k.force = j.force /\ k.todo = Tail(j.todo) /\ k.rows = j.rows
         /\ k.links = With(j.links, e, l)
         /\ k.sent = j.sent \cup {e} /\ k.call = None /\ k.created = j.created
  <1>1. j \in JobRow /\ PlanOK(j)
    BY JobFacts DEF BooksInv, JobOK
  <1>2. j.call \in CallRow /\ j.call # None /\ j.todo # << >>
    BY <1>1 DEF Record, JobRow, PlanOK
  <1>3. e \in Entities /\ j.call.id \in Nat /\ j.call.token \in Nat
    BY <1>2 DEF CallRow
  <1>4. LinkView(w, e).version \in Nat
    BY <1>3, LinkViewFacts DEF LinkRow
  <1>5. l \in LinkRow
    BY <1>3, <1>4 DEF LinkRow, SyncStatus, Id
  <1>6. /\ k \in JobRow
        /\ k.force = j.force /\ k.todo = Tail(j.todo) /\ k.rows = j.rows
        /\ k.links = With(j.links, e, l)
        /\ k.sent = j.sent \cup {e} /\ k.call = None /\ k.created = j.created
    BY <1>1, <1>2, <1>3, <1>5, RecordedFacts
  <1>7. RemoteGrows
    BY GrowsSame DEF Record, BooksInv, BooksTypeOK
  <1>8. Moves(w, k)
    BY <1>6, <1>7 DEF Moves, Record, Frame
  <1> QED BY <1>1, <1>2, <1>3, <1>5, <1>6, <1>8 DEF Record

LEMMA RecordKeeps ==
  ASSUME BooksInv, NEW w \in DOMAIN job, Record(w)
  PROVE  BooksInv'
  <1>j. PICK j : j = job[w]
    OBVIOUS
  <1>a. PICK e : e = j.call.e
    OBVIOUS
  <1>b. PICK l : l = [id |-> j.call.id, token |-> j.call.token, status |-> "SYNCED",
                    version |-> LinkView(w, e).version + 1]
    OBVIOUS
  <1>c. PICK k : k = Recorded(j, e, l)
    OBVIOUS
  <1>1. /\ j \in JobRow /\ PlanOK(j) /\ e \in Entities /\ l \in LinkRow
        /\ j.call \in CallRow /\ j.call # None
        /\ Moves(w, k) /\ remote' = remote /\ forced' = forced
        /\ lock[e] \in {None, w} /\ lock' = [lock EXCEPT ![e] = w]
        /\ k.force = j.force /\ k.todo = Tail(j.todo) /\ k.rows = j.rows
        /\ k.links = With(j.links, e, l)
        /\ k.sent = j.sent \cup {e} /\ k.call = None /\ k.created = j.created
    BY <1>j, <1>a, <1>b, <1>c, RecordShape
  <1>2. /\ DOMAIN k.links = DOMAIN j.links \cup {e} /\ k.links[e].id = j.call.id
        /\ \A f \in DOMAIN j.links : f # e => k.links[f] = j.links[f]
    BY <1>1, <1>b DEF With
  <1>3. PlanOK(k)
    BY <1>1, <1>2, <1>a, RecordPlan
  <1>4. /\ Moves(w, k) /\ e \in Entities /\ remote' = remote /\ forced' = forced
        /\ lock[e] \in {None, w} /\ lock' = [lock EXCEPT ![e] = w]
        /\ j.call # None /\ j.call.e = e
        /\ k.force = j.force /\ k.call = None /\ k.created = j.created
    BY <1>1, <1>a
  <1> QED BY <1>2, <1>3, <1>4, <1>j, RecordMove

-----------------------------------------------------------------------------
(* The end and the start of a job. *)

LEMMA EndFacts ==
  ASSUME BooksInv, NEW w \in DOMAIN job, EndJob(w)
  PROVE  /\ job' \in Partial(JobIds, JobRow)
         /\ DOMAIN job' = DOMAIN job \ {w}
         /\ \A v \in DOMAIN job' : job'[v] = job[v]
         /\ lock' \in [Entities -> {None, ApiSession} \cup JobIds]
         /\ \A e \in Entities : lock[e] # w => lock'[e] = lock[e]
  <1>1. job \in Partial(JobIds, JobRow) /\ lock \in [Entities -> {None, ApiSession} \cup JobIds]
    BY DEF BooksInv, BooksTypeOK
  <1>2. job' = [v \in DOMAIN job \ {w} |-> job[v]]
    BY DEF EndJob
  <1>3. job' \in Partial(JobIds, JobRow)
    BY <1>1, <1>2, PartialWithout
  <1> QED BY <1>1, <1>2, <1>3 DEF EndJob

\* The other jobs do not notice.
LEMMA OthersStay ==
  ASSUME BooksInv, NEW w \in DOMAIN job, EndJob(w), remote' = remote
  PROVE  \A v \in DOMAIN job' : JobOK(v, job[v])'
  <1> SUFFICES ASSUME NEW v \in DOMAIN job'
               PROVE  JobOK(v, job[v])'
    OBVIOUS
  <1>1. v \in DOMAIN job /\ v # w /\ job'[v] = job[v]
    BY EndFacts
  <1> PICK j : j = job[v]
    OBVIOUS
  <1>2. j \in JobRow /\ DOMAIN j.links \subseteq Entities /\ JobOK(v, j)
    BY <1>1, JobFacts, PartialFacts DEF BooksInv, JobRow
  <1>3. \A e \in DOMAIN j.links : lock'[e] = lock[e]
    BY <1>1, <1>2, EndFacts DEF JobOK, OwnOK
  <1>4. JobOK(v, j)'
    BY <1>2, <1>3, JobStable, GrowsSame DEF BooksInv, BooksTypeOK
  <1> QED BY <1>1, <1>4, JobOKAt

LEMMA CustomerStays ==
  ASSUME BooksInv, NEW w \in DOMAIN job, EndJob(w), api' = api,
         link'["customer"].id = link["customer"].id \/ lock["customer"] = w
  PROVE  CustomerOK'
  <1>1. lock["customer"] = ApiSession => lock["customer"] # w /\ lock'["customer"] = ApiSession
    BY EndFacts, JobFacts DEF Entities, BooksInv
  <1> QED BY <1>1 DEF CustomerOK, BooksInv

LEMMA LoseKeeps ==
  ASSUME BooksInv, NEW w \in DOMAIN job, EndJob(w), Lose(w), queue' \subseteq queue
  PROVE  BooksInv'
  <1>0. /\ UNCHANGED <<row, link, remote, api, requests, forced>>
        /\ BooksTypeOK /\ CountOK /\ LinksOK
    BY DEF Lose, BooksInv
  <1>1. job[w] \in JobRow /\ job[w].created \subseteq 1..Len(remote)
    BY JobFacts DEF BooksInv, JobOK, OwnOK
  <1> DEFINE C(e) == {i \in job[w].created : remote[i].entity = e}
  <1>2. ASSUME NEW e \in Entities
        PROVE  /\ Cardinality(C(e)) \in Nat
               /\ C(e) # {} => Cardinality(C(e)) >= 1
    <2>1. Len(remote) \in Nat /\ C(e) \subseteq 1..Len(remote)
      BY <1>0, <1>1 DEF BooksTypeOK
    <2>a. IsFiniteSet(1..Len(remote))
      BY <2>1, FS_Interval
    <2>2. IsFiniteSet(C(e))
      BY <2>1, <2>a, FS_Subset
    <2> HIDE DEF C
    <2>3. Cardinality(C(e)) \in Nat /\ (Cardinality(C(e)) = 0 <=> C(e) = {})
      BY <2>2, FS_CardinalityType, FS_EmptySet
    <2> QED BY <2>3
  <1>3. lost' = [e \in Entities |-> lost[e] + IF job[w].force THEN 0 ELSE Cardinality(C(e))]
    BY DEF Lose
  <1> HIDE DEF C
  <1>4. lost \in [Entities -> Nat] /\ forced \in [Entities -> Nat]
    BY <1>0 DEF BooksTypeOK
  <1>5. \A e \in Entities : /\ lost'[e] \in Nat /\ lost[e] <= lost'[e]
                            /\ ~job[w].force /\ C(e) # {} => lost[e] + 1 <= lost'[e]
    BY <1>2, <1>3, <1>4
  <1>6. lost' \in [Entities -> Nat]
    BY <1>3, <1>5
  <1>7. BooksTypeOK'
    BY <1>0, <1>6, EndFacts DEF BooksTypeOK
  <1>8. CountOK'
    <2> SUFFICES ASSUME NEW e \in Entities \ {"customer"}
                 PROVE  /\ Cardinality(RemoteOf(e)') <= lost'[e] + forced'[e] + 1
                        /\ ~Booked(e)' => Cardinality(RemoteOf(e)') <= lost'[e] + forced'[e]
      BY DEF CountOK
    <2>1. RemoteOf(e)' = RemoteOf(e) /\ forced' = forced /\ Cardinality(RemoteOf(e)) \in Nat
      BY <1>0, RemoteOfFinite DEF RemoteOf, BooksTypeOK
    <2>2. /\ Cardinality(RemoteOf(e)) <= lost[e] + forced[e] + 1
          /\ ~Booked(e) => Cardinality(RemoteOf(e)) <= lost[e] + forced[e]
      BY <1>0 DEF CountOK
    <2>3. Booked(e) /\ ~Booked(e)' => ~job[w].force /\ C(e) # {}
      BY <1>0, EndFacts DEF Booked, C
    <2> QED BY <1>4, <1>5, <2>1, <2>2, <2>3
  <1>9. LinksOK'
    BY <1>0 DEF LinksOK, Pointer
  <1> QED BY <1>0, <1>7, <1>8, <1>9, OthersStay, CustomerStays DEF BooksInv

LEMMA FinishedRowType ==
  ASSUME BooksInv, NEW w \in DOMAIN job, NEW d \in Docs
  PROVE  FinishedRow(w, d) \in DocRow
  <1>1. row[d] \in DocRow /\ job[w] \in JobRow /\ PlanOK(job[w])
    BY JobFacts DEF BooksInv, BooksTypeOK, JobOK
  <1>2. CASE d \in job[w].sent
    <2>1. d \in DOMAIN job[w].rows /\ job[w].rows \in Partial(Docs, DocRow)
      BY <1>1, <1>2 DEF PlanOK, JobRow
    <2> PICK r : r = job[w].rows[d]
      OBVIOUS
    <2>2. r \in DocRow
      BY <2>1, PartialFacts
    <2>3. r.content \in Id
      BY <2>2 DEF DocRow, Id
    <2>4. SyncedRow(w, d) \in DocRow
      BY <1>1, <2>3 DEF SyncedRow, DocRow, SyncStatus
    <2> QED BY <1>2, <2>4 DEF FinishedRow
  <1>3. CASE d \notin job[w].sent
    BY <1>1, <1>3 DEF FinishedRow, DocRow, SyncStatus
  <1> QED BY <1>2, <1>3

LEMMA CommitJobKeeps ==
  ASSUME BooksInv, NEW w \in DOMAIN job, CommitJob(w)
  PROVE  BooksInv'
  <1>0. /\ UNCHANGED <<remote, api, requests, forced, lost>> /\ EndJob(w) /\ queue' \subseteq queue
        /\ row' = [d \in Docs |-> FinishedRow(w, d)]
        /\ link' = [e \in Entities |-> LinkView(w, e)]
        /\ job[w].call = None
        /\ BooksTypeOK /\ CountOK /\ LinksOK /\ JobOK(w, job[w])
    BY DEF CommitJob, Forget, At, BooksInv
  <1>1. \A e \in Entities : link'[e] = LinkView(w, e) /\ link'[e] \in LinkRow
    BY <1>0, LinkViewFacts
  <1>2. link' \in [Entities -> LinkRow]
    BY <1>0, <1>1
  <1>3. row' \in [Docs -> DocRow]
    BY <1>0, FinishedRowType
  <1>4. BooksTypeOK'
    BY <1>0, <1>2, <1>3, EndFacts DEF BooksTypeOK
  <1>5. LinksOK'
    BY <1>0, <1>1, LinkViewFacts DEF LinksOK, Pointer
  <1>6. CustomerOK'
    <2>1. "customer" \in DOMAIN job[w].links => lock["customer"] = w
      BY <1>0 DEF JobOK, OwnOK
    <2>2. link'["customer"].id = link["customer"].id \/ lock["customer"] = w
      BY <1>1, <2>1 DEF LinkView, Entities
    <2> QED BY <1>0, <2>2, CustomerStays
  <1>7. ASSUME NEW e \in Entities \ {"customer"}, Booked(e)
        PROVE  Booked(e)'
    <2>1. CASE link[e].id # None
      <3>1. LinkView(w, e).id # None
        BY <2>1, LinkViewFacts
      <3> QED BY <1>1, <3>1 DEF Booked
    <2>2. CASE \E v \in DOMAIN job : ~job[v].force /\ \E i \in job[v].created : remote[i].entity = e
      <3> PICK v \in DOMAIN job : ~job[v].force /\ \E i \in job[v].created : remote[i].entity = e
        BY <2>2
      <3>1. CASE v = w
        <4>1. e \in DOMAIN job[w].links
          BY <1>0, <3>1 DEF JobOK, CreatedOK
        <4>2. LinkView(w, e).id # None
          BY <4>1, LinkViewFacts
        <4> QED BY <1>1, <4>2 DEF Booked
      <3>2. CASE v # w
        BY <1>0, <3>2, EndFacts DEF Booked
      <3> QED BY <3>1, <3>2
    <2> QED BY <1>7, <2>1, <2>2 DEF Booked
  <1>8. CountOK'
    <2>1. \A e \in Entities : RemoteOf(e)' = RemoteOf(e)
      BY <1>0 DEF RemoteOf
    <2> QED BY <1>0, <1>7, <2>1 DEF CountOK
  <1> QED BY <1>0, <1>4, <1>5, <1>6, <1>8, OthersStay DEF BooksInv

LEMMA FailJobKeeps ==
  ASSUME BooksInv, NEW w \in DOMAIN job, FailJob(w)
  PROVE  BooksInv'
  BY LoseKeeps DEF FailJob, Forget

LEMMA RetryJobKeeps ==
  ASSUME BooksInv, NEW w \in DOMAIN job, RetryJob(w)
  PROVE  BooksInv'
  BY LoseKeeps DEF RetryJob

\* A new job has a sound plan and nothing to its name.
LEMMA StepsFacts ==
  ASSUME BooksTypeOK, NEW t \in Tasks, NEW rows, rows = [d \in FirstRows(t) |-> row[d]],
         NEW s, s = Steps(t)
  PROVE  /\ rows \in Partial(Docs, DocRow)
         /\ \A d \in DOMAIN rows : d \in Docs /\ rows[d] = row[d]
         /\ s \in Seq(StepNames) /\ CustomerFirst(s)
         /\ \A i \in 1..Len(s) : Ready(s[i], rows)
  <1>1. FirstRows(t) \subseteq Docs
    BY DEF FirstRows, Tasks, Docs
  <1>2. rows \in [FirstRows(t) -> DocRow] /\ DOMAIN rows = FirstRows(t)
    BY <1>1 DEF BooksTypeOK
  <1>3. rows \in Partial(Docs, DocRow)
    BY <1>1, <1>2, PartialIntro
  <1>4. \A d \in DOMAIN rows : d \in Docs /\ rows[d] = row[d]
    BY <1>1, <1>2
  <1>5. s \in Seq(StepNames) /\ CustomerFirst(s) /\ \A i \in 1..Len(s) : Ready(s[i], rows)
    <2>0. {"customer", "invoice", "credit_note", "payment", "allocation", "application",
           "void_invoice", "void_credit_note"} \subseteq StepNames
      BY DEF StepNames, Entities, Docs, VoidSteps
    <2>1. CASE t = "customer"
      <3>1. s = <<"customer">> /\ Len(s) = 1 /\ s[1] = "customer"
        BY <2>1 DEF Steps
      <3>2. Ready("customer", rows)
        BY DEF Ready, Docs
      <3> QED BY <2>0, <3>1, <3>2 DEF CustomerFirst
    <2>2. CASE t = "invoice"
      <3>1. "invoice" \in DOMAIN rows
        BY <2>2, <1>2 DEF FirstRows, Docs
      <3>2. s = InvoiceSteps(rows["invoice"].state)
        BY <2>2, <3>1, <1>4 DEF Steps
      <3> QED BY <3>1, <3>2, InvoiceStepsFacts
    <2>3. CASE t = "credit_note"
      <3>1. s = <<"customer", "credit_note">> /\ Len(s) = 2 /\ s[1] = "customer" /\ s[2] = "credit_note"
        BY <2>3 DEF Steps
      <3>2. Ready("customer", rows) /\ Ready("credit_note", rows)
        BY <1>2, <2>3 DEF Ready, Docs, FirstRows
      <3>3. \A i \in 1..Len(s) : i = 1 \/ i = 2
        BY <3>1
      <3>4. \A i \in 1..Len(s) : Ready(s[i], rows)
        BY <3>1, <3>2, <3>3
      <3> QED BY <2>0, <3>1, <3>4 DEF CustomerFirst
    <2>4. CASE t = "payment"
      <3>1. /\ s = <<"customer", "allocation", "payment">> /\ Len(s) = 3
            /\ s[1] = "customer" /\ s[2] = "allocation" /\ s[3] = "payment"
        BY <2>4 DEF Steps
      <3>2. Ready("customer", rows) /\ Ready("allocation", rows) /\ Ready("payment", rows)
        BY <1>2, <2>4 DEF Ready, Docs, FirstRows
      <3>3. \A i \in 1..Len(s) : i = 1 \/ i = 2 \/ i = 3
        BY <3>1
      <3>4. \A i \in 1..Len(s) : Ready(s[i], rows)
        BY <3>1, <3>2, <3>3
      <3> QED BY <2>0, <3>1, <3>4 DEF CustomerFirst
    <2>5. CASE t = "void_credit_note"
      <3>1. s = <<"void_credit_note">> /\ Len(s) = 1 /\ s[1] = "void_credit_note"
        BY <2>5 DEF Steps
      <3>2. Ready("void_credit_note", rows) /\ "void_credit_note" \in VoidSteps
        BY DEF Ready, Docs, VoidSteps
      <3>3. \A i \in 1..Len(s) : i = 1
        BY <3>1
      <3>4. \A i \in 1..Len(s) : Ready(s[i], rows) /\ s[i] \in VoidSteps
        BY <3>1, <3>2, <3>3
      <3> QED BY <2>0, <3>1, <3>4 DEF CustomerFirst
    <2>6. CASE t = "void_chain"
      <3>1. "invoice" \in DOMAIN rows
        BY <2>6, <1>2 DEF FirstRows, Docs
      <3>a. PICK a : a = InvoiceSteps(rows["invoice"].state)
        OBVIOUS
      <3>b. PICK b : b = <<"void_credit_note">>
        OBVIOUS
      <3>2. s = a \o b
        BY <2>6, <3>1, <3>a, <3>b, <1>4 DEF Steps
      <3>3. a \in Seq(StepNames) /\ a # << >> /\ CustomerFirst(a) /\ \A i \in 1..Len(a) : Ready(a[i], rows)
        BY <3>1, <3>a, InvoiceStepsFacts
      <3>4. b \in Seq(StepNames) /\ Len(b) = 1 /\ b[1] = "void_credit_note"
        BY <2>0, <3>b
      <3>5. Ready("void_credit_note", rows) /\ "void_credit_note" \in VoidSteps
        BY DEF Ready, Docs, VoidSteps
      <3>c. \A i \in 1..Len(b) : i = 1
        BY <3>4
      <3>6. \A i \in 1..Len(b) : Ready(b[i], rows) /\ b[i] \in VoidSteps
        BY <3>4, <3>5, <3>c
      <3>7. /\ s \in Seq(StepNames)
            /\ \A i \in 1..Len(s) :
                  \/ i \in 1..Len(a) /\ s[i] = a[i]
                  \/ i - Len(a) \in 1..Len(b) /\ s[i] = b[i - Len(a)]
            /\ s # << >> /\ Head(s) = Head(a)
        <4>1. a \in Seq(StepNames) /\ b \in Seq(StepNames) /\ a # << >>
          BY <3>3, <3>4
        <4>2. /\ a \o b \in Seq(StepNames)
              /\ \A i \in 1..Len(a \o b) :
                    \/ i \in 1..Len(a) /\ (a \o b)[i] = a[i]
                    \/ i - Len(a) \in 1..Len(b) /\ (a \o b)[i] = b[i - Len(a)]
              /\ a \o b # << >> /\ Head(a \o b) = Head(a)
          BY <4>1, ConcatFacts
        <4> QED BY <3>2, <4>2
      <3>8. \A i \in 1..Len(s) : Ready(s[i], rows)
        BY <3>3, <3>6, <3>7
      <3>9. CustomerFirst(s)
        BY <3>3, <3>6, <3>7 DEF CustomerFirst
      <3> QED BY <3>7, <3>8, <3>9
    <2> QED BY <2>1, <2>2, <2>3, <2>4, <2>5, <2>6 DEF Tasks, Docs
  <1> QED BY <1>3, <1>4, <1>5

NewJob(j) ==
    [force |-> j.force, todo |-> Steps(j.task),
     rows |-> [d \in FirstRows(j.task) |-> row[d]], links |-> NoEntries,
     sent |-> {}, absent |-> {}, call |-> None, created |-> {}]

LEMMA NewJobFacts ==
  ASSUME BooksTypeOK, NEW q \in queue, NEW k, k = NewJob(q)
  PROVE  /\ k \in JobRow /\ PlanOK(k) /\ q.id \in JobIds
         /\ DOMAIN k.links = {} /\ k.created = {} /\ k.call = None /\ k.sent = {}
         /\ \A d \in DOMAIN k.rows : d \in Docs /\ k.rows[d] = row[d]
  <1>1. q \in QueueRow
    BY DEF BooksTypeOK
  <1>2. q.task \in Tasks /\ q.force \in BOOLEAN /\ q.id \in JobIds
    BY <1>1 DEF QueueRow
  <1>a. PICK t : t = q.task
    OBVIOUS
  <1>b. PICK rows : rows = [d \in FirstRows(t) |-> row[d]]
    OBVIOUS
  <1>c. PICK s : s = Steps(t)
    OBVIOUS
  <1>3. /\ rows \in Partial(Docs, DocRow)
        /\ \A d \in DOMAIN rows : d \in Docs /\ rows[d] = row[d]
        /\ s \in Seq(StepNames) /\ CustomerFirst(s)
        /\ \A i \in 1..Len(s) : Ready(s[i], rows)
    BY <1>2, <1>a, <1>b, <1>c, StepsFacts
  <1>4. NoEntries \in Partial(Entities, LinkRow) /\ DOMAIN NoEntries = {}
    BY NoEntriesFacts
  <1>5. k = [force |-> q.force, todo |-> s, rows |-> rows, links |-> NoEntries,
             sent |-> {}, absent |-> {}, call |-> None, created |-> {}]
    BY <1>a, <1>b, <1>c DEF NewJob
  <1>6. /\ k.todo = s /\ k.rows = rows /\ k.links = NoEntries
        /\ k.created = {} /\ k.call = None /\ k.sent = {}
    BY <1>5
  <1>7. k \in JobRow
    BY <1>2, <1>3, <1>4, <1>5 DEF JobRow
  <1>8. PlanOK(k)
    BY <1>3, <1>4, <1>6 DEF PlanOK
  <1> QED BY <1>2, <1>3, <1>4, <1>6, <1>7, <1>8

LEMMA StartJobKeeps ==
  ASSUME BooksInv, NEW q \in queue, StartJob(q)
  PROVE  BooksInv'
  <1>a. PICK k : k = NewJob(q)
    OBVIOUS
  <1>b. PICK w : w = q.id
    OBVIOUS
  <1>0. /\ UNCHANGED <<row, link, lock, remote, api, requests, lost, forced>>
        /\ BooksTypeOK /\ CountOK /\ LinksOK /\ CustomerOK
    BY DEF StartJob, BooksInv
  <1>1. /\ k \in JobRow /\ PlanOK(k) /\ w \in JobIds
        /\ DOMAIN k.links = {} /\ k.created = {} /\ k.call = None
    BY <1>0, <1>a, <1>b, NewJobFacts
  <1>2. job' = With(job, w, k) /\ w \notin DOMAIN job
    BY <1>a, <1>b DEF StartJob, NewJob
  <1>3. /\ job' \in Partial(JobIds, JobRow) /\ DOMAIN job' = DOMAIN job \cup {w}
        /\ job'[w] = k /\ \A v \in DOMAIN job : job'[v] = job[v]
    <2>1. job \in Partial(JobIds, JobRow)
      BY <1>0 DEF BooksTypeOK
    <2>2. With(job, w, k) \in Partial(JobIds, JobRow)
      BY <2>1, <1>1, PartialWith
    <2> QED BY <1>2, <2>2 DEF With
  <1>4. queue' \subseteq QueueRow
    <2>1. q \in QueueRow
      BY <1>0 DEF BooksTypeOK
    <2>2. [q EXCEPT !.tries = @ + 1] \in QueueRow
      BY <2>1 DEF QueueRow
    <2> QED BY <1>0, <2>2 DEF StartJob, BooksTypeOK
  <1>5. BooksTypeOK'
    BY <1>0, <1>3, <1>4 DEF BooksTypeOK
  <1>6. CustomerOK' /\ LinksOK'
    BY <1>0 DEF CustomerOK, LinksOK, Pointer
  <1>7. CountOK'
    <2>1. \A e \in Entities : RemoteOf(e)' = RemoteOf(e)
      BY <1>0 DEF RemoteOf
    <2>2. \A e \in Entities : Booked(e) => Booked(e)'
      BY <1>0, <1>2, <1>3 DEF Booked
    <2> QED BY <1>0, <2>1, <2>2 DEF CountOK
  <1>8. ASSUME NEW v \in DOMAIN job'
        PROVE  JobOK(v, job[v])'
    <2>1. CASE v = w
      <3>1. JobOK(w, k)'
        BY <1>1 DEF JobOK, PlanOK, OwnOK, CreatedOK, Ready, CustomerFirst
      <3> QED BY <2>1, <3>1, <1>3, JobOKAt
    <2>2. CASE v # w
      <3>a. PICK j : j = job[v]
        OBVIOUS
      <3>1. v \in DOMAIN job /\ job'[v] = j /\ JobOK(v, j)
        BY <1>3, <1>8, <2>2, <3>a DEF BooksInv
      <3>2. JobOK(v, j)'
        BY <1>0, <3>1, JobStable, GrowsSame DEF BooksTypeOK
      <3> QED BY <3>1, <3>2, JobOKAt
    <2> QED BY <2>1, <2>2
  <1> QED BY <1>5, <1>6, <1>7, <1>8 DEF BooksInv

-----------------------------------------------------------------------------
(* Requests, and the first theorem. *)

\* A step that leaves the jobs, the links and QuickBooks alone.
LEMMA StillKeeps ==
  ASSUME BooksInv, UNCHANGED <<link, remote, job, lost, forced>>,
         row' \in [Docs -> DocRow], queue' \subseteq QueueRow, requests' \in Nat,
         api' \in ApiRow \cup {None}, CustomerOK',
         lock' \in [Entities -> {None, ApiSession} \cup JobIds],
         \A e \in Entities : lock[e] \in JobIds => lock'[e] = lock[e]
  PROVE  BooksInv'
  <1>1. BooksTypeOK'
    BY DEF BooksTypeOK, BooksInv
  <1>2. LinksOK'
    BY DEF BooksInv, LinksOK, Pointer
  <1>3. CountOK'
    <2>1. \A e \in Entities : RemoteOf(e)' = RemoteOf(e) /\ (Booked(e) <=> Booked(e)')
      BY DEF RemoteOf, Booked
    <2> QED BY <2>1 DEF CountOK, BooksInv
  <1>4. ASSUME NEW v \in DOMAIN job'
        PROVE  JobOK(v, job[v])'
    <2>a. PICK j : j = job[v]
      OBVIOUS
    <2>1. v \in DOMAIN job /\ job'[v] = j /\ JobOK(v, j)
      BY <1>4, <2>a DEF BooksInv
    <2>2. v \in JobIds /\ DOMAIN j.links \subseteq Entities
      BY <2>1, <2>a, JobFacts, PartialFacts DEF BooksInv, JobRow
    <2>3. \A e \in DOMAIN j.links : lock'[e] = lock[e]
      BY <2>1, <2>2 DEF JobOK, OwnOK
    <2>4. JobOK(v, j)'
      BY <2>1, <2>3, JobStable, GrowsSame DEF BooksInv, BooksTypeOK
    <2> QED BY <2>1, <2>4, JobOKAt
  <1> QED BY <1>1, <1>2, <1>3, <1>4 DEF BooksInv

LEMMA EnqueueFacts ==
  ASSUME BooksInv, NEW t \in Tasks, NEW v \in Nat, NEW f \in BOOLEAN, NEW g \in BOOLEAN,
         Enqueue(JobId(t, v, f), g)
  PROVE  queue' \subseteq QueueRow
  <1>1. requests \in Nat /\ queue \subseteq QueueRow
    BY DEF BooksInv, BooksTypeOK
  <1>a. PICK id : id = JobId(t, v, f)
    OBVIOUS
  <1>2. id \in JobIds /\ id[1] = t
    BY <1>1, <1>a DEF JobId, JobIds
  <1>3. [id |-> id, task |-> id[1], force |-> g, tries |-> 0] \in QueueRow
    BY <1>2 DEF QueueRow
  <1> QED BY <1>1, <1>3, <1>a DEF Enqueue

LEMMA OpenDocKeeps ==
  ASSUME BooksInv, NEW d \in Docs, NEW r \in DocRow, Open([doc |-> d, row |-> r]),
         queue' \subseteq QueueRow
  PROVE  BooksInv'
  <1>a. PICK a : a = [doc |-> d, row |-> r]
    OBVIOUS
  <1>1. a \in ApiRow /\ a.doc # "customer"
    BY <1>a DEF ApiRow, Docs
  <1>2. /\ UNCHANGED <<row, link, remote, job, lost, forced>> /\ requests' = requests + 1
        /\ api' = a /\ lock' = lock
    BY <1>1, <1>a DEF Open
  <1>3. requests' \in Nat
    BY <1>2 DEF BooksInv, BooksTypeOK
  <1>4. CustomerOK'
    BY <1>1, <1>2 DEF CustomerOK
  <1> QED BY <1>1, <1>2, <1>3, <1>4, StillKeeps DEF BooksInv, BooksTypeOK

LEMMA EnqueueDocKeeps ==
  ASSUME BooksInv, NEW d \in Docs, NEW r \in DocRow, NEW f \in BOOLEAN, EnqueueDocSync(d, r, f)
  PROVE  BooksInv'
  <1>1. CASE Open([doc |-> d, row |-> r]) /\ queue' = queue
    BY <1>1, OpenDocKeeps DEF BooksInv, BooksTypeOK
  <1>2. CASE /\ Open([doc |-> d, row |-> [r EXCEPT !.status = "QUEUED"]])
             /\ Enqueue(JobId(d, r.content, f), f)
    <2>1. [r EXCEPT !.status = "QUEUED"] \in DocRow /\ r.content \in Nat
      BY DEF DocRow, SyncStatus
    <2>2. queue' \subseteq QueueRow
      BY <1>2, <2>1, EnqueueFacts DEF Tasks
    <2> QED BY <1>2, <2>1, <2>2, OpenDocKeeps
  <1> QED BY <1>1, <1>2 DEF EnqueueDocSync

\* The rows that requests write.
LEMMA RequestRows ==
  ASSUME BooksInv, NEW d \in Docs, NEW r, r = row[d]
  PROVE  /\ r \in DocRow
         /\ [r EXCEPT !.state = "LIVE"] \in DocRow
         /\ [r EXCEPT !.content = @ + 1] \in DocRow
         /\ [r EXCEPT !.state = "VOID", !.content = @ + 1] \in DocRow
  <1>1. r \in DocRow
    BY DEF BooksInv, BooksTypeOK
  <1>2. r.content + 1 \in Nat
    BY <1>1 DEF DocRow
  <1>3. [r EXCEPT !.state = "LIVE"] \in DocRow
    BY <1>1 DEF DocRow
  <1>4. [r EXCEPT !.content = @ + 1] \in DocRow
    BY <1>1, <1>2 DEF DocRow
  <1>5. [r EXCEPT !.state = "VOID", !.content = @ + 1] \in DocRow
    BY <1>1, <1>2 DEF DocRow
  <1> QED BY <1>1, <1>3, <1>4, <1>5

LEMMA VoidCreditNoteKeeps ==
  ASSUME BooksInv, VoidCreditNote
  PROVE  BooksInv'
  <1>a. PICK new : new = [row["credit_note"] EXCEPT !.state = "VOID", !.content = @ + 1]
    OBVIOUS
  <1>1. "credit_note" \in Docs /\ "void_chain" \in Tasks /\ "void_credit_note" \in Tasks
    BY DEF Docs, Tasks
  <1>2. new \in DocRow
    BY <1>1, <1>a, RequestRows
  <1>3. [new EXCEPT !.status = "QUEUED"] \in DocRow /\ new.content \in Nat
    BY <1>2 DEF DocRow, SyncStatus
  <1>4. CASE /\ Open([doc |-> "credit_note", row |-> new])
             /\ Enqueue(JobId("void_chain", new.content, FALSE), TRUE)
    BY <1>1, <1>2, <1>3, <1>4, EnqueueFacts, OpenDocKeeps
  <1>5. CASE /\ Open([doc |-> "credit_note", row |-> [new EXCEPT !.status = "QUEUED"]])
             /\ Enqueue(JobId("void_credit_note", new.content, FALSE), FALSE)
    BY <1>1, <1>3, <1>5, EnqueueFacts, OpenDocKeeps
  <1> QED BY <1>4, <1>5, <1>a DEF VoidCreditNote

LEMMA CustomerSyncKeeps ==
  ASSUME BooksInv, NEW f \in BOOLEAN, EnqueueCustomerSync(f)
  PROVE  BooksInv'
  <1>a. PICK old : old = link["customer"]
    OBVIOUS
  <1>b. PICK new : new = IF old.version = 0 THEN PendingLink
                         ELSE [old EXCEPT !.status = "QUEUED", !.version = @ + 1]
    OBVIOUS
  <1>c. PICK a : a = [doc |-> "customer", row |-> new]
    OBVIOUS
  <1>1. /\ lock["customer"] = None /\ Open(a) /\ Enqueue(JobId("customer", 0, f), f)
    BY <1>a, <1>b, <1>c DEF EnqueueCustomerSync
  <1>2. old \in LinkRow
    BY <1>a DEF BooksInv, BooksTypeOK, Entities
  <1>3. new \in LinkRow
    <2>1. PendingLink \in LinkRow
      BY DEF LinkRow, PendingLink, NoLink, SyncStatus, Id
    <2>2. old.version + 1 \in Nat
      BY <1>2 DEF LinkRow
    <2>3. [old EXCEPT !.status = "QUEUED", !.version = @ + 1] \in LinkRow
      BY <1>2, <2>2 DEF LinkRow, SyncStatus
    <2> QED BY <1>b, <2>1, <2>3
  <1>4. a \in ApiRow /\ a.doc = "customer" /\ a.row = new
    BY <1>3, <1>c DEF ApiRow
  <1>5. /\ UNCHANGED <<row, link, remote, job, lost, forced>> /\ requests' = requests + 1
        /\ api' = a /\ lock' = [lock EXCEPT !["customer"] = ApiSession]
    BY <1>1, <1>4 DEF Open
  <1>6. queue' \subseteq QueueRow
    BY <1>1, EnqueueFacts DEF Tasks
  <1>7. requests' \in Nat /\ lock' \in [Entities -> {None, ApiSession} \cup JobIds]
        /\ lock'["customer"] = ApiSession
    BY <1>5 DEF BooksInv, BooksTypeOK, Entities
  <1>8. \A e \in Entities : lock[e] \in JobIds => lock'[e] = lock[e]
    BY <1>1, <1>5, NoneAssumption DEF BooksInv, BooksTypeOK
  <1>9. CustomerOK'
    <2>1. new.id \in {None, old.id}
      <3>1. CASE old.version = 0
        BY <1>b, <3>1 DEF PendingLink, NoLink
      <3>2. CASE old.version # 0
        BY <1>b, <1>2, <3>2 DEF LinkRow
      <3> QED BY <3>1, <3>2
    <2> QED BY <2>1, <1>4, <1>5, <1>7, <1>a DEF CustomerOK
  <1> QED BY <1>4, <1>5, <1>6, <1>7, <1>8, <1>9, StillKeeps DEF BooksInv, BooksTypeOK

LEMMA CloseFacts ==
  ASSUME BooksInv, CloseRequest
  PROVE  /\ api \in ApiRow /\ api' = None
         /\ UNCHANGED <<remote, job, lost, forced, queue, requests, resent>>
         /\ lock' \in [Entities -> {None, ApiSession} \cup JobIds]
         /\ \A e \in Entities : lock[e] \in JobIds => lock'[e] = lock[e]
         /\ CustomerOK'
  <1>1. lock \in [Entities -> {None, ApiSession} \cup JobIds]
    BY DEF BooksInv, BooksTypeOK
  <1>2. lock' = [e \in Entities |-> IF lock[e] = ApiSession THEN None ELSE lock[e]]
    BY DEF CloseRequest
  <1>3. \A e \in Entities : lock'[e] \in {None, ApiSession} \cup JobIds
    BY <1>1, <1>2
  <1>4. \A e \in Entities : lock[e] \in JobIds => lock'[e] = lock[e]
    BY <1>2, NoneAssumption
  <1>5. lock' \in [Entities -> {None, ApiSession} \cup JobIds]
    BY <1>2, <1>3
  <1> QED BY <1>4, <1>5 DEF CloseRequest, BooksInv, BooksTypeOK, CustomerOK

LEMMA CommitDocKeeps ==
  ASSUME BooksInv, CommitRequest, api.doc # "customer"
  PROVE  BooksInv'
  <1>1. /\ api \in ApiRow /\ api' = None
        /\ UNCHANGED <<remote, job, lost, forced, queue, requests>>
        /\ lock' \in [Entities -> {None, ApiSession} \cup JobIds]
        /\ \A e \in Entities : lock[e] \in JobIds => lock'[e] = lock[e]
        /\ CustomerOK'
    BY CloseFacts DEF CommitRequest
  <1>2. api.doc \in Docs /\ api.row \in DocRow
    BY <1>1 DEF ApiRow
  <1>3. [api.row EXCEPT !.fp = row[api.doc].fp] \in DocRow
    BY <1>2 DEF DocRow, BooksInv, BooksTypeOK
  <1>4. row' \in [Docs -> DocRow] /\ link' = link
    BY <1>3 DEF CommitRequest, BooksInv, BooksTypeOK
  <1>5. api' \in ApiRow \cup {None} /\ queue' \subseteq QueueRow /\ requests' \in Nat
    BY <1>1 DEF BooksInv, BooksTypeOK
  <1> QED BY <1>1, <1>4, <1>5, StillKeeps

LEMMA CommitCustomerKeeps ==
  ASSUME BooksInv, CommitRequest, api.doc = "customer"
  PROVE  BooksInv'
  <1>1. /\ api \in ApiRow /\ api' = None /\ row' = row
        /\ UNCHANGED <<remote, job, lost, forced, queue, requests>>
        /\ lock' \in [Entities -> {None, ApiSession} \cup JobIds]
        /\ \A e \in Entities : lock[e] \in JobIds => lock'[e] = lock[e]
        /\ CustomerOK'
    BY CloseFacts DEF CommitRequest
  <1>2. /\ api # None /\ api.row \in LinkRow /\ api.row.id \in {None, link["customer"].id}
        /\ link' = [link EXCEPT !["customer"] = api.row]
    <2>1. api # None /\ link' = [link EXCEPT !["customer"] = api.row]
      BY DEF CommitRequest, CloseRequest
    <2>2. api.row \in LinkRow
      BY <1>1 DEF ApiRow, Docs
    <2> QED BY <2>1, <2>2 DEF BooksInv, CustomerOK
  <1>3. /\ link' \in [Entities -> LinkRow] /\ link'["customer"] = api.row
        /\ \A e \in Entities : e # "customer" => link'[e] = link[e]
    BY <1>2 DEF BooksInv, BooksTypeOK, Entities
  <1>4. BooksTypeOK'
    BY <1>1, <1>3 DEF BooksInv, BooksTypeOK
  <1>5. LinksOK'
    BY <1>1, <1>2, <1>3 DEF BooksInv, LinksOK, Pointer, Entities
  <1>6. CountOK'
    <2>1. \A e \in Entities : RemoteOf(e)' = RemoteOf(e)
      BY <1>1 DEF RemoteOf
    <2>2. \A e \in Entities \ {"customer"} : Booked(e) <=> Booked(e)'
      BY <1>1, <1>3 DEF Booked
    <2> QED BY <1>1, <2>1, <2>2 DEF CountOK, BooksInv
  <1>7. ASSUME NEW v \in DOMAIN job'
        PROVE  JobOK(v, job[v])'
    <2>a. PICK j : j = job[v]
      OBVIOUS
    <2>1. v \in DOMAIN job /\ job'[v] = j /\ JobOK(v, j)
      BY <1>1, <1>7, <2>a DEF BooksInv
    <2>2. v \in JobIds /\ DOMAIN j.links \subseteq Entities
      BY <2>1, <2>a, JobFacts, PartialFacts DEF BooksInv, JobRow
    <2>3. \A e \in DOMAIN j.links : lock'[e] = lock[e]
      BY <1>1, <2>1, <2>2 DEF JobOK, OwnOK
    <2>4. JobOK(v, j)'
      BY <1>1, <2>1, <2>3, JobStable, GrowsSame DEF BooksInv, BooksTypeOK
    <2> QED BY <2>1, <2>4, JobOKAt
  <1> QED BY <1>1, <1>4, <1>5, <1>6, <1>7 DEF BooksInv

LEMMA RequestKeeps ==
  ASSUME BooksInv, Request
  PROVE  BooksInv'
  <1>0. "invoice" \in Docs /\ "payment" \in Docs
    BY DEF Docs
  <1>1. CASE SendInvoice
    BY <1>0, <1>1, RequestRows, EnqueueDocKeeps DEF SendInvoice
  <1>2. CASE EditInvoice
    BY <1>0, <1>2, RequestRows, EnqueueDocKeeps DEF EditInvoice
  <1>3. CASE VoidInvoice
    BY <1>0, <1>3, RequestRows, EnqueueDocKeeps DEF VoidInvoice
  <1>4. CASE AllocatePayment
    BY <1>0, <1>4, RequestRows, EnqueueDocKeeps DEF AllocatePayment
  <1>5. CASE VoidCreditNote
    BY <1>5, VoidCreditNoteKeeps
  <1>6. CASE ApplyCreditNote
    <2>1. /\ UNCHANGED <<link, remote, job, lost, forced, row, queue, api, lock>>
          /\ requests' = requests + 1
      BY <1>6 DEF ApplyCreditNote
    <2>2. CustomerOK'
      BY <2>1 DEF BooksInv, CustomerOK
    <2> QED BY <2>1, <2>2, StillKeeps DEF BooksInv, BooksTypeOK
  <1>7. ASSUME NEW f \in BOOLEAN, EnqueueCustomerSync(f)
        PROVE  BooksInv'
    BY <1>7, CustomerSyncKeeps
  <1>8. ASSUME NEW f \in BOOLEAN, NEW d \in Docs, ResyncDoc(d, f)
        PROVE  BooksInv'
    BY <1>8, RequestRows, EnqueueDocKeeps DEF ResyncDoc
  <1>9. CASE CommitRequest
    BY <1>9, CommitDocKeeps, CommitCustomerKeeps
  <1>10. CASE RollbackRequest
    <2>1. CloseRequest /\ row' = row /\ link' = link
      BY <1>10 DEF RollbackRequest
    <2>2. row' \in [Docs -> DocRow]
      BY <2>1 DEF BooksInv, BooksTypeOK
    <2> QED BY <2>1, <2>2, CloseFacts, StillKeeps DEF BooksInv, BooksTypeOK
  <1> QED BY <1>1, <1>2, <1>3, <1>4, <1>5, <1>6, <1>7, <1>8, <1>9, <1>10 DEF Request

LEMMA DropJobKeeps ==
  ASSUME BooksInv, NEW q \in queue, DropJob(q)
  PROVE  BooksInv'
  <1>1. /\ UNCHANGED <<link, remote, job, lost, forced, row, requests, api, lock>>
        /\ queue' \subseteq queue
    BY DEF DropJob
  <1>2. CustomerOK'
    BY <1>1 DEF BooksInv, CustomerOK
  <1> QED BY <1>1, <1>2, StillKeeps DEF BooksInv, BooksTypeOK

LEMMA BooksNext ==
  ASSUME BooksInv, [Next]_vars
  PROVE  BooksInv'
  <1>1. CASE Request
    BY <1>1, RequestKeeps
  <1>2. ASSUME NEW w \in DOMAIN job, JobStep(w)
        PROVE  BooksInv'
    BY <1>2, SyncCustomerKeeps, SyncDocumentKeeps, VoidDocumentKeeps, SyncPaymentKeeps,
       SyncAllocatedInvoiceKeeps, SyncCreditApplicationKeeps, RecordKeeps, CommitJobKeeps,
       FailJobKeeps DEF JobStep
  <1>3. ASSUME NEW w \in DOMAIN job, RetryJob(w)
        PROVE  BooksInv'
    BY <1>3, RetryJobKeeps
  <1>4. ASSUME NEW q \in queue, StartJob(q) \/ DropJob(q)
        PROVE  BooksInv'
    BY <1>4, StartJobKeeps, DropJobKeeps
  <1>5. CASE UNCHANGED vars
    <2>1. UNCHANGED <<link, remote, job, lost, forced, row, requests, api, lock, queue>>
      BY <1>5 DEF vars
    <2>2. CustomerOK'
      BY <2>1 DEF BooksInv, CustomerOK
    <2> QED BY <2>1, <2>2, StillKeeps DEF BooksInv, BooksTypeOK
  <1> QED BY <1>1, <1>2, <1>3, <1>4, <1>5 DEF Next

LEMMA BooksInit ==
  ASSUME Init
  PROVE  BooksInv
  <1>1. PICK synced \in BOOLEAN :
    /\ row = [d \in Docs |->
          IF d = "invoice" /\ synced
          THEN [state |-> "LIVE", content |-> 0, status |-> "SYNCED", fp |-> 0]
          ELSE [state |-> IF d = "invoice" THEN "DRAFT" ELSE "LIVE",
                content |-> 0, status |-> "NOT_SYNCED", fp |-> None]]
    /\ remote = IF synced
                THEN <<[entity |-> "customer", content |-> 0, token |-> 0, void |-> FALSE],
                       [entity |-> "invoice", content |-> 0, token |-> 0, void |-> FALSE]>>
                ELSE << >>
    /\ link = [e \in Entities |->
          IF synced /\ e \in {"customer", "invoice"}
          THEN [id |-> IF e = "customer" THEN 1 ELSE 2, token |-> 0,
                status |-> "SYNCED", version |-> 1]
          ELSE NoLink]
    BY DEF Init
  <1>2. row \in [Docs -> DocRow]
    BY <1>1 DEF DocRow, SyncStatus, Id
  <1>3. link \in [Entities -> LinkRow]
    BY <1>1 DEF LinkRow, NoLink, SyncStatus, Id
  <1>4. /\ ~synced => Len(remote) = 0
        /\ synced => Len(remote) = 2 /\ remote[1].entity = "customer" /\ remote[2].entity = "invoice"
        /\ remote \in Seq(RemoteRow)
    <2>1. {"customer", "invoice"} \subseteq Entities
      BY DEF Entities, Docs
    <2>2. CASE ~synced
      BY <1>1, <2>2
    <2>3. CASE synced
      <3>a. PICK a : a = [entity |-> "customer", content |-> 0, token |-> 0, void |-> FALSE]
        OBVIOUS
      <3>b. PICK b : b = [entity |-> "invoice", content |-> 0, token |-> 0, void |-> FALSE]
        OBVIOUS
      <3>1. a \in RemoteRow /\ b \in RemoteRow /\ a.entity = "customer" /\ b.entity = "invoice"
        BY <2>1, <3>a, <3>b DEF RemoteRow
      <3>2. remote = <<a, b>>
        BY <1>1, <2>3, <3>a, <3>b
      <3>3. Len(remote) = 2 /\ remote[1] = a /\ remote[2] = b /\ remote \in Seq(RemoteRow)
        BY <3>1, <3>2
      <3> QED BY <2>3, <3>1, <3>3
    <2> QED BY <2>2, <2>3
  <1>5. lock \in [Entities -> {None, ApiSession} \cup JobIds]
    BY DEF Init
  <1>6. job \in Partial(JobIds, JobRow) /\ DOMAIN job = {}
    BY NoEntriesFacts DEF Init
  <1>7. BooksTypeOK
    BY <1>2, <1>3, <1>4, <1>5, <1>6 DEF BooksTypeOK, Init
  <1>8. CustomerOK
    BY DEF CustomerOK, Init
  <1>9. LinksOK
    <2>1. \A e \in Entities : link[e].id # None =>
             synced /\ ((e = "customer" /\ link[e].id = 1) \/ (e = "invoice" /\ link[e].id = 2))
      BY <1>1 DEF NoLink
    <2> QED BY <1>4, <2>1 DEF LinksOK, Pointer
  <1>10. CountOK
    <2> SUFFICES ASSUME NEW e \in Entities \ {"customer"}
                 PROVE  /\ Cardinality(RemoteOf(e)) <= lost[e] + forced[e] + 1
                        /\ ~Booked(e) => Cardinality(RemoteOf(e)) <= lost[e] + forced[e]
      BY DEF CountOK
    <2>1. lost[e] = 0 /\ forced[e] = 0
      BY DEF Init
    <2>2. CASE synced /\ e = "invoice"
      <3>1. RemoteOf(e) = {2}
        <4>1. 1..Len(remote) = {1, 2}
          <5>1. 1..2 = {1, 2}
            OBVIOUS
          <5> QED BY <1>4, <2>2, <5>1
        <4> QED BY <4>1, <1>4, <2>2 DEF RemoteOf
      <3>2. Booked(e)
        BY <1>1, <2>2, NoneAssumption DEF Booked
      <3>3. Cardinality(RemoteOf(e)) = 1
        BY <3>1, FS_Singleton
      <3> QED BY <2>1, <3>2, <3>3
    <2>3. CASE ~(synced /\ e = "invoice")
      <3>1. RemoteOf(e) = {}
        <4>1. CASE synced
          <5>1. 1..2 = {1, 2}
            OBVIOUS
          <5> QED BY <4>1, <5>1, <1>4, <2>3 DEF RemoteOf
        <4>2. CASE ~synced
          BY <4>2, <1>4 DEF RemoteOf
        <4> QED BY <4>1, <4>2
      <3>2. Cardinality(RemoteOf(e)) = 0
        BY <3>1, FS_EmptySet
      <3> QED BY <2>1, <3>2
    <2> QED BY <2>2, <2>3
  <1> QED BY <1>6, <1>7, <1>8, <1>9, <1>10 DEF BooksInv

\* The inductive invariant of the synchronisation.
THEOREM BooksInvariant == Spec => []BooksInv
  BY BooksInit, BooksNext, PTL DEF Spec

\* Nothing is booked twice, whatever the number of jobs at work and of their
\* tries: a document has one object in QuickBooks, plus one for each forced and
\* each rolled back creation.
THEOREM NothingBookedTwice == Spec => []NoDoubleBooking
  <1>1. ASSUME BooksInv PROVE NoDoubleBooking
    <2>1. \A e \in Entities : lost[e] \in Nat /\ forced[e] \in Nat
                              /\ Cardinality(RemoteOf(e)) \in Nat
      BY <1>1, RemoteOfFinite DEF BooksInv, BooksTypeOK
    <2> QED BY <1>1, <2>1 DEF BooksInv, CountOK, NoDoubleBooking
  <1> QED BY <1>1, BooksInvariant, PTL

-----------------------------------------------------------------------------
(* Fingerprints: what survives the steps of others.                        *)

\* A step leaves the document as it is, or commits a newer link of it.
DocStep(j, d) ==
    \/ row'[d].fp = row[d].fp /\ link'[d] = link[d]
    \/ /\ d \notin DOMAIN j.links
       /\ link'[d].version > link[d].version /\ link'[d].id # None

PlainStays == \A d \in Docs : Plain(d)' => Plain(d)

LEMMA TokenFacts ==
  ASSUME remote \in Seq(RemoteRow), RemoteGrows, NEW e, NEW id, Pointer(e, id), NEW t \in Nat,
         t <= remote[id].token
  PROVE  /\ t <= remote'[id].token
         /\ remote'[id].token = t => remote[id].token = t /\ Payload(id)' = Payload(id)
  <1>1. remote[id] \in RemoteRow /\ remote'[id] \in RemoteRow /\ id \in 1..Len(remote)
    BY DEF RemoteGrows, Pointer
  <1>2. remote[id].token \in Nat /\ remote'[id].token \in Nat
    BY <1>1 DEF RemoteRow
  <1> QED BY <1>1, <1>2 DEF RemoteGrows, Payload

LEMMA FpStable ==
  ASSUME BooksTypeOK, BooksTypeOK', RemoteGrows, PlainStays, NEW w, NEW j \in JobRow,
         OwnOK(w, j), FpJobOK(j), \A d \in Docs : DocStep(j, d)
  PROVE  FpJobOK(j)'
  <1>0. remote \in Seq(RemoteRow)
    BY DEF BooksTypeOK
  <1>1. FpRowsOK(j)'
    <2>1. DOMAIN j.rows \subseteq Docs
      BY PartialFacts DEF JobRow
    <2> QED BY <2>1 DEF FpJobOK, FpRowsOK, DocStep, RowOK
  <1>2. FpSentOK(j)'
    BY DEF FpJobOK, FpSentOK
  <1>3. FpLinksOK(j)'
    <2> SUFFICES ASSUME NEW d \in Docs, d \in DOMAIN j.links
                 PROVE  /\ d \in j.sent
                        /\ j.links[d].version > link'[d].version
                        /\ j.links[d].token <= remote'[j.links[d].id].token
                        /\ Plain(d)' /\ remote'[j.links[d].id].token = j.links[d].token =>
                              Payload(j.links[d].id)' = SyncedFp(j, d)'
      BY DEF FpLinksOK, Current
    <2>a. PICK l : l = j.links[d]
      OBVIOUS
    <2>1. l \in LinkRow /\ Pointer(d, l.id)
      BY <2>a, PartialFacts DEF JobRow, OwnOK
    <2>2. l.token \in Nat
      BY <2>1 DEF LinkRow
    <2>3. /\ d \in j.sent /\ l.version > link[d].version /\ l.token <= remote[l.id].token
          /\ Plain(d) /\ remote[l.id].token = l.token => Payload(l.id) = SyncedFp(j, d)
      BY <2>a DEF FpJobOK, FpLinksOK, Current
    <2>4. /\ l.token <= remote'[l.id].token
          /\ remote'[l.id].token = l.token =>
                remote[l.id].token = l.token /\ Payload(l.id)' = Payload(l.id)
      BY <1>0, <2>1, <2>2, <2>3, TokenFacts
    <2>5. row'[d].fp = row[d].fp /\ link'[d] = link[d]
      BY DEF DocStep
    <2>6. SyncedFp(j, d)' = SyncedFp(j, d)
      BY <2>5 DEF SyncedFp
    <2>7. Plain(d)' => Plain(d)
      BY DEF PlainStays
    <2> QED BY <2>a, <2>3, <2>4, <2>5, <2>6, <2>7
  <1>4. FpCallOK(j)'
    <2> SUFFICES ASSUME NEW d \in Docs, j.call # None, j.call.e = d
                 PROVE  /\ j.call.read <= Version(j, d)'
                        /\ j.call.token <= remote'[j.call.id].token
                        /\ Plain(d)' /\ remote'[j.call.id].token = j.call.token =>
                              \/ /\ j.rows[d].state # "VOID" /\ j.rows[d].fp # j.rows[d].content
                                 /\ Payload(j.call.id)' = j.rows[d].content
                              \/ /\ j.call.read # 0
                                 /\ Version(j, d)' = j.call.read =>
                                       Payload(j.call.id)' = SyncedFp(j, d)'
      BY DEF FpCallOK, Current
    <2>a. PICK c : c = j.call
      OBVIOUS
    <2>1. c \in CallRow /\ Pointer(d, c.id)
      BY <2>a DEF JobRow, OwnOK
    <2>2. c.token \in Nat /\ c.read \in Nat
      BY <2>1 DEF CallRow
    <2>3. /\ c.read <= Version(j, d) /\ c.token <= remote[c.id].token
          /\ Plain(d) /\ remote[c.id].token = c.token =>
                \/ /\ j.rows[d].state # "VOID" /\ j.rows[d].fp # j.rows[d].content
                   /\ Payload(c.id) = j.rows[d].content
                \/ c.read # 0 /\ (Version(j, d) = c.read => Payload(c.id) = SyncedFp(j, d))
      BY <2>a DEF FpJobOK, FpCallOK, Current
    <2>4. /\ c.token <= remote'[c.id].token
          /\ remote'[c.id].token = c.token =>
                remote[c.id].token = c.token /\ Payload(c.id)' = Payload(c.id)
      BY <1>0, <2>1, <2>2, <2>3, TokenFacts
    <2>5. Plain(d)' => Plain(d)
      BY DEF PlainStays
    <2>6. CASE row'[d].fp = row[d].fp /\ link'[d] = link[d]
      <3>1. SyncedFp(j, d)' = SyncedFp(j, d) /\ Version(j, d)' = Version(j, d)
        BY <2>6 DEF SyncedFp, Version
      <3> QED BY <2>a, <2>3, <2>4, <2>5, <3>1
    <2>7. CASE d \notin DOMAIN j.links /\ link'[d].version > link[d].version
      <3>1. Version(j, d)' = link'[d].version /\ Version(j, d) = link[d].version
        BY <2>7 DEF Version
      <3>2. link[d] \in LinkRow /\ link'[d] \in LinkRow
        BY DEF BooksTypeOK, Entities
      <3>3. link[d].version \in Nat /\ link'[d].version \in Nat
        BY <3>2 DEF LinkRow
      <3>4. c.read <= Version(j, d)' /\ Version(j, d)' # c.read
        BY <2>2, <2>3, <2>7, <3>1, <3>3
      <3> QED BY <2>a, <2>3, <2>4, <2>5, <3>4
    <2> QED BY <2>6, <2>7 DEF DocStep
  <1> QED BY <1>1, <1>2, <1>3, <1>4 DEF FpJobOK

LEMMA FpDocStable ==
  ASSUME BooksInv, RemoteGrows, NEW d \in Docs, FpDocOK(d), Plain(d)' => Plain(d),
         row'[d].fp = row[d].fp, link'[d] = link[d], RowOK(d, row[d])'
  PROVE  FpDocOK(d)'
  <1>0. remote \in Seq(RemoteRow) /\ LinksOK /\ d \in Entities
    BY DEF BooksInv, BooksTypeOK, Entities
  <1>1. row'[d].fp # None => link'[d].id # None
    BY DEF FpDocOK
  <1>2. ASSUME link'[d].id # None
        PROVE  /\ link'[d].version # 0
               /\ link'[d].token <= remote'[link'[d].id].token
               /\ Plain(d)' /\ remote'[link'[d].id].token = link'[d].token =>
                     row'[d].fp = remote'[link'[d].id].content
    <2>a. PICK l : l = link[d]
      OBVIOUS
    <2>1. l \in LinkRow /\ Pointer(d, l.id) /\ l.id # None
      BY <1>0, <1>2, <2>a DEF BooksInv, BooksTypeOK, LinksOK
    <2>2. l.token \in Nat
      BY <2>1 DEF LinkRow
    <2>3. /\ l.version # 0 /\ l.token <= remote[l.id].token
          /\ Plain(d) /\ remote[l.id].token = l.token => row[d].fp = Payload(l.id)
      BY <2>a, <2>1 DEF FpDocOK, Current
    <2>4. /\ l.token <= remote'[l.id].token
          /\ remote'[l.id].token = l.token =>
                remote[l.id].token = l.token /\ Payload(l.id)' = Payload(l.id)
      BY <1>0, <2>1, <2>2, <2>3, TokenFacts
    <2> QED BY <2>a, <2>3, <2>4 DEF Payload
  <1> QED BY <1>1, <1>2 DEF FpDocOK, Current, Payload

LEMMA FpJobAt ==
  ASSUME NEW w, NEW k, FpJobOK(k)', job'[w] = k
  PROVE  FpJobOK(job[w])'
  BY DEF FpJobOK, FpRowsOK, FpSentOK, FpLinksOK, FpCallOK, Current, Payload, SyncedFp, Version

-----------------------------------------------------------------------------
(* Fingerprints: the steps of a job.                                       *)

NotesEmpty == \A i \in 1..Len(remote) : remote[i].entity = "credit_note" => remote[i].content = 0

LEMMA MoveFp ==
  ASSUME BooksInv, BooksInv', FingerprintInv, NEW w, NEW k, Moves(w, k), PlainStays,
         FpJobOK(k)', NotesEmpty'
  PROVE  FingerprintInv'
  <1>0. /\ w \in DOMAIN job /\ job'[w] = k /\ DOMAIN job' = DOMAIN job
        /\ \A v \in DOMAIN job : v # w => job'[v] = job[v]
        /\ RemoteGrows /\ row' = row /\ link' = link /\ api' = api
    BY MoveFacts DEF Moves, BooksInv
  <1>1. ASSUME NEW d \in Docs
        PROVE  FpDocOK(d)'
    <2>1. FpDocOK(d) /\ (Plain(d)' => Plain(d))
      BY DEF FingerprintInv, PlainStays
    <2>2. RowOK(d, row[d])'
      BY <1>0, <2>1 DEF FpDocOK, RowOK
    <2> QED BY <1>0, <2>1, <2>2, FpDocStable
  <1>2. ASSUME NEW v \in DOMAIN job'
        PROVE  FpJobOK(job[v])'
    <2>1. CASE v = w
      BY <1>0, <2>1, FpJobAt
    <2>2. CASE v # w
      <3>a. PICK j : j = job[v]
        OBVIOUS
      <3>1. v \in DOMAIN job /\ job'[v] = j
        BY <1>0, <1>2, <2>2, <3>a
      <3>2. j \in JobRow /\ PlanOK(j) /\ OwnOK(v, j) /\ FpJobOK(j)
        BY <3>1, <3>a, JobFacts DEF BooksInv, JobOK, FingerprintInv
      <3>3. \A d \in Docs : DocStep(j, d)
        BY <1>0 DEF DocStep
      <3>4. FpJobOK(j)'
        BY <1>0, <3>2, <3>3, FpStable DEF BooksInv
      <3> QED BY <3>1, <3>4, FpJobAt
    <2> QED BY <2>1, <2>2
  <1>3. api' # None /\ api'.doc \in Docs => RowOK(api.doc, api.row)'
    BY <1>0 DEF FingerprintInv, RowOK
  <1> QED BY <1>1, <1>2, <1>3 DEF FingerprintInv, NotesEmpty

\* The rows a step adds to those a job has loaded are committed ones.
LoadsNow(old, new) ==
    /\ Loads(old, new)
    /\ \A d \in DOMAIN new : d \in DOMAIN old \/ (d \in Docs /\ new[d] = row[d])

\* A job that loads rows, confirms a document with an unchanged fingerprint or
\* skips a step.
LEMMA FpPlan ==
  ASSUME NEW j \in JobRow, PlanOK(j), FpJobOK(j), \A d \in Docs : FpDocOK(d), NEW k,
         k.links = j.links, k.call = None, LoadsNow(j.rows, k.rows),
         \A d \in j.sent : d \in k.sent,
         \A d \in k.sent : d \in j.sent \/ k.rows[d].fp = k.rows[d].content
  PROVE  FpJobOK(k)
  <1>0. \A d \in Docs : d \in j.sent => d \in DOMAIN j.rows /\ k.rows[d] = j.rows[d]
    BY DEF PlanOK, LoadsNow, Loads
  <1>1. FpRowsOK(k)
    BY DEF FpRowsOK, FpJobOK, LoadsNow, Loads, FpDocOK
  <1>2. FpSentOK(k)
    BY <1>0 DEF FpSentOK, FpJobOK
  <1>3. FpLinksOK(k)
    <2>1. \A d \in Docs : d \in DOMAIN j.links => SyncedFp(k, d) = SyncedFp(j, d)
      BY <1>0 DEF SyncedFp, FpJobOK, FpLinksOK
    <2> QED BY <2>1 DEF FpLinksOK, FpJobOK
  <1>4. FpCallOK(k)
    BY DEF FpCallOK
  <1> QED BY <1>1, <1>2, <1>3, <1>4 DEF FpJobOK

LEMMA FpPlanStep ==
  ASSUME BooksInv, BooksInv', FingerprintInv, NEW w \in DOMAIN job, NEW j, j = job[w],
         NEW k \in JobRow, PlanStep(w, k),
         k.links = j.links, k.created = j.created, k.call = None, LoadsNow(j.rows, k.rows),
         \A d \in j.sent : d \in k.sent,
         \A d \in k.sent : d \in j.sent \/ k.rows[d].fp = k.rows[d].content
  PROVE  FingerprintInv'
  <1>1. Moves(w, k) /\ remote' = remote /\ forced' = forced /\ resent' = resent
    BY PlanShape DEF PlanStep
  <1>2. j \in JobRow /\ PlanOK(j) /\ FpJobOK(j) /\ \A d \in Docs : FpDocOK(d)
    BY JobFacts DEF BooksInv, JobOK, FingerprintInv
  <1>3. FpJobOK(k)
    BY <1>2, FpPlan
  <1>4. PlainStays
    BY <1>1 DEF PlainStays, Plain
  <1>5. \A d \in Docs : DocStep(k, d)
    BY <1>1 DEF DocStep, Moves
  <1>a. OwnOK(w, k)
    BY DEF BooksInv, JobOK, OwnOK
  <1>6. FpJobOK(k)'
    BY <1>1, <1>3, <1>4, <1>5, <1>a, FpStable DEF BooksInv, Moves
  <1>7. NotesEmpty'
    BY <1>1 DEF NotesEmpty, FingerprintInv
  <1> QED BY <1>1, <1>4, <1>6, <1>7, MoveFp

\* What the answer of a call on a document says of the fingerprint.
CallTrue(k, d) ==
    /\ k.call.read <= Version(k, d)
    /\ k.call.token <= remote[k.call.id].token
    /\ Plain(d) =>
          \/ /\ k.rows[d].state # "VOID" /\ k.rows[d].fp # k.rows[d].content
             /\ Payload(k.call.id) = k.rows[d].content
          \/ /\ k.call.read # 0
             /\ Payload(k.call.id) = SyncedFp(k, d)

\* A job m whose record becomes k by the answer of a call.
LEMMA FpAnswer ==
  ASSUME BooksInv, BooksInv', FingerprintInv, NEW w \in DOMAIN job,
         NEW m \in JobRow, OwnOK(w, m), FpJobOK(m), NEW k, Moves(w, k), PlainStays,
         k.links = m.links, k.rows = m.rows, k.sent = m.sent, k.call # None,
         k.call.e \in Docs => CallTrue(k, k.call.e)', NotesEmpty'
  PROVE  FingerprintInv'
  <1>1. \A d \in Docs : DocStep(m, d)
    BY DEF DocStep, Moves
  <1>2. FpJobOK(m)'
    BY <1>1, FpStable DEF BooksInv, Moves
  <1>3. FpRowsOK(k)' /\ FpSentOK(k)'
    BY <1>2 DEF FpJobOK, FpRowsOK, FpSentOK
  <1>4. FpLinksOK(k)'
    BY <1>2 DEF FpJobOK, FpLinksOK, SyncedFp, Current, Payload
  <1>5. FpCallOK(k)'
    BY DEF FpCallOK, CallTrue, Current
  <1>6. FpJobOK(k)'
    BY <1>3, <1>4, <1>5 DEF FpJobOK
  <1> QED BY <1>6, MoveFp

LEMMA FpSame ==
  ASSUME NEW k, FpJobOK(k), UNCHANGED <<row, link, remote, forced, resent>>
  PROVE  FpJobOK(k)'
  <1>1. FpRowsOK(k)'
    BY DEF FpJobOK, FpRowsOK, RowOK
  <1>2. FpSentOK(k)'
    BY DEF FpJobOK, FpSentOK
  <1>3. \A d : (SyncedFp(k, d)' = SyncedFp(k, d)) /\ (Version(k, d)' = Version(k, d))
            /\ (Payload(d)' = Payload(d)) /\ (Plain(d)' <=> Plain(d))
    BY DEF SyncedFp, Version, Payload, Plain
  <1>4. FpLinksOK(k)'
    BY <1>3 DEF FpJobOK, FpLinksOK, Current
  <1>5. FpCallOK(k)'
    BY <1>3 DEF FpJobOK, FpCallOK, Current
  <1> QED BY <1>1, <1>2, <1>4, <1>5 DEF FpJobOK

\* Recording the answer makes it a link of the job.
LEMMA FpRecord ==
  ASSUME BooksInv, BooksInv', FingerprintInv, NEW w \in DOMAIN job, Record(w)
  PROVE  FingerprintInv'
  <1>j. PICK j : j = job[w]
    OBVIOUS
  <1>a. PICK e : e = j.call.e
    OBVIOUS
  <1>b. PICK l : l = [id |-> j.call.id, token |-> j.call.token, status |-> "SYNCED",
                      version |-> LinkView(w, e).version + 1]
    OBVIOUS
  <1>c. PICK k : k = Recorded(j, e, l)
    OBVIOUS
  <1>1. /\ j \in JobRow /\ PlanOK(j) /\ e \in Entities /\ l \in LinkRow
        /\ j.call \in CallRow /\ j.call # None
        /\ Moves(w, k) /\ remote' = remote /\ forced' = forced
        /\ k.rows = j.rows /\ k.links = With(j.links, e, l)
        /\ k.sent = j.sent \cup {e} /\ k.call = None
    BY <1>j, <1>a, <1>b, <1>c, RecordShape
  <1>2. /\ DOMAIN k.links = DOMAIN j.links \cup {e} /\ k.links[e] = l
        /\ \A f \in DOMAIN j.links : f # e => k.links[f] = j.links[f]
    BY <1>1 DEF With
  <1>3. /\ l.id = j.call.id /\ l.token = j.call.token /\ l.version = Version(j, e) + 1
        /\ j.call.read # 0 => Version(j, e) = j.call.read
    BY <1>a, <1>b, <1>j DEF LinkView, Version, Record
  <1>4. resent' = resent /\ PlainStays
    BY <1>1 DEF Record, PlainStays, Plain
  <1>5. FpJobOK(j) /\ JobOK(w, j)
    BY <1>j DEF FingerprintInv, BooksInv
  <1>6. FpRowsOK(k)
    BY <1>1, <1>5 DEF FpJobOK, FpRowsOK
  <1>7. FpSentOK(k)
    BY <1>1, <1>2, <1>5 DEF FpJobOK, FpSentOK
  <1>8. \A d \in Docs : SyncedFp(k, d) = SyncedFp(j, d)
    BY <1>1 DEF SyncedFp
  <1>9. FpLinksOK(k)
    <2> SUFFICES ASSUME NEW d \in Docs, d \in DOMAIN k.links
                 PROVE  /\ d \in k.sent
                        /\ k.links[d].version > link[d].version
                        /\ k.links[d].token <= remote[k.links[d].id].token
                        /\ Plain(d) /\ Current(k.links[d]) =>
                              Payload(k.links[d].id) = SyncedFp(k, d)
      BY DEF FpLinksOK
    <2>1. CASE d # e
      BY <1>1, <1>2, <1>5, <1>8, <2>1 DEF FpJobOK, FpLinksOK
    <2>2. CASE d = e
      <3>1. link[e] \in LinkRow
        BY <1>1 DEF BooksInv, BooksTypeOK
      <3>2. link[e].version \in Nat
        BY <3>1 DEF LinkRow
      <3>3. Version(j, e) \in Nat
        <4>1. CASE e \in DOMAIN j.links
          <5>1. j.links[e] \in LinkRow
            BY <1>1, <4>1, PartialFacts DEF JobRow
          <5> QED BY <4>1, <5>1 DEF Version, LinkRow
        <4>2. CASE e \notin DOMAIN j.links
          BY <4>2, <3>2 DEF Version
        <4> QED BY <4>1, <4>2
      <3>4. Version(j, e) >= link[e].version
        BY <1>5, <2>2, <3>2, <3>3 DEF Version, FpJobOK, FpLinksOK
      <3>5. /\ l.token <= remote[l.id].token
            /\ Plain(e) /\ Current(j.call) =>
                  \/ /\ j.rows[e].state # "VOID" /\ j.rows[e].fp # j.rows[e].content
                     /\ Payload(j.call.id) = j.rows[e].content
                  \/ /\ j.call.read # 0
                     /\ Version(j, e) = j.call.read => Payload(j.call.id) = SyncedFp(j, e)
        BY <1>1, <1>3, <1>5, <1>a, <2>2 DEF FpJobOK, FpCallOK
      <3>6. Plain(e) /\ Current(l) => Payload(l.id) = SyncedFp(j, e)
        BY <1>3, <3>5 DEF Current, SyncedFp
      <3> QED BY <1>1, <1>2, <1>3, <1>8, <2>2, <3>2, <3>3, <3>4, <3>5, <3>6
    <2> QED BY <2>1, <2>2
  <1>10. FpCallOK(k)
    BY <1>1 DEF FpCallOK
  <1>11. FpJobOK(k)
    BY <1>6, <1>7, <1>9, <1>10 DEF FpJobOK
  <1>12. UNCHANGED <<row, link, remote, forced, resent>>
    BY <1>1, <1>4 DEF Moves
  <1>13. FpJobOK(k)'
    BY <1>11, <1>12, FpSame
  <1>14. NotesEmpty'
    BY <1>1 DEF NotesEmpty, FingerprintInv
  <1> QED BY <1>1, <1>4, <1>13, <1>14, MoveFp

LEMMA FpPlanned ==
  ASSUME BooksInv, BooksInv', FingerprintInv, NEW w \in DOMAIN job, job[w].call = None,
         NEW rows \in Partial(Docs, DocRow), NEW todo \in Seq(StepNames),
         LoadsNow(job[w].rows, rows), PlanStep(w, Planned(job[w], rows, todo))
  PROVE  FingerprintInv'
  <1>j. PICK j : j = job[w]
    OBVIOUS
  <1>k. PICK k : k = Planned(j, rows, todo)
    OBVIOUS
  <1>1. j \in JobRow
    BY <1>j, JobFacts DEF BooksInv
  <1>2. /\ k \in JobRow /\ k.rows = rows /\ k.links = j.links
        /\ k.sent = j.sent /\ k.call = None /\ k.created = j.created
    BY <1>1, <1>j, <1>k DEF Planned, JobRow
  <1> QED BY <1>1, <1>2, <1>j, <1>k, FpPlanStep

LEMMA FpConfirmed ==
  ASSUME BooksInv, BooksInv', FingerprintInv, NEW w \in DOMAIN job, NEW d \in Docs, At(w, d),
         job[w].rows[d].fp = job[w].rows[d].content, PlanStep(w, Confirmed(job[w], d))
  PROVE  FingerprintInv'
  <1>j. PICK j : j = job[w]
    OBVIOUS
  <1>k. PICK k : k = Confirmed(j, d)
    OBVIOUS
  <1>1. d \in StepNames /\ d \in Entities
    BY DEF StepNames, Entities
  <1>2. j \in JobRow /\ j.todo # << >> /\ j.call = None
    BY <1>1, <1>j, AtFacts
  <1>3. /\ k \in JobRow /\ k.rows = j.rows /\ k.links = j.links
        /\ k.sent = j.sent \cup {d} /\ k.call = None /\ k.created = j.created
    BY <1>1, <1>2, <1>k, ConfirmedFacts
  <1>4. LoadsNow(j.rows, k.rows)
    BY <1>3 DEF LoadsNow, Loads
  <1>5. \A f \in k.sent : f \in j.sent \/ k.rows[f].fp = k.rows[f].content
    BY <1>3, <1>j
  <1> QED BY <1>3, <1>4, <1>5, <1>j, <1>k, FpPlanStep

\* The object of an entity is updated.
LEMMA FpCall ==
  ASSUME BooksInv, BooksInv', FingerprintInv, NEW w \in DOMAIN job, job[w].call = None,
         NEW rows \in Partial(Docs, DocRow), LoadsNow(job[w].rows, rows), NEW e \in Entities,
         NEW id, Pointer(e, id), NEW content \in Nat, NEW void \in BOOLEAN,
         CallStep(w, rows, e, id, content, void), PlainStays,
         e = "credit_note" => content = 0,
         NEW m, m = Planned(job[w], rows, job[w].todo),
         e \in Docs /\ Plain(e)' =>
            \/ rows[e].state # "VOID" /\ rows[e].fp # rows[e].content /\ content = rows[e].content
            \/ ReadVersion(w, e) # 0 /\ content = SyncedFp(m, e)
  PROVE  FingerprintInv'
  <1>j. PICK j : j = job[w]
    OBVIOUS
  <1>c. PICK c : c = CallOf(w, e, id, remote[id].token + 1)
    OBVIOUS
  <1>k. PICK k : k = Called(j, rows, c)
    OBVIOUS
  <1>1. /\ c \in CallRow /\ c # None /\ Moves(w, k)
        /\ Len(remote') = Len(remote)
        /\ remote'[id].token = remote[id].token + 1 /\ remote'[id].content = content
        /\ \A i \in 1..Len(remote) : i # id => remote'[i] = remote[i]
    BY <1>j, <1>c, <1>k, CallShape
  <1>2. j \in JobRow /\ PlanOK(j) /\ FpJobOK(j) /\ OwnOK(w, j) /\ \A d \in Docs : FpDocOK(d)
    BY <1>j, JobFacts DEF BooksInv, JobOK, FingerprintInv
  <1>3. /\ k.rows = rows /\ k.links = j.links /\ k.sent = j.sent /\ k.call = c
    BY <1>1, <1>2, <1>k, CalledFacts
  <1>4. /\ m \in JobRow /\ m.rows = rows /\ m.links = j.links /\ m.sent = j.sent
        /\ m.call = None /\ m.created = j.created
    BY <1>2, <1>j DEF Planned, JobRow
  <1>5. FpJobOK(m)
    BY <1>2, <1>4, <1>j, FpPlan
  <1>6. OwnOK(w, m)
    BY <1>2, <1>4 DEF OwnOK
  <1>7. /\ c.e = e /\ c.id = id /\ c.token = remote'[id].token
        /\ c.read = ReadVersion(w, e)
    BY <1>1, <1>c DEF CallOf
  <1>8. link' = link /\ row' = row /\ RemoteGrows
    BY <1>1 DEF Moves
  <1>9. NotesEmpty'
    <2>1. \A i \in 1..Len(remote') : i # id => remote'[i] = remote[i]
      BY <1>1
    <2>2. id \in 1..Len(remote) /\ remote'[id].entity = e
      BY <1>8 DEF Pointer, RemoteGrows
    <2> QED BY <1>1, <2>1, <2>2 DEF NotesEmpty, FingerprintInv
  <1>10. ASSUME e \in Docs
         PROVE  CallTrue(k, k.call.e)'
    <2>1. Version(k, e)' = LinkView(w, e).version
      BY <1>3, <1>8, <1>j DEF Version, LinkView
    <2>2. LinkView(w, e).version \in Nat /\ ReadVersion(w, e) <= LinkView(w, e).version
      BY LinkViewFacts DEF LinkRow, ReadVersion
    <2>3. remote'[id].token \in Nat
      <3>1. remote[id] \in RemoteRow
        BY DEF Pointer, BooksInv, BooksTypeOK
      <3> QED BY <1>1, <3>1 DEF RemoteRow
    <2>4. SyncedFp(k, e)' = SyncedFp(m, e)
      BY <1>3, <1>4, <1>8 DEF SyncedFp
    <2>5. Payload(id)' = content
      BY <1>1 DEF Payload
    <2>6. /\ c.read <= Version(k, e)' /\ c.token <= remote'[id].token
          /\ Plain(e)' =>
                \/ /\ k.rows[e].state # "VOID" /\ k.rows[e].fp # k.rows[e].content
                   /\ Payload(id)' = k.rows[e].content
                \/ c.read # 0 /\ Payload(id)' = SyncedFp(k, e)'
      BY <1>3, <1>7, <1>10, <2>1, <2>2, <2>3, <2>4, <2>5
    <2> QED BY <1>3, <1>7, <2>6 DEF CallTrue, Payload, SyncedFp, Version, Plain
  <1>11. k.call # None /\ (k.call.e \in Docs => CallTrue(k, k.call.e)')
    BY <1>1, <1>3, <1>7, <1>10
  <1> QED BY <1>1, <1>3, <1>4, <1>5, <1>6, <1>9, <1>11, FpAnswer

\* An object of an entity is created.
LEMMA FpCreate ==
  ASSUME BooksInv, BooksInv', FingerprintInv, NEW w \in DOMAIN job, job[w].call = None,
         NEW e \in Entities, NEW content \in Nat, CreateStep(w, e, content),
         e = "credit_note" => content = 0,
         e \in Docs /\ ~job[w].force =>
            /\ LinkView(w, e).id = None /\ e \in DOMAIN job[w].rows
            /\ job[w].rows[e].state # "VOID" /\ content = job[w].rows[e].content
  PROVE  FingerprintInv'
  <1>j. PICK j : j = job[w]
    OBVIOUS
  <1>c. PICK c : c = CallOf(w, e, Len(remote) + 1, 0)
    OBVIOUS
  <1>k. PICK k : k = Created(j, c)
    OBVIOUS
  <1>i. PICK id : id = Len(remote) + 1
    OBVIOUS
  <1>1. /\ c \in CallRow /\ c # None /\ Moves(w, k)
        /\ Len(remote') = Len(remote) + 1
        /\ \A i \in 1..Len(remote) : remote'[i] = remote[i]
        /\ remote'[id] = [entity |-> e, content |-> content, token |-> 0, void |-> FALSE]
        /\ forced' = IF j.force THEN [forced EXCEPT ![e] = forced[e] + 1] ELSE forced
    BY <1>j, <1>c, <1>k, <1>i, CreateShape
  <1>2. /\ j \in JobRow /\ FpJobOK(j) /\ OwnOK(w, j) /\ \A d \in Docs : FpDocOK(d)
        /\ BooksTypeOK
    BY <1>j, JobFacts DEF BooksInv, JobOK, FingerprintInv
  <1>3. /\ k.rows = j.rows /\ k.links = j.links /\ k.sent = j.sent /\ k.call = c
    BY <1>1, <1>2, <1>k, CreatedFacts
  <1>4. resent' = resent /\ link' = link /\ row' = row
    BY <1>1 DEF CreateStep, Create, Moves
  <1>5. PlainStays
    <2>1. \A d \in Docs : d \in Entities
      BY DEF Entities
    <2>2. forced \in [Entities -> Nat]
      BY <1>2 DEF BooksTypeOK
    <2>3. \A d \in Docs : forced'[d] = 0 => forced[d] = 0
      BY <1>1, <2>1, <2>2
    <2> QED BY <1>4, <2>3 DEF PlainStays, Plain
  <1>6. /\ c.e = e /\ c.id = id /\ c.token = 0 /\ c.read = ReadVersion(w, e)
    BY <1>c, <1>i DEF CallOf
  <1>7. NotesEmpty'
    <2>1. remote \in Seq(RemoteRow)
      BY <1>2 DEF BooksTypeOK
    <2>2. \A i \in 1..Len(remote') : i = id \/ i \in 1..Len(remote)
      BY <1>1, <1>i, <2>1
    <2> QED BY <1>1, <2>2 DEF NotesEmpty, FingerprintInv
  <1>8. ASSUME e \in Docs
        PROVE  CallTrue(k, k.call.e)'
    <2>1. Version(k, e)' = LinkView(w, e).version
      BY <1>3, <1>4, <1>j DEF Version, LinkView
    <2>2. LinkView(w, e).version \in Nat /\ ReadVersion(w, e) <= LinkView(w, e).version
      BY LinkViewFacts DEF LinkRow, ReadVersion
    <2>3. remote'[id].token = 0 /\ Payload(id)' = content
      BY <1>1 DEF Payload
    <2>4. j.force => ~Plain(e)'
      BY <1>1, <1>2 DEF Plain, BooksTypeOK
    <2>5. ~j.force => /\ j.rows[e].state # "VOID" /\ j.rows[e].fp # j.rows[e].content
                      /\ content = j.rows[e].content
      <3>1. SUFFICES ASSUME ~j.force PROVE j.rows[e].fp # j.rows[e].content
        BY <1>8, <1>j
      <3>2. LinkView(w, e).id = None /\ e \in DOMAIN j.rows
        BY <1>8, <1>j, <3>1
      <3>3. link[e].id = None
        BY <3>2, LinkViewFacts
      <3>4. j.rows[e].fp = None
        BY <1>2, <3>2, <3>3 DEF FpJobOK, FpRowsOK
      <3>5. content = j.rows[e].content /\ content # None
        BY <1>8, <1>j, <3>1, NoneAssumption
      <3> QED BY <3>4, <3>5
    <2>6. /\ c.read <= Version(k, e)' /\ c.token <= remote'[id].token
          /\ Plain(e)' =>
                /\ k.rows[e].state # "VOID" /\ k.rows[e].fp # k.rows[e].content
                /\ Payload(id)' = k.rows[e].content
      BY <1>3, <1>6, <2>1, <2>2, <2>3, <2>4, <2>5
    <2> QED BY <1>3, <1>6, <2>6 DEF CallTrue, Payload, SyncedFp, Version, Plain
  <1>9. k.call # None /\ (k.call.e \in Docs => CallTrue(k, k.call.e)')
    BY <1>1, <1>3, <1>6, <1>8
  <1> QED BY <1>1, <1>2, <1>3, <1>5, <1>7, <1>9, FpAnswer

\* An update of a document: a forced one is remembered, any other has changed.
LEMMA UpdatePlain ==
  ASSUME NEW w, NEW e, NEW id, NEW token, NEW content, NEW void,
         Update(w, e, id, token, content, void)
  PROVE  PlainStays /\ (job[w].force => ~Plain(e)')
  BY DEF Update, PlainStays, Plain

LEMMA SelfLoadsNow ==
  ASSUME NEW rows
  PROVE  LoadsNow(rows, rows)
  BY DEF LoadsNow, Loads

LEMMA FpUpdate ==
  ASSUME BooksInv, BooksInv', FingerprintInv, NEW w \in DOMAIN job, NEW d \in Docs, At(w, d),
         NEW id, NEW token, Pointer(d, id), JobFrame,
         Update(w, d, id, token, job[w].rows[d].content, FALSE),
         job[w].rows[d].state = "LIVE",
         job[w].force \/ job[w].rows[d].fp # job[w].rows[d].content
  PROVE  FingerprintInv'
  <1>r. PICK r : r = job[w].rows[d]
    OBVIOUS
  <1>s. PICK rows : rows = job[w].rows
    OBVIOUS
  <1>m. PICK m : m = Planned(job[w], rows, job[w].todo)
    OBVIOUS
  <1>1. d \in StepNames /\ d \in Entities
    BY DEF StepNames, Entities
  <1>2. job[w].call = None /\ rows \in Partial(Docs, DocRow)
    BY <1>1, <1>s, AtFacts DEF JobRow
  <1>3. CallStep(w, rows, d, id, r.content, FALSE)
    BY <1>r, <1>s, UpdateIsCall
  <1>4. r.content \in Nat /\ d \in DOMAIN rows
    BY <1>r, <1>s, LoadedRow
  <1>5. PlainStays /\ (Plain(d)' => ~job[w].force)
    BY UpdatePlain
  <1>6. d = "credit_note" => r.content = 0
    <2>1. RowOK(d, r)
      BY <1>4, <1>r, <1>s DEF FingerprintInv, FpJobOK, FpRowsOK
    <2> QED BY <2>1, <1>r DEF RowOK
  <1>7. LoadsNow(job[w].rows, rows)
    BY <1>s, SelfLoadsNow
  <1>8. Plain(d)' => rows[d].state # "VOID" /\ rows[d].fp # rows[d].content /\ r.content = rows[d].content
    BY <1>5, <1>r, <1>s
  <1> QED BY <1>1, <1>2, <1>3, <1>4, <1>5, <1>6, <1>7, <1>8, <1>m, FpCall

LEMMA FpCreateDoc ==
  ASSUME BooksInv, BooksInv', FingerprintInv, NEW w \in DOMAIN job, NEW d \in Docs, At(w, d),
         JobFrame, Create(w, d, job[w].rows[d].content), job[w].rows[d].state = "LIVE",
         job[w].force \/ LinkView(w, d).id = None
  PROVE  FingerprintInv'
  <1>r. PICK r : r = job[w].rows[d]
    OBVIOUS
  <1>1. d \in StepNames /\ d \in Entities
    BY DEF StepNames, Entities
  <1>2. job[w].call = None
    BY <1>1, AtFacts
  <1>3. r.content \in Nat /\ d \in DOMAIN job[w].rows
    BY <1>r, LoadedRow
  <1>4. d = "credit_note" => r.content = 0
    <2>1. RowOK(d, r)
      BY <1>3, <1>r DEF FingerprintInv, FpJobOK, FpRowsOK
    <2> QED BY <2>1, <1>r DEF RowOK
  <1>5. CreateStep(w, d, r.content)
    BY <1>r DEF CreateStep
  <1> QED BY <1>1, <1>2, <1>3, <1>4, <1>5, <1>r, FpCreate

LEMMA SyncDocumentFp ==
  ASSUME BooksInv, BooksInv', FingerprintInv, NEW w \in DOMAIN job, NEW d \in Voidable,
         SyncDocument(w, d)
  PROVE  FingerprintInv'
  <1>1. d \in Docs /\ d \in Entities /\ At(w, d) /\ JobFrame /\ job[w].rows[d].state = "LIVE"
    BY DEF SyncDocument, Voidable, Docs, Entities, JobFrame
  <1>l. PICK l : l = LinkView(w, d)
    OBVIOUS
  <1>2. l.id # None => Pointer(d, l.id)
    BY <1>1, <1>l, LinkViewFacts
  <1>3. CASE /\ job[w].rows[d].fp = job[w].rows[d].content
             /\ PlanStep(w, Confirmed(job[w], d))
    BY <1>1, <1>3, FpConfirmed
  <1>4. CASE /\ l.id # None /\ (job[w].force \/ job[w].rows[d].fp # job[w].rows[d].content)
             /\ Update(w, d, l.id, l.token, job[w].rows[d].content, FALSE)
    BY <1>1, <1>2, <1>4, FpUpdate
  <1>5. CASE /\ job[w].force \/ l.id = None
             /\ Create(w, d, job[w].rows[d].content)
    BY <1>1, <1>5, <1>l, FpCreateDoc
  <1> QED BY <1>1, <1>3, <1>4, <1>5, <1>l DEF SyncDocument, PlanStep

LEMMA SyncPaymentFp ==
  ASSUME BooksInv, BooksInv', FingerprintInv, NEW w \in DOMAIN job, SyncPayment(w)
  PROVE  FingerprintInv'
  <1>d. PICK d : d = "payment"
    OBVIOUS
  <1>1. d \in Docs /\ d \in Entities /\ d \in StepNames /\ At(w, d) /\ JobFrame
    BY <1>d DEF SyncPayment, StepNames, Docs, Entities, JobFrame
  <1>l. PICK l : l = LinkView(w, d)
    OBVIOUS
  <1>2. (l.id # None => Pointer(d, l.id)) /\ d \in DOMAIN job[w].rows /\ job[w].call = None
        /\ job[w].rows \in Partial(Docs, DocRow)
    BY <1>1, <1>l, LinkViewFacts, LoadedRow, AtFacts DEF JobRow
  <1>3. job[w].rows[d].state = "LIVE"
    BY <1>2, <1>d DEF FingerprintInv, FpJobOK, FpRowsOK, RowOK
  <1>4. CASE /\ job[w].rows[d].fp = job[w].rows[d].content
             /\ PlanStep(w, Confirmed(job[w], d))
    BY <1>1, <1>4, FpConfirmed
  <1>5. CASE /\ l.id # None /\ (job[w].force \/ job[w].rows[d].fp # job[w].rows[d].content)
             /\ Update(w, d, l.id, l.token, job[w].rows[d].content, FALSE)
    BY <1>1, <1>2, <1>3, <1>5, FpUpdate
  <1>6. CASE l.id = None /\ Create(w, d, job[w].rows[d].content)
    BY <1>1, <1>3, <1>6, <1>l, FpCreateDoc
  <1>7. CASE PlanStep(w, Planned(job[w], job[w].rows, << >>))
    BY <1>2, <1>7, SelfLoadsNow, EmptyFacts, FpPlanned
  <1> QED BY <1>1, <1>4, <1>5, <1>6, <1>7, <1>l, <1>d DEF SyncPayment, PlanStep

LEMMA SyncCustomerFp ==
  ASSUME BooksInv, BooksInv', FingerprintInv, NEW w \in DOMAIN job, SyncCustomer(w)
  PROVE  FingerprintInv'
  <1>e. PICK e : e = "customer"
    OBVIOUS
  <1>1. e \in Entities /\ e \in StepNames /\ e \notin Docs /\ At(w, e) /\ JobFrame /\ e # "credit_note"
    BY <1>e DEF SyncCustomer, StepNames, Docs, Entities, JobFrame
  <1>s. PICK rows : rows = job[w].rows
    OBVIOUS
  <1>m. PICK m : m = Planned(job[w], rows, job[w].todo)
    OBVIOUS
  <1>2. job[w].call = None /\ rows \in Partial(Docs, DocRow) /\ LoadsNow(job[w].rows, rows)
    BY <1>1, <1>s, AtFacts, SelfLoadsNow DEF JobRow
  <1>3. ASSUME NEW i, NEW t, Pointer(e, i), Update(w, e, i, t, 0, FALSE)
        PROVE  FingerprintInv'
    <2>1. CallStep(w, rows, e, i, 0, FALSE)
      BY <1>1, <1>3, <1>s, UpdateIsCall
    <2>2. PlainStays
      BY <1>3, UpdatePlain
    <2> QED BY <1>1, <1>2, <1>3, <1>m, <2>1, <2>2, FpCall
  <1>4. CASE Create(w, e, 0)
    <2>1. CreateStep(w, e, 0)
      BY <1>1, <1>4 DEF CreateStep
    <2> QED BY <1>1, <1>2, <2>1, FpCreate
  <1>5. \A i \in RemoteOf(e) : Pointer(e, i)
    BY DEF RemoteOf, Pointer
  <1>l. PICK l : l = LinkView(w, e)
    OBVIOUS
  <1>6. l.id # None => Pointer(e, l.id)
    BY <1>1, <1>l, LinkViewFacts
  <1>7. \/ l.id # None /\ Update(w, e, l.id, l.token, 0, FALSE)
        \/ \E i \in RemoteOf(e) : Update(w, e, i, remote[i].token, 0, FALSE)
        \/ Create(w, e, 0)
    BY <1>e, <1>l DEF SyncCustomer, RemoteOf
  <1> QED BY <1>3, <1>4, <1>5, <1>6, <1>7

LEMMA LoadNow ==
  ASSUME BooksInv, NEW w \in DOMAIN job, NEW d \in Docs
  PROVE  /\ Load(w, d) \in Partial(Docs, DocRow) /\ d \in DOMAIN Load(w, d)
         /\ LoadsNow(job[w].rows, Load(w, d))
  <1>1. /\ Load(w, d) \in Partial(Docs, DocRow)
        /\ DOMAIN Load(w, d) = DOMAIN job[w].rows \cup {d}
        /\ Loads(job[w].rows, Load(w, d))
        /\ d \notin DOMAIN job[w].rows => Load(w, d)[d] = row[d]
    BY LoadFacts DEF BooksInv
  <1> QED BY <1>1 DEF LoadsNow

LEMMA SyncAllocatedInvoiceFp ==
  ASSUME BooksInv, BooksInv', FingerprintInv, NEW w \in DOMAIN job, SyncAllocatedInvoice(w)
  PROVE  FingerprintInv'
  <1>j. PICK j : j = job[w]
    OBVIOUS
  <1>d. PICK d \in Docs : d = "invoice"
    BY DEF Docs
  <1>r. PICK rows : rows = Load(w, d)
    OBVIOUS
  <1>t. PICK t : t = Tail(j.todo)
    OBVIOUS
  <1>s. PICK s : s = InvoiceSteps(rows["invoice"].state)
    OBVIOUS
  <1>1. "allocation" \in StepNames /\ At(w, "allocation") /\ JobFrame
    BY DEF SyncAllocatedInvoice, StepNames, JobFrame
  <1>2. j \in JobRow /\ j.call = None /\ j.todo # << >> /\ j.rows \in Partial(Docs, DocRow)
    BY <1>1, <1>j, AtFacts DEF JobRow
  <1>3. rows \in Partial(Docs, DocRow) /\ d \in DOMAIN rows /\ LoadsNow(j.rows, rows)
    BY <1>j, <1>r, LoadNow
  <1>4. t \in Seq(StepNames) /\ s \in Seq(StepNames)
    BY <1>2, <1>3, <1>d, <1>t, <1>s, TailFacts, InvoiceStepsFacts DEF JobRow
  <1>5. s \o t \in Seq(StepNames)
    BY <1>4, ConcatFacts
  <1>6. CASE PlanStep(w, Planned(job[w], rows, s \o t))
    BY <1>2, <1>3, <1>5, <1>6, <1>j, FpPlanned
  <1>7. CASE PlanStep(w, Planned(job[w], j.rows, t))
    BY <1>2, <1>4, <1>7, <1>j, SelfLoadsNow, FpPlanned
  <1> QED BY <1>1, <1>6, <1>7, <1>j, <1>d, <1>r, <1>t, <1>s
          DEF SyncAllocatedInvoice, PlanStep, JobFrame

LEMMA SyncCreditApplicationFp ==
  ASSUME BooksInv, BooksInv', FingerprintInv, NEW w \in DOMAIN job, SyncCreditApplication(w)
  PROVE  FingerprintInv'
  <1>j. PICK j : j = job[w]
    OBVIOUS
  <1>d. PICK d \in Docs : d = "credit_note"
    BY DEF Docs
  <1>r. PICK rows : rows = Load(w, d)
    OBVIOUS
  <1>t. PICK t : t = Tail(j.todo)
    OBVIOUS
  <1>s. PICK s : s = <<"customer", "credit_note">>
    OBVIOUS
  <1>1. /\ "application" \in StepNames /\ At(w, "application") /\ JobFrame
        /\ "application" \in Entities /\ "application" \notin Docs
    BY DEF SyncCreditApplication, StepNames, JobFrame, Entities, Docs
  <1>2. /\ j \in JobRow /\ j.call = None /\ j.todo # << >> /\ j.rows \in Partial(Docs, DocRow)
        /\ j.todo \in Seq(StepNames)
    BY <1>1, <1>j, AtFacts DEF JobRow
  <1>3. rows \in Partial(Docs, DocRow) /\ LoadsNow(j.rows, rows)
    BY <1>j, <1>r, LoadNow
  <1>4. t \in Seq(StepNames) /\ s \in Seq(StepNames)
    BY <1>2, <1>t, <1>s, TailFacts DEF StepNames, Entities, Docs
  <1>5. s \o j.todo \in Seq(StepNames)
    BY <1>2, <1>4, ConcatFacts
  <1>6. CASE PlanStep(w, Planned(job[w], rows, s \o j.todo))
    BY <1>2, <1>3, <1>5, <1>6, <1>j, FpPlanned
  <1>7. CASE PlanStep(w, Planned(job[w], j.rows, t))
    BY <1>2, <1>4, <1>7, <1>j, SelfLoadsNow, FpPlanned
  <1>8. CASE Create(w, "application", 0)
    <2>1. CreateStep(w, "application", 0)
      BY <1>1, <1>8 DEF CreateStep
    <2> QED BY <1>1, <1>2, <1>j, <2>1, FpCreate
  <1> QED BY <1>1, <1>6, <1>7, <1>8, <1>j, <1>d, <1>r, <1>t, <1>s
          DEF SyncCreditApplication, PlanStep, JobFrame

LEMMA VoidDocumentFp ==
  ASSUME BooksInv, BooksInv', FingerprintInv, NEW w \in DOMAIN job, NEW d \in Voidable,
         VoidDocument(w, d)
  PROVE  FingerprintInv'
  <1>j. PICK j : j = job[w]
    OBVIOUS
  <1>r. PICK rows : rows = Load(w, d)
    OBVIOUS
  <1>l. PICK l : l = LinkView(w, d)
    OBVIOUS
  <1>s. PICK s : s = VoidStep(d)
    OBVIOUS
  <1>m. PICK m : m = Planned(j, rows, j.todo)
    OBVIOUS
  <1>1. /\ d \in Docs /\ d \in Entities /\ s \in StepNames /\ At(w, s) /\ JobFrame
        /\ d = "invoice" => s = "void_invoice"
        /\ d = "invoice" \/ d = "credit_note"
    BY <1>s DEF VoidDocument, Voidable, VoidStep, VoidSteps, StepNames, Docs, Entities, JobFrame
  <1>2. /\ j \in JobRow /\ PlanOK(j) /\ j.todo # << >> /\ j.call = None /\ Ready(s, j.rows)
        /\ FpJobOK(j) /\ \A f \in Docs : FpDocOK(f)
    BY <1>1, <1>j, AtFacts DEF FingerprintInv
  <1>3. rows \in Partial(Docs, DocRow) /\ d \in DOMAIN rows /\ LoadsNow(j.rows, rows)
    BY <1>1, <1>j, <1>r, LoadNow
  <1>4. CASE PlanStep(w, Absent(j, rows, d))
    <2>k. PICK k : k = Absent(j, rows, d)
      OBVIOUS
    <2>1. /\ k \in JobRow /\ k.rows = rows /\ k.links = j.links
          /\ k.sent = j.sent /\ k.call = None /\ k.created = j.created
      BY <1>1, <1>2, <1>3, <2>k, AbsentFacts
    <2> QED BY <1>3, <1>4, <1>j, <2>1, <2>k, FpPlanStep
  <1>5. CASE /\ l.id # None /\ remote[l.id].token = l.token /\ UNCHANGED <<forced, resent>>
             /\ CallStep(w, rows, d, l.id, remote[l.id].content, TRUE)
    <2>p. PICK p : p = remote[l.id].content
      OBVIOUS
    <2>1. Pointer(d, l.id)
      BY <1>1, <1>5, <1>l, LinkViewFacts
    <2>2. remote[l.id] \in RemoteRow
      BY <2>1 DEF Pointer, BooksInv, BooksTypeOK
    <2>3. p \in Nat /\ (d = "credit_note" => p = 0)
      BY <2>1, <2>2, <2>p DEF RemoteRow, FingerprintInv, Pointer
    <2>4. PlainStays
      BY <1>5 DEF PlainStays, Plain
    <2>5. /\ m \in JobRow /\ m.rows = rows /\ m.links = j.links /\ m.sent = j.sent /\ m.call = None
      BY <1>2, <1>3, <1>m DEF Planned, JobRow
    <2>6. FpJobOK(m)
      BY <1>2, <1>3, <2>5, FpPlan
    <2>7. l.version # 0
      <3>1. CASE d \in DOMAIN j.links
        <4>1. link[d] \in LinkRow /\ j.links[d] \in LinkRow
          BY <1>1, <1>2, <3>1, PartialFacts DEF BooksInv, BooksTypeOK, JobRow
        <4>2. link[d].version \in Nat /\ j.links[d].version \in Nat /\ j.links[d].version > link[d].version
          BY <1>1, <1>2, <3>1, <4>1 DEF LinkRow, FpJobOK, FpLinksOK
        <4> QED BY <3>1, <4>2, <1>l, <1>j DEF LinkView
      <3>2. CASE d \notin DOMAIN j.links
        BY <1>1, <1>2, <1>5, <3>2, <1>l, <1>j DEF LinkView, FpDocOK
      <3> QED BY <3>1, <3>2
    <2>8. Plain(d) => p = SyncedFp(m, d)
      <3>1. CASE d \in DOMAIN j.links
        BY <1>1, <1>5, <2>5, <2>6, <2>p, <3>1, <1>l, <1>j
           DEF LinkView, FpJobOK, FpLinksOK, Current, Payload
      <3>2. CASE d \notin DOMAIN j.links
        <4>1. l = link[d]
          BY <3>2, <1>l, <1>j DEF LinkView
        <4>2. Plain(d) => row[d].fp = p
          BY <1>1, <1>2, <1>5, <2>p, <4>1 DEF FpDocOK, Current, Payload
        <4>3. RowOK(d, rows[d])
          BY <1>3, <2>5, <2>6 DEF FpJobOK, FpRowsOK
        <4>4. d = "invoice" => rows[d].state = "VOID"
          BY <1>1, <1>2, <1>3 DEF Ready, LoadsNow, Loads
        <4>5. rows[d].state = "VOID" \/ rows[d].content = 0
          BY <1>1, <4>3, <4>4 DEF RowOK
        <4> QED BY <1>1, <2>3, <2>5, <4>2, <4>4, <4>5 DEF SyncedFp
      <3> QED BY <3>1, <3>2
    <2>9. Plain(d)' => ReadVersion(w, d) # 0 /\ p = SyncedFp(m, d)
      BY <2>4, <2>7, <2>8, <1>1, <1>5, <1>l DEF PlainStays, ReadVersion
    <2> QED BY <1>1, <1>2, <1>3, <1>5, <1>j, <1>m, <2>1, <2>3, <2>4, <2>9, <2>p, FpCall
  <1> QED BY <1>1, <1>4, <1>5, <1>j, <1>r, <1>l, <1>s DEF VoidDocument, PlanStep, CallStep, CallOf

-----------------------------------------------------------------------------
(* Fingerprints: the end and the start of a job, requests, the theorem.    *)

LEMMA FinishedRowFacts ==
  ASSUME BooksInv, NEW w \in DOMAIN job, NEW d \in Docs
  PROVE  /\ FinishedRow(w, d).state = row[d].state
         /\ FinishedRow(w, d).content = row[d].content
         /\ d \in job[w].sent => FinishedRow(w, d).fp = SyncedFp(job[w], d)
         /\ d \notin job[w].sent => FinishedRow(w, d).fp = row[d].fp
  <1>1. row[d] \in DocRow
    BY DEF BooksInv, BooksTypeOK
  <1>2. CASE d \in job[w].sent
    BY <1>1, <1>2 DEF FinishedRow, SyncedRow, SyncedFp, DocRow
  <1>3. CASE d \notin job[w].sent
    BY <1>1, <1>3 DEF FinishedRow, DocRow
  <1> QED BY <1>2, <1>3

\* Jobs other than w, when w has ended.
LEMMA OthersFp ==
  ASSUME BooksInv, BooksInv', FingerprintInv, NEW w \in DOMAIN job, EndJob(w),
         UNCHANGED <<remote, forced, resent>>,
         \A v \in DOMAIN job' : \A d \in Docs : DocStep(job[v], d)
  PROVE  \A v \in DOMAIN job' : FpJobOK(job[v])'
  <1> SUFFICES ASSUME NEW v \in DOMAIN job'
               PROVE  FpJobOK(job[v])'
    OBVIOUS
  <1>a. PICK j : j = job[v]
    OBVIOUS
  <1>1. v \in DOMAIN job /\ job'[v] = j
    BY <1>a, EndFacts
  <1>2. j \in JobRow /\ OwnOK(v, j) /\ FpJobOK(j)
    BY <1>1, <1>a, JobFacts DEF BooksInv, JobOK, FingerprintInv
  <1>3. RemoteGrows /\ PlainStays
    BY GrowsSame DEF BooksInv, BooksTypeOK, PlainStays, Plain
  <1>4. \A d \in Docs : DocStep(j, d)
    BY <1>a
  <1>5. FpJobOK(j)'
    BY <1>2, <1>3, <1>4, FpStable DEF BooksInv
  <1> QED BY <1>1, <1>5, FpJobAt

LEMMA CommitJobFp ==
  ASSUME BooksInv, BooksInv', FingerprintInv, NEW w \in DOMAIN job, CommitJob(w)
  PROVE  FingerprintInv'
  <1>j. PICK j : j = job[w]
    OBVIOUS
  <1>0. /\ UNCHANGED <<remote, api, forced, resent>> /\ EndJob(w)
        /\ row' = [d \in Docs |-> FinishedRow(w, d)]
        /\ link' = [e \in Entities |-> LinkView(w, e)]
    BY DEF CommitJob
  <1>1. j \in JobRow /\ FpJobOK(j) /\ OwnOK(w, j) /\ PlanOK(j)
    BY <1>j, JobFacts DEF BooksInv, JobOK, FingerprintInv
  <1>2. ASSUME NEW d \in Docs
        PROVE  /\ d \in Entities /\ FpDocOK(d)
               /\ row'[d].state = row[d].state /\ row'[d].content = row[d].content
               /\ d \in DOMAIN j.links =>
                     /\ link'[d] = j.links[d] /\ link'[d].id # None /\ lock[d] = w
                     /\ row'[d].fp = SyncedFp(j, d)
               /\ d \notin DOMAIN j.links => link'[d] = link[d] /\ row'[d].fp = row[d].fp
    <2>1. d \in Entities /\ FpDocOK(d)
      BY DEF Entities, FingerprintInv
    <2>2. link'[d] = LinkView(w, d) /\ row'[d] = FinishedRow(w, d)
      BY <1>0, <2>1
    <2>3. d \in DOMAIN j.links => d \in j.sent /\ lock[d] = w /\ j.links[d].id # None
      BY <1>1 DEF FpJobOK, FpLinksOK, OwnOK
    <2>4. d \in j.sent /\ d \notin DOMAIN j.links => SyncedFp(j, d) = row[d].fp
      BY <1>1 DEF FpJobOK, FpSentOK, SyncedFp
    <2> QED BY <2>1, <2>2, <2>3, <2>4, <1>j, FinishedRowFacts DEF LinkView
  <1>3. ASSUME NEW d \in Docs
        PROVE  FpDocOK(d)'
    <2>1. RowOK(d, row[d])'
      BY <1>2 DEF FpDocOK, RowOK
    <2>2. CASE d \in DOMAIN j.links
      <3>l. PICK l : l = j.links[d]
        OBVIOUS
      <3>1. l \in LinkRow /\ link[d] \in LinkRow
        BY <1>1, <1>2, <2>2, <3>l, PartialFacts DEF JobRow, BooksInv, BooksTypeOK
      <3>2. l.version \in Nat /\ link[d].version \in Nat
        BY <3>1 DEF LinkRow
      <3>3. /\ l.version > link[d].version /\ l.token <= remote[l.id].token
            /\ Plain(d) /\ remote[l.id].token = l.token => remote[l.id].content = SyncedFp(j, d)
        BY <1>1, <2>2, <3>l DEF FpJobOK, FpLinksOK, Current, Payload
      <3>4. l.version # 0
        BY <3>2, <3>3
      <3>5. /\ link'[d] = l /\ l.id # None /\ row'[d].fp = SyncedFp(j, d)
            /\ remote' = remote /\ (Plain(d)' <=> Plain(d))
        BY <1>0, <1>2, <2>2, <3>l DEF Plain
      <3> QED BY <2>1, <3>3, <3>4, <3>5 DEF FpDocOK, Current, Payload
    <2>3. CASE d \notin DOMAIN j.links
      <3>1. RemoteGrows /\ (Plain(d)' => Plain(d))
        BY <1>0, GrowsSame DEF BooksInv, BooksTypeOK, Plain
      <3> QED BY <1>2, <2>1, <2>3, <3>1, FpDocStable
    <2> QED BY <2>2, <2>3
  <1>4. ASSUME NEW v \in DOMAIN job', NEW d \in Docs
        PROVE  DocStep(job[v], d)
    <2>1. v \in DOMAIN job /\ v # w
      BY <1>0, <1>4, EndFacts
    <2>2. CASE d \in DOMAIN j.links
      <3>1. d \notin DOMAIN job[v].links
        BY <1>2, <2>1, <2>2 DEF BooksInv, JobOK, OwnOK
      <3>2. j.links[d].version > link[d].version
        BY <1>1, <2>2 DEF FpJobOK, FpLinksOK
      <3> QED BY <1>2, <2>2, <3>1, <3>2 DEF DocStep
    <2>3. CASE d \notin DOMAIN j.links
      BY <1>2, <2>3 DEF DocStep
    <2> QED BY <2>2, <2>3
  <1>5. \A v \in DOMAIN job' : FpJobOK(job[v])'
    BY <1>0, <1>4, OthersFp
  <1>6. api' # None /\ api'.doc \in Docs => RowOK(api.doc, api.row)'
    BY <1>0 DEF FingerprintInv, RowOK
  <1> QED BY <1>0, <1>3, <1>5, <1>6 DEF FingerprintInv

LEMMA LoseFp ==
  ASSUME BooksInv, BooksInv', FingerprintInv, NEW w \in DOMAIN job, EndJob(w), Lose(w)
  PROVE  FingerprintInv'
  <1>0. UNCHANGED <<row, link, remote, api, forced, resent>>
    BY DEF Lose
  <1>1. \A d \in Docs : FpDocOK(d)'
    BY <1>0 DEF FingerprintInv, FpDocOK, RowOK, Plain, Current, Payload
  <1>2. \A v \in DOMAIN job' : \A d \in Docs : DocStep(job[v], d)
    BY <1>0 DEF DocStep
  <1>3. \A v \in DOMAIN job' : FpJobOK(job[v])'
    BY <1>0, <1>2, OthersFp
  <1>4. api' # None /\ api'.doc \in Docs => RowOK(api.doc, api.row)'
    BY <1>0 DEF FingerprintInv, RowOK
  <1> QED BY <1>0, <1>1, <1>3, <1>4 DEF FingerprintInv

LEMMA StartJobFp ==
  ASSUME BooksInv, FingerprintInv, NEW q \in queue, StartJob(q)
  PROVE  FingerprintInv'
  <1>a. PICK k : k = NewJob(q)
    OBVIOUS
  <1>b. PICK w : w = q.id
    OBVIOUS
  <1>0. UNCHANGED <<row, link, remote, api, forced, resent>>
    BY DEF StartJob
  <1>1. /\ DOMAIN k.links = {} /\ k.call = None /\ k.sent = {}
        /\ \A d \in DOMAIN k.rows : d \in Docs /\ k.rows[d] = row[d]
    BY <1>a, NewJobFacts DEF BooksInv
  <1>2. /\ DOMAIN job' = DOMAIN job \cup {w} /\ job'[w] = k
        /\ \A v \in DOMAIN job : v # w => job'[v] = job[v]
    BY <1>a, <1>b DEF StartJob, NewJob, With
  <1>3. \A d \in Docs : FpDocOK(d)'
    BY <1>0 DEF FingerprintInv, FpDocOK, RowOK, Plain, Current, Payload
  <1>4. FpJobOK(k)
    BY <1>1 DEF FpJobOK, FpRowsOK, FpSentOK, FpLinksOK, FpCallOK, FingerprintInv, FpDocOK
  <1>5. ASSUME NEW v \in DOMAIN job'
        PROVE  FpJobOK(job[v])'
    <2>1. CASE v = w
      BY <1>0, <1>2, <1>4, <2>1, FpSame, FpJobAt
    <2>2. CASE v # w
      <3>j. PICK j : j = job[v]
        OBVIOUS
      <3>1. job'[v] = j /\ FpJobOK(j)
        BY <1>2, <1>5, <2>2, <3>j DEF FingerprintInv
      <3> QED BY <1>0, <3>1, FpSame, FpJobAt
    <2> QED BY <2>1, <2>2
  <1>6. api' # None /\ api'.doc \in Docs => RowOK(api.doc, api.row)'
    BY <1>0 DEF FingerprintInv, RowOK
  <1> QED BY <1>0, <1>3, <1>5, <1>6 DEF FingerprintInv

\* A request touches neither a fingerprint nor the link of a document.
LEMMA StillFp ==
  ASSUME BooksInv, BooksInv', FingerprintInv, UNCHANGED <<remote, job, forced, resent>>,
         \A d \in Docs : row'[d].fp = row[d].fp /\ link'[d] = link[d],
         \A d \in Docs : RowOK(d, row[d])',
         api' # None /\ api'.doc \in Docs => RowOK(api.doc, api.row)'
  PROVE  FingerprintInv'
  <1>1. RemoteGrows /\ PlainStays /\ NotesEmpty'
    BY GrowsSame DEF BooksInv, BooksTypeOK, PlainStays, Plain, NotesEmpty, FingerprintInv
  <1>2. \A d \in Docs : FpDocOK(d)'
    BY <1>1, FpDocStable DEF FingerprintInv, PlainStays
  <1>3. ASSUME NEW v \in DOMAIN job'
        PROVE  FpJobOK(job[v])'
    <2>j. PICK j : j = job[v]
      OBVIOUS
    <2>1. v \in DOMAIN job /\ job'[v] = j
      BY <1>3, <2>j
    <2>2. j \in JobRow /\ OwnOK(v, j) /\ FpJobOK(j)
      BY <2>1, <2>j, JobFacts DEF BooksInv, JobOK, FingerprintInv
    <2>3. \A d \in Docs : DocStep(j, d)
      BY DEF DocStep
    <2>4. FpJobOK(j)'
      BY <1>1, <2>2, <2>3, FpStable DEF BooksInv
    <2> QED BY <2>1, <2>4, FpJobAt
  <1> QED BY <1>1, <1>2, <1>3 DEF FingerprintInv, NotesEmpty

LEMMA OpenFp ==
  ASSUME BooksInv, BooksInv', FingerprintInv, NEW a, Open(a), a.doc \in Docs => RowOK(a.doc, a.row)
  PROVE  FingerprintInv'
  <1>1. UNCHANGED <<remote, job, forced, resent, row, link>> /\ api' = a
    BY DEF Open
  <1>2. \A d \in Docs : RowOK(d, row[d])'
    BY <1>1 DEF FingerprintInv, FpDocOK, RowOK
  <1>3. api' # None /\ api'.doc \in Docs => RowOK(api.doc, api.row)'
    BY <1>1 DEF RowOK
  <1> QED BY <1>1, <1>2, <1>3, StillFp

LEMMA EnqueueDocFp ==
  ASSUME BooksInv, BooksInv', FingerprintInv, NEW d \in Docs, NEW r \in DocRow, RowOK(d, r),
         NEW f \in BOOLEAN, EnqueueDocSync(d, r, f)
  PROVE  FingerprintInv'
  <1>q. PICK q : q = [r EXCEPT !.status = "QUEUED"]
    OBVIOUS
  <1>1. q.state = r.state /\ q.content = r.content
    BY <1>q DEF DocRow
  <1>2. RowOK(d, q)
    BY <1>1 DEF RowOK
  <1>a. PICK a : a = [doc |-> d, row |-> r]
    OBVIOUS
  <1>b. PICK b : b = [doc |-> d, row |-> q]
    OBVIOUS
  <1>3. /\ a.doc = d /\ a.row = r /\ b.doc = d /\ b.row = q
    BY <1>a, <1>b
  <1>4. Open(a) \/ Open(b)
    BY <1>a, <1>b, <1>q DEF EnqueueDocSync
  <1> QED BY <1>2, <1>3, <1>4, OpenFp

\* The rows that requests write keep what the fingerprints rely on.
LEMMA RequestRowsFp ==
  ASSUME BooksInv, FingerprintInv, NEW d \in Docs, NEW r, r = row[d]
  PROVE  /\ RowOK(d, r)
         /\ d = "invoice" => RowOK(d, [r EXCEPT !.state = "LIVE"])
         /\ d = "invoice" => RowOK(d, [r EXCEPT !.content = @ + 1])
         /\ d = "payment" => RowOK(d, [r EXCEPT !.content = @ + 1])
         /\ d # "payment" => RowOK(d, [r EXCEPT !.state = "VOID", !.content = @ + 1])
  <1>1. r \in DocRow /\ RowOK(d, r)
    BY DEF BooksInv, BooksTypeOK, FingerprintInv, FpDocOK
  <1>2. [r EXCEPT !.content = @ + 1].state = r.state
    BY <1>1 DEF DocRow
  <1>3. [r EXCEPT !.state = "VOID", !.content = @ + 1].state = "VOID"
    BY <1>1 DEF DocRow
  <1> QED BY <1>1, <1>2, <1>3 DEF RowOK

LEMMA VoidCreditNoteFp ==
  ASSUME BooksInv, BooksInv', FingerprintInv, VoidCreditNote
  PROVE  FingerprintInv'
  <1>d. PICK d \in Docs : d = "credit_note"
    BY DEF Docs
  <1>n. PICK new : new = [row[d] EXCEPT !.state = "VOID", !.content = @ + 1]
    OBVIOUS
  <1>1. new \in DocRow /\ RowOK(d, new)
    BY <1>d, <1>n, RequestRows, RequestRowsFp
  <1>q. PICK q : q = [new EXCEPT !.status = "QUEUED"]
    OBVIOUS
  <1>2. q.state = new.state /\ q.content = new.content
    BY <1>1, <1>q DEF DocRow
  <1>3. RowOK(d, q)
    BY <1>1, <1>2 DEF RowOK
  <1>a. PICK a : a = [doc |-> d, row |-> new]
    OBVIOUS
  <1>b. PICK b : b = [doc |-> d, row |-> q]
    OBVIOUS
  <1>4. /\ a.doc = d /\ a.row = new /\ b.doc = d /\ b.row = q
    BY <1>a, <1>b
  <1>5. Open(a) \/ Open(b)
    BY <1>a, <1>b, <1>d, <1>n, <1>q DEF VoidCreditNote
  <1> QED BY <1>1, <1>3, <1>4, <1>5, OpenFp

LEMMA CommitRequestFp ==
  ASSUME BooksInv, BooksInv', FingerprintInv, CommitRequest
  PROVE  FingerprintInv'
  <1>1. /\ api \in ApiRow /\ api # None /\ api' = None /\ UNCHANGED <<remote, job, forced, resent>>
    BY CloseFacts DEF CommitRequest, CloseRequest
  <1>2. CASE api.doc = "customer"
    <2>1. row' = row /\ link' = [link EXCEPT !["customer"] = api.row]
      BY <1>2 DEF CommitRequest
    <2>2. \A d \in Docs : link'[d] = link[d]
      BY <2>1 DEF Docs, BooksInv, BooksTypeOK, Entities
    <2>3. \A d \in Docs : RowOK(d, row[d])'
      BY <2>1 DEF FingerprintInv, FpDocOK, RowOK
    <2> QED BY <1>1, <2>1, <2>2, <2>3, StillFp
  <1>3. CASE api.doc # "customer"
    <2>a. PICK a : a = [api.row EXCEPT !.fp = row[api.doc].fp]
      OBVIOUS
    <2>1. link' = link /\ row' = [row EXCEPT ![api.doc] = a]
      BY <1>3, <2>a DEF CommitRequest
    <2>2. api.doc \in Docs /\ api.row \in DocRow
      BY <1>1, <1>3 DEF ApiRow
    <2>3. a.state = api.row.state /\ a.content = api.row.content /\ a.fp = row[api.doc].fp
      BY <2>2, <2>a DEF DocRow
    <2>4. row \in [Docs -> DocRow]
      BY DEF BooksInv, BooksTypeOK
    <2>5. \A d \in Docs : row'[d] = IF d = api.doc THEN a ELSE row[d]
      BY <2>1, <2>4
    <2>6. RowOK(api.doc, api.row)
      BY <1>1, <2>2 DEF FingerprintInv
    <2>7. \A d \in Docs : RowOK(d, row[d])'
      BY <2>3, <2>5, <2>6 DEF FingerprintInv, FpDocOK, RowOK
    <2>8. \A d \in Docs : row'[d].fp = row[d].fp
      BY <2>3, <2>5
    <2> QED BY <1>1, <2>1, <2>7, <2>8, StillFp
  <1> QED BY <1>2, <1>3

\* A step that leaves rows, links and jobs as they are.
LEMMA IdleFp ==
  ASSUME BooksInv, BooksInv', FingerprintInv,
         UNCHANGED <<row, link, remote, job, forced, resent>>, api' = api \/ api' = None
  PROVE  FingerprintInv'
  <1>1. \A d \in Docs : RowOK(d, row[d])'
    BY DEF FingerprintInv, FpDocOK, RowOK
  <1>2. api' # None /\ api'.doc \in Docs => RowOK(api.doc, api.row)'
    BY DEF FingerprintInv, RowOK
  <1> QED BY <1>1, <1>2, StillFp

LEMMA RequestFp ==
  ASSUME BooksInv, BooksInv', FingerprintInv, Request
  PROVE  FingerprintInv'
  <1>0. "invoice" \in Docs /\ "payment" \in Docs
    BY DEF Docs
  <1>1. CASE SendInvoice
    BY <1>0, <1>1, RequestRows, RequestRowsFp, EnqueueDocFp DEF SendInvoice
  <1>2. CASE EditInvoice
    BY <1>0, <1>2, RequestRows, RequestRowsFp, EnqueueDocFp DEF EditInvoice
  <1>3. CASE VoidInvoice
    BY <1>0, <1>3, RequestRows, RequestRowsFp, EnqueueDocFp DEF VoidInvoice
  <1>4. CASE AllocatePayment
    BY <1>0, <1>4, RequestRows, RequestRowsFp, EnqueueDocFp DEF AllocatePayment
  <1>5. CASE VoidCreditNote
    BY <1>5, VoidCreditNoteFp
  <1>6. CASE ApplyCreditNote
    BY <1>6, IdleFp DEF ApplyCreditNote
  <1>7. ASSUME NEW f \in BOOLEAN, EnqueueCustomerSync(f)
        PROVE  FingerprintInv'
    <2>1. PICK l : Open([doc |-> "customer", row |-> l])
      BY <1>7 DEF EnqueueCustomerSync
    <2>a. PICK a : a = [doc |-> "customer", row |-> l]
      OBVIOUS
    <2>2. Open(a) /\ a.doc \notin Docs
      BY <2>1, <2>a DEF Docs
    <2> QED BY <2>2, OpenFp
  <1>8. ASSUME NEW f \in BOOLEAN, NEW d \in Docs, ResyncDoc(d, f)
        PROVE  FingerprintInv'
    BY <1>8, RequestRows, RequestRowsFp, EnqueueDocFp DEF ResyncDoc
  <1>9. CASE CommitRequest
    BY <1>9, CommitRequestFp
  <1>10. CASE RollbackRequest
    BY <1>10, IdleFp DEF RollbackRequest, CloseRequest
  <1> QED BY <1>1, <1>2, <1>3, <1>4, <1>5, <1>6, <1>7, <1>8, <1>9, <1>10 DEF Request

LEMMA FingerprintNext ==
  ASSUME BooksInv, BooksInv', FingerprintInv, [Next]_vars
  PROVE  FingerprintInv'
  <1>1. CASE Request
    BY <1>1, RequestFp
  <1>2. ASSUME NEW w \in DOMAIN job, JobStep(w)
        PROVE  FingerprintInv'
    <2>1. CASE FailJob(w)
      BY <2>1, LoseFp DEF FailJob
    <2> QED BY <1>2, <2>1, SyncCustomerFp, SyncDocumentFp, VoidDocumentFp, SyncPaymentFp,
               SyncAllocatedInvoiceFp, SyncCreditApplicationFp, FpRecord, CommitJobFp DEF JobStep
  <1>3. ASSUME NEW w \in DOMAIN job, RetryJob(w)
        PROVE  FingerprintInv'
    BY <1>3, LoseFp DEF RetryJob
  <1>4. ASSUME NEW q \in queue, StartJob(q)
        PROVE  FingerprintInv'
    BY <1>4, StartJobFp
  <1>5. ASSUME NEW q \in queue, DropJob(q)
        PROVE  FingerprintInv'
    BY <1>5, IdleFp DEF DropJob
  <1>6. CASE UNCHANGED vars
    BY <1>6, IdleFp DEF vars
  <1> QED BY <1>1, <1>2, <1>3, <1>4, <1>5, <1>6 DEF Next

LEMMA FingerprintInit ==
  ASSUME Init
  PROVE  FingerprintInv
  <1>1. PICK synced \in BOOLEAN :
    /\ row = [d \in Docs |->
          IF d = "invoice" /\ synced
          THEN [state |-> "LIVE", content |-> 0, status |-> "SYNCED", fp |-> 0]
          ELSE [state |-> IF d = "invoice" THEN "DRAFT" ELSE "LIVE",
                content |-> 0, status |-> "NOT_SYNCED", fp |-> None]]
    /\ remote = IF synced
                THEN <<[entity |-> "customer", content |-> 0, token |-> 0, void |-> FALSE],
                       [entity |-> "invoice", content |-> 0, token |-> 0, void |-> FALSE]>>
                ELSE << >>
    /\ link = [e \in Entities |->
          IF synced /\ e \in {"customer", "invoice"}
          THEN [id |-> IF e = "customer" THEN 1 ELSE 2, token |-> 0,
                status |-> "SYNCED", version |-> 1]
          ELSE NoLink]
    BY DEF Init
  <1>2. \A d \in Docs : d \in Entities /\ d # "customer"
    BY DEF Docs, Entities
  <1>3. ASSUME NEW d \in Docs
        PROVE  FpDocOK(d)
    <2>1. RowOK(d, row[d])
      BY <1>1 DEF RowOK
    <2>2. CASE synced /\ d = "invoice"
      <3>1. /\ link[d].id = 2 /\ link[d].token = 0 /\ link[d].version = 1 /\ row[d].fp = 0
        BY <1>1, <1>2, <2>2
      <3>2. remote[2].token = 0 /\ remote[2].content = 0
        BY <1>1, <2>2
      <3>3. link[d].id # None
        BY <3>1, NoneAssumption
      <3> QED BY <2>1, <3>1, <3>2, <3>3 DEF FpDocOK, Payload
    <2>3. CASE ~(synced /\ d = "invoice")
      <3>1. link[d] = NoLink /\ row[d].fp = None
        BY <1>1, <1>2, <2>3
      <3> QED BY <2>1, <3>1 DEF FpDocOK, NoLink
    <2> QED BY <2>2, <2>3
  <1>4. api = None /\ DOMAIN job = {}
    BY DEF Init, NoEntries
  <1>5. \A i \in 1..Len(remote) : remote[i].entity = "credit_note" => remote[i].content = 0
    <2>1. CASE synced
      <3>1. Len(remote) = 2 /\ remote[1].entity = "customer" /\ remote[2].entity = "invoice"
        BY <1>1, <2>1
      <3>2. \A i \in 1..2 : i = 1 \/ i = 2
        OBVIOUS
      <3> QED BY <3>1, <3>2
    <2>2. CASE ~synced
      BY <1>1, <2>2
    <2> QED BY <2>1, <2>2
  <1> QED BY <1>3, <1>4, <1>5 DEF FingerprintInv

\* The fingerprint of a document that no forced job has touched is that of what
\* QuickBooks holds, whatever the number of jobs, tries, requests and lost
\* enqueues: a sync skipped for an unchanged fingerprint had nothing to send.
THEOREM FingerprintIsTrue == Spec => []FingerprintTruthful
  <1>1. ASSUME FingerprintInv PROVE FingerprintTruthful
    BY <1>1 DEF FingerprintInv, FpDocOK, FingerprintTruthful, Plain, Current, Payload
  <1>2. Init => FingerprintInv
    BY FingerprintInit
  <1>3. BooksInv /\ BooksInv' /\ FingerprintInv /\ [Next]_vars => FingerprintInv'
    BY FingerprintNext
  <1> QED BY <1>1, <1>2, <1>3, BooksInvariant, PTL DEF Spec
=============================================================================

----------------------------- MODULE QuickBooks -----------------------------
(***************************************************************************)
(* The bookkeeping of one customer in QuickBooks                           *)
(* (app/integrations/quickbooks): an invoice, a credit note that may be    *)
(* applied to it and a payment that may be allocated to it, the table      *)
(* qb_links that says which remote object each of them has, the job queue  *)
(* and the workers that call QuickBooks.                                   *)
(*                                                                         *)
(* A request changes a row, puts the job into Redis and commits, in this   *)
(* order: the job may be lost, may be dropped as a duplicate, and may start*)
(* before the row is committed.  A job is one transaction with several     *)
(* remote calls: the calls stay when the transaction is rolled back.       *)
(* Updates of one remote object carry its SyncToken, which QuickBooks      *)
(* compares and increments.                                                *)
(*                                                                         *)
(* Data: `content' is the revision of a row, which stands for the payload  *)
(* built from it and for its fingerprint.  The row `version' that enters   *)
(* the job id changes with the content.  The reversal invoice of a voided  *)
(* credit note, the sync log and the OAuth tokens are left out.            *)
(***************************************************************************)
EXTENDS Naturals, Sequences, FiniteSets

CONSTANTS
    None,
    ApiSession,     \* holder of a link row that a request has written
    MaxJobs,        \* jobs that run at the same time
    MaxTries,       \* DefaultWorkerSettings.max_tries
    MaxRequests,    \* bound: requests of users and administrators
    MaxFaults       \* bound: failing enqueues and failing requests

ASSUME QuickBooksAssumption ==
    MaxTries \in Nat \ {0} /\ MaxJobs \in Nat /\ MaxRequests \in Nat /\ MaxFaults \in Nat

VARIABLES
    row,        \* committed rows of the three documents
    applied,    \* the credit note is applied to the invoice
    link,       \* committed rows of qb_links
    lock,       \* who has written a link row: a job, or a request
    remote,     \* the objects in QuickBooks, by id
    queue,      \* jobs in Redis, with the number of times they were started
    results,    \* ids of finished jobs, whose results arq keeps
    api,        \* the open transaction of a request, or None
    job,        \* the transactions of the running jobs, by job id
    requests, faults,
    lost,       \* history: remote objects created by a rolled back job
    forced,     \* history: remote objects created by a forced job
    resent      \* history: entities whose remote object a forced job has updated

vars == <<row, applied, link, lock, remote, queue, results, api, job,
          requests, faults, lost, forced, resent>>

Docs == {"invoice", "credit_note", "payment"}
Entities == Docs \cup {"customer", "application"}
Tasks == Docs \cup {"customer", "void_credit_note", "void_chain"}

JobIds == Tasks \X Nat \X Nat

\* The answer of a remote call: the object and its new token, and the version of
\* the link row that the call was made from.
CallRow == [e : Entities, id : Nat, token : Nat, read : Nat]

ASSUME NoneAssumption ==
    None \notin Nat \cup JobIds \cup CallRow /\ ApiSession \notin JobIds \cup {None}

\* f with the entry x |-> v.
With(f, x, v) == [y \in DOMAIN f \cup {x} |-> IF y = x THEN v ELSE f[y]]

NoEntries == [x \in {} |-> None]

NoLink == [id |-> None, token |-> 0, status |-> "NOT_SYNCED", version |-> 0]

\* A customer that was queued but never synced: qb_entity_id is `pending:...'
PendingLink == [NoLink EXCEPT !.status = "QUEUED", !.version = 1]

\* Either nothing has been sent yet and the invoice is a draft, or invoice
\* and customer have been synced.
Init ==
    \E synced \in BOOLEAN :
    /\ row = [d \in Docs |->
          IF d = "invoice" /\ synced
          THEN [state |-> "LIVE", content |-> 0, status |-> "SYNCED", fp |-> 0]
          ELSE [state |-> IF d = "invoice" THEN "DRAFT" ELSE "LIVE",
                content |-> 0, status |-> "NOT_SYNCED", fp |-> None]]
    /\ applied = FALSE
    /\ remote = IF synced
                THEN <<[entity |-> "customer", content |-> 0, token |-> 0, void |-> FALSE],
                       [entity |-> "invoice", content |-> 0, token |-> 0, void |-> FALSE]>>
                ELSE << >>
    /\ link = [e \in Entities |->
          IF synced /\ e \in {"customer", "invoice"}
          THEN [id |-> IF e = "customer" THEN 1 ELSE 2, token |-> 0,
                status |-> "SYNCED", version |-> 1]
          ELSE NoLink]
    /\ lock = [e \in Entities |-> None]
    /\ queue = {}
    /\ results = {}
    /\ api = None
    /\ job = NoEntries
    /\ requests = 0 /\ faults = 0
    /\ lost = [e \in Entities |-> 0]
    /\ forced = [e \in Entities |-> 0]
    /\ resent = {}

-----------------------------------------------------------------------------
(* Requests.  One is open at a time: two that touch the same row exclude   *)
(* each other by its version.                                              *)

\* _job_id: the version of the row, and for a forced job a fresh uuid
JobId(task, version, force) == <<task, version, IF force THEN requests + 1 ELSE 0>>

Fault == faults < MaxFaults /\ faults' = faults + 1

\* enqueue: arq refuses an id that is queued, running or has a result;
\* without Redis nothing is queued.  The caller learns None in both cases.
Enqueue(id, force) ==
    \/ /\ queue' = IF id \in results \/ \E j \in queue : j.id = id THEN queue
                   ELSE queue \cup {[id |-> id, task |-> id[1], force |-> force, tries |-> 0]}
       /\ UNCHANGED faults
    \/ Fault /\ UNCHANGED queue

Open(change) ==
    /\ api = None
    /\ requests < MaxRequests
    /\ requests' = requests + 1
    /\ api' = change
    /\ lock' = IF change.doc = "customer" THEN [lock EXCEPT !["customer"] = ApiSession] ELSE lock
    /\ UNCHANGED <<row, applied, link, remote, results, job, lost, forced, resent>>

\* enqueue_invoice_sync, enqueue_credit_note_sync, enqueue_payment_sync for
\* the row `new' that the same transaction may have changed: QUEUED already
\* means that nothing is enqueued, unless it is forced.
EnqueueDocSync(d, new, force) ==
    IF row[d].status = "QUEUED" /\ ~force
    THEN Open([doc |-> d, row |-> new]) /\ UNCHANGED <<queue, faults>>
    ELSE /\ Open([doc |-> d, row |-> [new EXCEPT !.status = "QUEUED"]])
         /\ Enqueue(JobId(d, new.content, force), force)

\* finalize and send_invoice; create_reversal and order edits; void, write_off
SendInvoice ==
    /\ row["invoice"].state = "DRAFT"
    /\ EnqueueDocSync("invoice", [row["invoice"] EXCEPT !.state = "LIVE"], FALSE)

EditInvoice ==
    /\ row["invoice"].state = "LIVE"
    /\ EnqueueDocSync("invoice", [row["invoice"] EXCEPT !.content = @ + 1], FALSE)

VoidInvoice ==
    /\ row["invoice"].state = "LIVE"
    /\ EnqueueDocSync("invoice", [row["invoice"] EXCEPT !.state = "VOID", !.content = @ + 1],
                      FALSE)

\* _enqueue_qb_payment_sync after an allocation was made or revised
AllocatePayment ==
    EnqueueDocSync("payment", [row["payment"] EXCEPT !.content = @ + 1], FALSE)

\* enqueue_resync, bulk_resync and the manual routes
ResyncDoc(d, force) == EnqueueDocSync(d, row[d], force)

\* enqueue_void_credit_note and enqueue_void_credit_note_chain; the chain
\* leaves the status of the credit note as it is
VoidCreditNote ==
    LET old == row["credit_note"]
        new == [old EXCEPT !.state = "VOID", !.content = @ + 1]
    IN  /\ old.state = "LIVE"
        /\ IF applied
           THEN /\ Open([doc |-> "credit_note", row |-> new])
                /\ Enqueue(JobId("void_chain", new.content, FALSE), TRUE)
           ELSE /\ Open([doc |-> "credit_note", row |-> [new EXCEPT !.status = "QUEUED"]])
                /\ Enqueue(JobId("void_credit_note", new.content, FALSE), FALSE)

\* enqueue_customer_sync: the link row holds the status, its id has no version
EnqueueCustomerSync(force) ==
    LET old == link["customer"]
        new == IF old.version = 0 THEN PendingLink
               ELSE [old EXCEPT !.status = "QUEUED", !.version = @ + 1]
    IN  /\ lock["customer"] = None
        /\ force \/ old.status # "QUEUED"
        /\ Open([doc |-> "customer", row |-> new])
        /\ Enqueue(JobId("customer", 0, force), force)

\* apply_credit_note on the invoice, which queues nothing by itself
ApplyCreditNote ==
    /\ row["invoice"].state = "LIVE" /\ row["credit_note"].state = "LIVE"
    /\ ~applied /\ api = None /\ requests < MaxRequests
    /\ applied' = TRUE
    /\ requests' = requests + 1
    /\ UNCHANGED <<row, link, lock, remote, queue, results, api, job, faults, lost, forced, resent>>

CloseRequest ==
    /\ api # None
    /\ api' = None
    /\ lock' = [e \in Entities |-> IF lock[e] = ApiSession THEN None ELSE lock[e]]
    /\ UNCHANGED <<applied, remote, queue, results, job, requests, lost, forced, resent>>

CommitRequest ==
    /\ CloseRequest
    /\ IF api.doc = "customer"
       THEN link' = [link EXCEPT !["customer"] = api.row] /\ UNCHANGED row
       ELSE /\ row' = [row EXCEPT ![api.doc] = [api.row EXCEPT !.fp = row[api.doc].fp]]
            /\ UNCHANGED link
    /\ UNCHANGED faults

RollbackRequest == CloseRequest /\ Fault /\ UNCHANGED <<row, link>>

-----------------------------------------------------------------------------
(* A job: `todo' are the entities it still has to bring to QuickBooks,     *)
(* `rows' the documents as it loaded them, `links' what it has written     *)
(* itself, `call' the answer of a remote call it has not recorded yet.     *)

LinkView(w, e) == IF e \in DOMAIN job[w].links THEN job[w].links[e] ELSE link[e]

\* The identity map: a row that is loaded is not read again.
Load(w, d) == IF d \in DOMAIN job[w].rows THEN job[w].rows ELSE With(job[w].rows, d, row[d])

\* Mutant: the invoice goes first, the customer after it.
InvoiceBeforeCustomer(state) ==
    IF state = "VOID" THEN <<"void_invoice">> ELSE <<"invoice", "customer", "application">>

Voidable == {"invoice", "credit_note"}
VoidStep(d) == IF d = "invoice" THEN "void_invoice" ELSE "void_credit_note"

\* What sync_invoice_now does for an invoice in this state
InvoiceSteps(state) ==
    IF state = "VOID" THEN <<"void_invoice">> ELSE <<"customer", "invoice", "application">>

Steps(task) ==
    CASE task = "customer"         -> <<"customer">>
      [] task = "invoice"          -> InvoiceSteps(row["invoice"].state)
      [] task = "credit_note"      -> <<"customer", "credit_note">>
      [] task = "payment"          -> <<"customer", "allocation", "payment">>
      [] task = "void_credit_note" -> <<"void_credit_note">>
      [] task = "void_chain"       ->
             InvoiceSteps(row["invoice"].state) \o <<"void_credit_note">>

\* The rows the task loads first
FirstRows(task) ==
    CASE task = "customer"         -> {}
      [] task \in Docs             -> {task}
      [] task = "void_credit_note" -> {"credit_note"}
      [] task = "void_chain"       -> {"invoice"}

TriesLeft(j) == j.tries < MaxTries

\* arq starts a job, which loads its documents
StartJob(j) ==
    LET t == j.task IN
    /\ j.id \notin DOMAIN job
    /\ Cardinality(DOMAIN job) < MaxJobs
    /\ TriesLeft(j)
    /\ queue' = (queue \ {j}) \cup {[j EXCEPT !.tries = @ + 1]}
    /\ job' = With(job, j.id,
          [force |-> j.force, todo |-> Steps(t),
           rows |-> [d \in FirstRows(t) |-> row[d]], links |-> NoEntries,
           sent |-> {}, absent |-> {}, call |-> None, created |-> {}])
    /\ UNCHANGED <<row, applied, link, lock, remote, results, api, requests, faults, lost, forced, resent>>

\* A job that was started max_tries times is dropped with a failure result
DropJob(j) ==
    /\ ~TriesLeft(j)
    /\ j.id \notin DOMAIN job
    /\ queue' = queue \ {j}
    /\ results' = results \cup {j.id}
    /\ UNCHANGED <<row, applied, link, lock, remote, api, job, requests, faults, lost, forced, resent>>

Step(w) == IF job[w].todo = << >> THEN "commit" ELSE Head(job[w].todo)

At(w, e) == job[w].call = None /\ Step(w) = e

\* What a step makes of the transaction j: it has loaded rows and changed
\* the plan; its entity is among those to confirm; its document has no remote
\* object; its call was answered; its call created an object; the answer is
\* recorded in a link.
Planned(j, rows, todo) == [j EXCEPT !.rows = rows, !.todo = todo]
Confirmed(j, d) == [j EXCEPT !.todo = Tail(j.todo), !.sent = j.sent \cup {d}]
Absent(j, rows, d) ==
    [j EXCEPT !.rows = rows, !.todo = Tail(j.todo), !.absent = j.absent \cup {d}]
Called(j, rows, c) == [j EXCEPT !.rows = rows, !.call = c]
Created(j, c) == [j EXCEPT !.call = c, !.created = j.created \cup {c.id}]
Recorded(j, e, l) ==
    [j EXCEPT !.todo = Tail(j.todo), !.sent = j.sent \cup {e}, !.call = None,
              !.links = With(j.links, e, l)]

Frame == UNCHANGED <<row, applied, results, api, requests, faults, lost>>

\* The version that stays loaded during the call.  The object of a customer's
\* pending link is dropped, and upsert_mapping reads the row again.
ReadVersion(w, e) == IF LinkView(w, e).id = None THEN 0 ELSE LinkView(w, e).version

Create(w, e, content) ==
    LET id == Len(remote) + 1
        call == [e |-> e, id |-> id, token |-> 0, read |-> ReadVersion(w, e)]
    IN  /\ remote' = Append(remote, [entity |-> e, content |-> content, token |-> 0, void |-> FALSE])
        /\ forced' = IF job[w].force THEN [forced EXCEPT ![e] = forced[e] + 1] ELSE forced
        /\ job' = [job EXCEPT ![w] = Created(job[w], call)]
        /\ UNCHANGED resent

\* QuickBooks refuses an update with a stale SyncToken; then only Fail is left
Update(w, e, id, token, content, void) ==
    LET call == [e |-> e, id |-> id, token |-> token + 1, read |-> ReadVersion(w, e)]
    IN  /\ remote[id].token = token
        /\ remote' = [remote EXCEPT ![id] = [entity |-> e, content |-> content,
                                             token |-> token + 1, void |-> void]]
        /\ job' = [job EXCEPT ![w] = Called(job[w], job[w].rows, call)]
        /\ resent' = IF job[w].force THEN resent \cup {e} ELSE resent
        /\ UNCHANGED forced

\* sync_customer_now: a linked customer is updated; otherwise, or forced, it
\* is looked up by its e-mail address and updated or created
SyncCustomer(w) ==
    LET l == LinkView(w, "customer")
        found == {i \in 1..Len(remote) : remote[i].entity = "customer"}
    IN  /\ At(w, "customer")
        /\ IF l.id # None /\ ~job[w].force
           THEN Update(w, "customer", l.id, l.token, 0, FALSE)
           ELSE IF found # {}
           THEN \E i \in found : Update(w, "customer", i, remote[i].token, 0, FALSE)
           ELSE Create(w, "customer", 0)
        /\ UNCHANGED <<queue, link, lock>> /\ Frame

\* sync_invoice_now, sync_credit_note_now: an unchanged fingerprint ends the
\* step; a linked document is updated unless the job is forced
SyncDocument(w, d) ==
    LET l == LinkView(w, d)
        r == job[w].rows[d]
    IN  /\ At(w, d)
        /\ r.state = "LIVE"
        /\ IF l.id # None /\ ~job[w].force /\ r.fp = r.content
           THEN /\ job' = [job EXCEPT ![w] = Confirmed(job[w], d)]
                /\ UNCHANGED <<remote, forced, resent>>
           ELSE IF l.id # None /\ ~job[w].force
           THEN Update(w, d, l.id, l.token, r.content, FALSE)
           ELSE Create(w, d, r.content)
        /\ UNCHANGED <<queue, link, lock>> /\ Frame

\* sync_payment_now, its own object: force does not create a second one
SyncPayment(w) ==
    LET l == LinkView(w, "payment")
        r == job[w].rows["payment"]
    IN  /\ At(w, "payment")
        /\ IF l.id # None /\ ~job[w].force /\ r.fp = r.content
           THEN /\ job' = [job EXCEPT ![w] = Confirmed(job[w], "payment")]
                /\ UNCHANGED <<remote, forced, resent>>
           ELSE IF l.id # None
           THEN Update(w, "payment", l.id, l.token, r.content, FALSE)
           ELSE IF r.content > 0
           THEN Create(w, "payment", r.content)
           ELSE /\ job' = [job EXCEPT ![w] = Planned(job[w], job[w].rows, << >>)]  \* nothing allocated: skipped
                /\ UNCHANGED <<remote, forced, resent>>
        /\ UNCHANGED <<queue, link, lock>> /\ Frame

InvoiceMissing(w) ==
    job[w].rows["payment"].content > 0 /\ LinkView(w, "invoice").id = None

\* The loop over the allocations: an invoice without a link is synced first,
\* which makes no link for a draft or a voided one
SyncAllocatedInvoice(w) ==
    LET rows == Load(w, "invoice")
    IN  /\ At(w, "allocation")
        /\ IF InvoiceMissing(w)
           THEN /\ rows["invoice"].state = "LIVE"
                /\ job' = [job EXCEPT ![w] = Planned(job[w], rows,
                      InvoiceSteps("LIVE") \o Tail(job[w].todo))]
           ELSE job' = [job EXCEPT ![w] = Planned(job[w], job[w].rows, Tail(job[w].todo))]
        /\ UNCHANGED <<queue, link, lock, remote, forced, resent>> /\ Frame

\* The application has still to be made
ApplicationMissing(w) ==
    applied /\ (LinkView(w, "application").id = None \/ job[w].force)

\* _sync_invoice_credit_applications: the credit note first, if it has no link
SyncCreditApplication(w) ==
    LET rows == Load(w, "credit_note")
    IN  /\ At(w, "application")
        /\ IF ~ApplicationMissing(w)
           THEN /\ job' = [job EXCEPT ![w] = Planned(job[w], job[w].rows, Tail(job[w].todo))]
                /\ UNCHANGED <<remote, forced, resent>>
           ELSE IF LinkView(w, "credit_note").id = None
           THEN /\ rows["credit_note"].state = "LIVE"
                /\ job' = [job EXCEPT ![w] = Planned(job[w], rows,
                      <<"customer", "credit_note">> \o job[w].todo)]
                /\ UNCHANGED <<remote, forced, resent>>
           ELSE Create(w, "application", 0)
        /\ UNCHANGED <<queue, link, lock>> /\ Frame

\* _void_invoice_in_quickbooks, void_credit_note_now
VoidDocument(w, d) ==
    LET l == LinkView(w, d)
        rows == Load(w, d)
    IN  /\ At(w, VoidStep(d))
        /\ IF l.id = None
           THEN /\ job' = [job EXCEPT ![w] = Absent(job[w], rows, d)]
                /\ UNCHANGED <<remote, forced, resent>>
           ELSE /\ remote[l.id].token = l.token
                /\ remote' = [remote EXCEPT ![l.id] =
                      [entity |-> d, content |-> remote[l.id].content, token |-> l.token + 1,
                       void |-> TRUE]]
                /\ job' = [job EXCEPT ![w] = Called(job[w], rows,
                      [e |-> d, id |-> l.id, token |-> l.token + 1, read |-> ReadVersion(w, d)])]
                /\ UNCHANGED <<forced, resent>>
        /\ UNCHANGED <<queue, link, lock>> /\ Frame

\* upsert_mapping: the version of the link as the session knows it, then the
\* row is the transaction's until it ends
Record(w) ==
    LET c == job[w].call
        e == c.e
    IN  /\ c # None
        /\ lock[e] \in {None, w}
        /\ c.read # 0 => LinkView(w, e).version = c.read
        /\ lock' = [lock EXCEPT ![e] = w]
        /\ job' = [job EXCEPT ![w] = Recorded(job[w], e,
              [id |-> c.id, token |-> c.token, status |-> "SYNCED",
               version |-> LinkView(w, e).version + 1])]
        /\ UNCHANGED <<queue, link, remote, forced, resent>> /\ Frame

-----------------------------------------------------------------------------
(* The end of a job *)

\* Mutant: the fingerprint is computed from the row as it is now.
SyncedRowNow(w, d) ==
    [row[d] EXCEPT !.status = "SYNCED", !.fp = row[d].content]

\* The columns a job sets on a document, written if they differ from the
\* loaded ones: the status, and the fingerprint of what was sent
SyncedRow(w, d) ==
    LET r == job[w].rows[d] IN
    [row[d] EXCEPT !.status = IF r.status = "SYNCED" THEN @ ELSE "SYNCED",
                   !.fp = IF r.state = "VOID" \/ r.fp = r.content THEN @ ELSE r.content]

FinishedRow(w, d) ==
    IF d \in job[w].sent THEN SyncedRow(w, d)
    ELSE IF d \in job[w].absent THEN [row[d] EXCEPT !.status = "NOT_SYNCED"]
    ELSE row[d]

EndJob(w) ==
    /\ lock' = [e \in Entities |-> IF lock[e] = w THEN None ELSE lock[e]]
    /\ job' = [v \in DOMAIN job \ {w} |-> job[v]]

Forget(w) ==
    /\ queue' = {j \in queue : j.id # w}
    /\ results' = results \cup {w}

\* The rows a request has changed are locked until it ends
CommitJob(w) ==
    /\ At(w, "commit")
    /\ api # None => api.doc \notin job[w].sent \cup job[w].absent
    /\ row' = [d \in Docs |-> FinishedRow(w, d)]
    /\ link' = [e \in Entities |-> LinkView(w, e)]
    /\ Forget(w)
    /\ EndJob(w)
    /\ UNCHANGED <<applied, remote, api, requests, faults, lost, forced, resent>>

Lose(w) ==
    /\ lost' = [e \in Entities |-> lost[e] +
          IF job[w].force THEN 0
          ELSE Cardinality({i \in job[w].created : remote[i].entity = e})]
    /\ UNCHANGED <<row, applied, link, remote, api, requests, forced, resent>>

Stale(w, e) ==
    LET l == LinkView(w, e) IN l.id # None /\ remote[l.id].token # l.token

\* The step of the job cannot be taken: a document in another state, a stale
\* token, a link that was changed meanwhile (one that upsert_mapping reads
\* itself: between that read and the write).
Refused(w) ==
    LET e == Step(w)
        j == job[w]
        changed(d) == j.rows[d].fp # j.rows[d].content
    IN  \/ /\ j.call = None
           /\ \/ e = "customer" /\ ~j.force /\ Stale(w, e)
              \/ /\ e \in {"invoice", "credit_note"}
                 /\ j.rows[e].state # "LIVE" \/ (~j.force /\ changed(e) /\ Stale(w, e))
              \/ e = "payment" /\ (j.force \/ changed(e)) /\ Stale(w, e)
              \/ /\ e = "allocation" /\ InvoiceMissing(w)
                 /\ Load(w, "invoice")["invoice"].state # "LIVE"
              \/ /\ e = "application" /\ ApplicationMissing(w)
                 /\ LinkView(w, "credit_note").id = None
                 /\ Load(w, "credit_note")["credit_note"].state # "LIVE"
              \/ \E d \in Voidable : e = VoidStep(d) /\ Stale(w, d)
        \/ /\ j.call # None
           /\ j.call.e \notin DOMAIN j.links
           /\ IF j.call.read # 0 THEN link[j.call.e].version # j.call.read
              ELSE link[j.call.e].id # None \/ lock[j.call.e] = ApiSession

\* These errors are not retried, and the FAILED status that the handler sets
\* is rolled back with everything else.
FailJob(w) ==
    /\ Refused(w)
    /\ Forget(w)
    /\ EndJob(w)
    /\ Lose(w)
    /\ UNCHANGED faults

\* A transient error, which raises Retry, or the end of the worker process:
\* the job stays in the queue
RetryJob(w) ==
    /\ EndJob(w)
    /\ Lose(w)
    /\ UNCHANGED <<queue, results, faults>>

-----------------------------------------------------------------------------
Request ==
    \/ SendInvoice \/ EditInvoice \/ VoidInvoice \/ AllocatePayment
    \/ VoidCreditNote \/ ApplyCreditNote
    \/ \E f \in BOOLEAN : EnqueueCustomerSync(f) \/ \E d \in Docs : ResyncDoc(d, f)
    \/ CommitRequest \/ RollbackRequest

JobStep(w) ==
    \/ SyncCustomer(w)
    \/ \E d \in Voidable : SyncDocument(w, d) \/ VoidDocument(w, d)
    \/ SyncPayment(w) \/ SyncAllocatedInvoice(w) \/ SyncCreditApplication(w)
    \/ Record(w) \/ CommitJob(w) \/ FailJob(w)

Next ==
    \/ Request
    \/ \E w \in DOMAIN job : JobStep(w) \/ RetryJob(w)
    \/ \E j \in queue : StartJob(j) \/ DropJob(j)

Spec == Init /\ [][Next]_vars

-----------------------------------------------------------------------------
RemoteOf(e) == {i \in 1..Len(remote) : remote[i].entity = e}

\* QuickBooks holds one object per document and per application of a credit
\* note, plus one for each forced sync and each rolled back job that created
\* one: jobs that run at the same time never book anything twice, because the
\* row of the customer's link, which each of them updates first, is locked
\* until it ends.
NoDoubleBooking ==
    \A e \in Entities \ {"customer"} :
        Cardinality(RemoteOf(e)) <= 1 + lost[e] + forced[e]

\* The fingerprint tells the truth.  While QuickBooks shows the token that
\* was recorded, it holds the payload the row claims it holds, so that
\* skipping a sync with an unchanged fingerprint is right.  A forced sync can
\* break this: it writes the link but not a fingerprint that looks unchanged
\* to it, and that may be stale.
FingerprintTruthful ==
    \A d \in Docs :
        (forced[d] = 0 /\ d \notin resent /\ link[d].id # None
           /\ remote[link[d].id].token = link[d].token)
            => row[d].fp = remote[link[d].id].content

\* Jobs never wait for each other in a circle: unless a request holds a row,
\* some running job can take its next step, because every job writes the link
\* of the customer first and those of the documents in one order.
JobsNotStuck ==
    (DOMAIN job # {} /\ api = None) => ENABLED (\E w \in DOMAIN job : JobStep(w))
=============================================================================

------------------------------ MODULE Billing ------------------------------
(***************************************************************************)
(* Payments, their allocation to invoices, and credit notes of one         *)
(* organisation (app/modules/billing, app/modules/invoices).               *)
(*                                                                         *)
(* Requests are READ COMMITTED transactions.  Invoice and payment rows are *)
(* guarded by a version column (UPDATE ... WHERE version = expected),      *)
(* credit notes and invoices also by SELECT ... FOR UPDATE, and the        *)
(* allocation and application rows by neither: they are protected only by  *)
(* the rows a request updates after inserting them.  A write locks its row *)
(* until the transaction ends and is published at its commit; a request    *)
(* whose check fails or whose version is gone can only roll back.          *)
(***************************************************************************)
EXTENDS Integers, FiniteSets, Functions

CONSTANTS
    Sessions,      \* database sessions
    Payments,      \* billing_payments rows
    CardPayments,  \* the payments Braintree sends webhooks about
    Invoices,      \* invoices in status SENT
    Credits,       \* credit_notes rows
    None,          \* no session, no row
    Amount,        \* BillingPayment.amount
    Total,         \* Invoice.total
    Credit,        \* CreditNote.total_credit_amount
    MaxTarget,     \* bound: the largest amount a request allocates
    MaxRequests    \* bound: requests started in a behaviour

Rows == Payments \cup Invoices \cup Credits

ASSUME ConstantsAssumption ==
    /\ None \notin Sessions \cup Rows
    /\ CardPayments \subseteq Payments
    /\ Payments \cap Invoices = {} /\ Payments \cap Credits = {} /\ Invoices \cap Credits = {}
    /\ IsFiniteSet(Rows)
    /\ Amount \in [Payments -> Nat \ {0}]
    /\ Total \in [Invoices -> Nat]
    /\ Credit \in [Credits -> Nat \ {0}]
    /\ MaxTarget \in Nat /\ MaxRequests \in Nat

VARIABLES
    pay,      \* committed payment rows
    inv,      \* committed invoice rows, outcome event included
    cn,       \* committed credit note rows
    alloc,    \* committed allocations: sum of allocated_amount per payment and invoice
    applied,  \* committed applications: sum of applied_amount per credit note and invoice
    misread,  \* history: invoices from which a commit removed other rows than it had read
    lock,     \* holder of each row lock
    sess,     \* what each session is doing
    started   \* requests started so far

vars == <<pay, inv, cn, alloc, applied, misread, lock, sess, started>>
data == <<pay, inv, cn, alloc, applied, misread>>

Outcomes == {"NONE", "VOID", "WRITTEN_OFF"}

\* OPEN stands for NOT_DEPOSITED, DEPOSITED and the other live statuses.
\* History: `batches' counts the commits that changed the allocations, and
\* `rewound' says that a webhook has set the version back.
PaymentRow == [status : {"OPEN", "VOIDED"}, version : Nat, allocated : Nat,
               batches : Nat, rewound : BOOLEAN]

\* UNPAID stands for UNPAID and OVERDUE, which differ by the date only.
InvoiceRow == [version : Nat, outcome : Outcomes, paid : Nat,
               status  : {"UNPAID", "PARTIALLY_PAID", "PAID", "VOID", "WRITTEN_OFF"}]

\* reversal is the total of the invoice in reversal_invoice_id, 0 without one.
CreditRow == [status : {"ISSUED", "VOIDED"}, version : Nat, reversal : Nat]

NoAmounts == [i \in Invoices |-> 0]

\* What a session has read or written, by row
Only(x, v) == [y \in {x} |-> v]
Joined(f, g) == [x \in DOMAIN f \cup DOMAIN g |-> IF x \in DOMAIN f THEN f[x] ELSE g[x]]

\* id      : the payment, credit note or invoice the request is about
\* inv     : the invoice a credit note is applied to or an allocation removed from
\* seen    : versions of the rows the request has read and still references
\* target  : requested amount per invoice, 0 where the payload names none
\* current : the payment's allocations as replace_allocations has read them
\* turn    : the payment's batches when its DELETE began to wait
\* delta   : uncommitted change of alloc[id]
\* sum     : the total the request has read or computed
\* todo    : invoices whose projection is still to be recomputed
\* new     : uncommitted invoice rows
Idle == [pc |-> "idle", op |-> "none", id |-> None, inv |-> None, seen |-> << >>,
         target |-> NoAmounts, current |-> NoAmounts, turn |-> 0,
         delta |-> NoAmounts, sum |-> 0, todo |-> {}, new |-> << >>]

Init ==
    /\ pay = [p \in Payments |-> [status |-> "OPEN", version |-> 1, allocated |-> 0,
                                  batches |-> 0, rewound |-> FALSE]]
    /\ inv = [i \in Invoices |-> [version |-> 1, outcome |-> "NONE", paid |-> 0,
                                  status |-> IF Total[i] = 0 THEN "PAID" ELSE "UNPAID"]]
    /\ cn = [c \in Credits |-> [status |-> "ISSUED", version |-> 1, reversal |-> 0]]
    /\ alloc = [p \in Payments |-> NoAmounts]
    /\ applied = [c \in Credits |-> NoAmounts]
    /\ misread = {}
    /\ lock = [r \in Rows |-> None]
    /\ sess = [s \in Sessions |-> Idle]
    /\ started = 0

-----------------------------------------------------------------------------
(* Sums the repositories compute *)

\* total_latest_allocated_for_payment
AllocatedOf(p) == SumFunction(alloc[p])

\* total_allocated_for_invoice, totals_allocated_for_invoices
PaidOn(i) == SumFunction([p \in Payments |-> alloc[p][i]])

\* get_applied_total_for_invoice, totals_applied_for_invoices
CreditOn(i) == SumFunction([c \in Credits |-> applied[c][i]])

\* get_applied_total_for_credit_note
AppliedOf(c) == SumFunction(applied[c])

\* compute_payment_status
ComputePaymentStatus(i, paid, credit, outcome) ==
    LET balance == Total[i] - credit - paid IN
    CASE outcome # "NONE"                              -> outcome
      [] outcome = "NONE" /\ balance <= 0              -> "PAID"
      [] outcome = "NONE" /\ balance > 0 /\ paid > 0   -> "PARTIALLY_PAID"
      [] outcome = "NONE" /\ balance > 0 /\ paid <= 0  -> "UNPAID"

-----------------------------------------------------------------------------
(* Transactions *)

Start(s, r) ==
    /\ sess[s].pc = "idle"
    /\ started < MaxRequests
    /\ started' = started + 1
    /\ sess' = [sess EXCEPT ![s] = r]
    /\ UNCHANGED <<data, lock>>

\* A step of s inside its transaction that neither locks nor publishes.
Continue(s, r) ==
    /\ sess' = [sess EXCEPT ![s] = r]
    /\ UNCHANGED <<data, lock, started>>

Free(s, r) == lock[r] \in {None, s}

\* The session ends and gives up its locks.
EndSession(s) ==
    /\ lock' = [r \in Rows |-> IF lock[r] = s THEN None ELSE lock[r]]
    /\ sess' = [sess EXCEPT ![s] = Idle]
    /\ UNCHANGED started

\* Any exception: a failed validation, a ConflictError, a unique violation,
\* the victim of a deadlock, a lost worker.
Rollback(s) ==
    /\ sess[s].pc # "idle"
    /\ EndSession(s)
    /\ UNCHANGED data

-----------------------------------------------------------------------------
(* Allocations: add_or_revise_allocations, replace_allocations,            *)
(* remove_allocation                                                       *)

Targets(s) == {i \in Invoices : sess[s].target[i] > 0}

\* The payment is read; a VOIDED one is refused.
StartAllocation(s, pc, op, p, target, i) ==
    /\ pay[p].status # "VOIDED"
    /\ Start(s, [Idle EXCEPT !.pc = pc, !.op = op, !.id = p, !.target = target, !.inv = i,
                             !.seen = Only(p, pay[p].version)])

StartAddOrRevise(s, p, target) ==
    /\ target # NoAmounts
    /\ StartAllocation(s, "read", "ADD", p, target, None)

StartReplace(s, p, target) == StartAllocation(s, "current", "REPLACE", p, target, None)

StartRemove(s, p, i) == StartAllocation(s, "remove", "REPLACE", p, NoAmounts, i)

\* remove_allocation asks for the allocations it finds, without the one on
\* the invoice.
ReadRemoved(s) ==
    LET rows == alloc[sess[s].id] IN
    /\ sess[s].pc = "remove"
    /\ rows[sess[s].inv] > 0
    /\ Continue(s, [sess[s] EXCEPT !.pc = "current", !.target = [rows EXCEPT ![sess[s].inv] = 0]])

\* _apply_allocation_targets reads the allocations before anything else.
ReadCurrent(s) ==
    LET p == sess[s].id IN
    /\ sess[s].pc = "current"
    /\ SumFunction(sess[s].target) <= Amount[p]
    /\ Continue(s, [sess[s] EXCEPT !.pc = "read", !.current = alloc[p]])

\* The invoices of the payload are loaded; the request keeps referencing
\* them, so a later read in the same session returns these versions.
ReadInvoices(s) ==
    /\ sess[s].pc = "read"
    /\ Continue(s, [sess[s] EXCEPT !.pc = "totals",
                      !.seen = Joined(@, [i \in Targets(s) |-> inv[i].version])])

\* The checks on the sums.  What a replaced allocation leaves to the other
\* payments is the sum read now less the allocation read before.
CheckTotals(s) ==
    LET p == sess[s].id
        target == sess[s].target
        current == sess[s].current IN
    /\ sess[s].pc = "totals"
    /\ sess[s].op = "ADD" => AllocatedOf(p) + SumFunction(target) <= Amount[p]
    /\ \A i \in Targets(s) : target[i] <= Total[i] - CreditOn(i) - (PaidOn(i) - current[i])
    /\ IF target = current
       THEN EndSession(s) /\ UNCHANGED data
       ELSE Continue(s, [sess[s] EXCEPT !.pc = "insert"])

\* add_or_revise_allocations: the rows.  Two batches for the same payment
\* and invoice would take the same revision_no, and the unique constraint
\* makes the second one wait.
InsertAllocations(s) ==
    /\ sess[s].pc = "insert" /\ sess[s].op = "ADD"
    /\ \A t \in Sessions \ {s} :
          sess[t].op = "ADD" /\ sess[t].id = sess[s].id =>
             \A i \in Targets(s) : sess[t].delta[i] = 0
    /\ Continue(s, [sess[s] EXCEPT !.pc = "sum", !.delta = sess[s].target, !.todo = Targets(s)])

\* A DELETE waits for another request that has deleted the rows.
MayDelete(s) ==
    \A t \in Sessions \ {s} :
        ~(/\ sess[t].op = "REPLACE" /\ sess[t].id = sess[s].id
          /\ sess[t].pc \in {"sum", "payment", "invoices"})

AwaitDelete(s) ==
    /\ sess[s].pc = "insert" /\ sess[s].op = "REPLACE"
    /\ ~MayDelete(s)
    /\ Continue(s, [sess[s] EXCEPT !.pc = "waiting", !.turn = pay[sess[s].id].batches])

\* What DELETE ... WHERE payment_id = p removes: the rows of the payment.  If
\* others have committed theirs since it began to wait, it finds rows gone
\* and misses the new ones.
DeletedRows(r) ==
    LET rows == alloc[r.id] IN
    IF r.pc = "waiting" /\ pay[r.id].batches # r.turn
    THEN {[i \in Invoices |-> IF i \in D THEN rows[i] ELSE 0] : D \in SUBSET Invoices}
    ELSE {rows}

\* Mutant: only the invoices of the new allocation are recomputed.
ReplaceForgettingRemoved(s) ==
    /\ sess[s].pc \in {"insert", "waiting"} /\ sess[s].op = "REPLACE"
    /\ MayDelete(s)
    /\ \E rows \in DeletedRows(sess[s]) :
          Continue(s, [sess[s] EXCEPT !.pc = "sum", !.todo = Targets(s),
             !.delta = [i \in Invoices |-> sess[s].target[i] - rows[i]]])

\* _apply_allocation_targets: every allocation of the payment is deleted and
\* the requested ones are inserted; the invoices to recompute are those of
\* the request and those of the allocations it had read.
ReplaceAllocations(s) ==
    /\ sess[s].pc \in {"insert", "waiting"} /\ sess[s].op = "REPLACE"
    /\ MayDelete(s)
    /\ \E rows \in DeletedRows(sess[s]) :
          Continue(s, [sess[s] EXCEPT !.pc = "sum",
             !.delta = [i \in Invoices |-> sess[s].target[i] - rows[i]],
             !.todo = {i \in Invoices : sess[s].target[i] > 0 \/ sess[s].current[i] > 0}])

\* Mutant: the projection is the requested amount, not the sum of the rows.
SumTarget(s) ==
    /\ sess[s].pc = "sum"
    /\ Continue(s, [sess[s] EXCEPT !.pc = "payment", !.sum = SumFunction(sess[s].target)])

\* _recompute_payment_projection reads the sum, its own rows included ...
SumAllocated(s) ==
    LET sum == AllocatedOf(sess[s].id) + SumFunction(sess[s].delta) IN
    /\ sess[s].pc = "sum"
    /\ sum <= Amount[sess[s].id]
    /\ Continue(s, [sess[s] EXCEPT !.pc = "payment", !.sum = sum])

\* Mutant: the UPDATE does not compare versions.
UpdatePaymentUnversioned(s) ==
    /\ sess[s].pc = "payment"
    /\ Free(s, sess[s].id)
    /\ lock' = [lock EXCEPT ![sess[s].id] = s]
    /\ sess' = [sess EXCEPT ![s].pc = "invoices"]
    /\ UNCHANGED <<data, started>>

\* ... and writes it with a versioned UPDATE, which locks the payment
UpdatePayment(s) ==
    LET p == sess[s].id IN
    /\ sess[s].pc = "payment"
    /\ Free(s, p)
    /\ pay[p].version = sess[s].seen[p]
    /\ lock' = [lock EXCEPT ![p] = s]
    /\ sess' = [sess EXCEPT ![s].pc = "invoices"]
    /\ UNCHANGED <<data, started>>

\* The invoice row that _recompute_invoice_projection writes
Projection(i, paid, credit, outcome, version) ==
    [version |-> version, outcome |-> outcome, paid |-> paid,
     status |-> ComputePaymentStatus(i, paid, credit, outcome)]

\* Mutant: the UPDATE does not compare versions.
RecomputeInvoiceUnversioned(s, i) ==
    /\ sess[s].pc = "invoices" /\ i \in sess[s].todo
    /\ Free(s, i)
    /\ lock' = [lock EXCEPT ![i] = s]
    /\ sess' = [sess EXCEPT
          ![s].todo = @ \ {i},
          ![s].new  = Joined(@, Only(i, Projection(i, PaidOn(i) + sess[s].delta[i], CreditOn(i),
                                                   inv[i].outcome, inv[i].version + 1)))]
    /\ UNCHANGED <<data, started>>

\* _recompute_invoice_projection of one touched invoice.  An invoice of the
\* payload has the version read at the start; one that only lost its
\* allocation is read now.
RecomputeInvoice(s, i) ==
    /\ sess[s].pc = "invoices" /\ i \in sess[s].todo
    /\ Free(s, i)
    /\ i \in DOMAIN sess[s].seen => inv[i].version = sess[s].seen[i]
    /\ lock' = [lock EXCEPT ![i] = s]
    /\ sess' = [sess EXCEPT
          ![s].todo = @ \ {i},
          ![s].new  = Joined(@, Only(i, Projection(i, PaidOn(i) + sess[s].delta[i], CreditOn(i),
                                                   inv[i].outcome, inv[i].version + 1)))]
    /\ UNCHANGED <<data, started>>

CommitAllocations(s) ==
    LET p == sess[s].id IN
    /\ sess[s].pc = "invoices" /\ sess[s].todo = {}
    /\ alloc' = [alloc EXCEPT ![p] = [i \in Invoices |-> @[i] + sess[s].delta[i]]]
    /\ pay' = [pay EXCEPT ![p].version = sess[s].seen[p] + 1, ![p].allocated = sess[s].sum,
                          ![p].batches = @ + 1]
    /\ inv' = [i \in Invoices |-> IF i \in DOMAIN sess[s].new THEN sess[s].new[i] ELSE inv[i]]
    /\ misread' = misread \cup
          {i \in Invoices : sess[s].delta[i] # sess[s].target[i] - sess[s].current[i]}
    /\ EndSession(s)
    /\ UNCHANGED <<cn, applied>>

-----------------------------------------------------------------------------
(* The other writers of a payment row *)

\* update_payment_notes, mark_payment_status, remittance advice: they read
\* the payment and write other columns of it with a versioned UPDATE.
StartEdit(s, p) ==
    Start(s, [Idle EXCEPT !.pc = "edit", !.op = "EDIT", !.id = p,
                          !.seen = Only(p, pay[p].version)])

EditPayment(s) ==
    LET p == sess[s].id IN
    /\ sess[s].pc = "edit"
    /\ Free(s, p)
    /\ pay[p].version = sess[s].seen[p]
    /\ pay' = [pay EXCEPT ![p].version = @ + 1]
    /\ EndSession(s)
    /\ UNCHANGED <<inv, cn, alloc, applied, misread>>

\* void_payment reads the payment, ...
StartVoidPayment(s, p) ==
    /\ pay[p].status # "VOIDED"
    /\ Start(s, [Idle EXCEPT !.pc = "unallocated", !.op = "VOID_PAYMENT", !.id = p,
                             !.seen = Only(p, pay[p].version)])

\* ... refuses one with allocations, ...
CheckUnallocated(s) ==
    /\ sess[s].pc = "unallocated"
    /\ AllocatedOf(sess[s].id) = 0
    /\ Continue(s, [sess[s] EXCEPT !.pc = "void"])

\* Mutant: the UPDATE does not compare versions.
VoidPaymentUnversioned(s) ==
    /\ sess[s].pc = "void"
    /\ Free(s, sess[s].id)
    /\ pay' = [pay EXCEPT ![sess[s].id].version = @ + 1, ![sess[s].id].status = "VOIDED"]
    /\ EndSession(s)
    /\ UNCHANGED <<inv, cn, alloc, applied, misread>>

\* ... and voids it with a versioned UPDATE
VoidPayment(s) ==
    LET p == sess[s].id IN
    /\ sess[s].pc = "void"
    /\ Free(s, p)
    /\ pay[p].version = sess[s].seen[p]
    /\ pay' = [pay EXCEPT ![p].version = @ + 1, ![p].status = "VOIDED"]
    /\ EndSession(s)
    /\ UNCHANGED <<inv, cn, alloc, applied, misread>>

\* apply_braintree_payment_status, apply_braintree_dispute_status: the
\* webhook reads the payment ...
StartWebhook(s, p) ==
    /\ p \in CardPayments
    /\ Start(s, [Idle EXCEPT !.pc = "webhook", !.op = "WEBHOOK", !.id = p,
                             !.seen = Only(p, pay[p].version)])

\* ... and writes it without comparing versions: update_by_id with no
\* expected_version stores the version it read plus one
ApplyWebhook(s) ==
    LET p == sess[s].id IN
    /\ sess[s].pc = "webhook"
    /\ Free(s, p)
    /\ pay' = [pay EXCEPT ![p].version = sess[s].seen[p] + 1,
                          ![p].rewound = @ \/ sess[s].seen[p] # pay[p].version]
    /\ EndSession(s)
    /\ UNCHANGED <<inv, cn, alloc, applied, misread>>

-----------------------------------------------------------------------------
(* Invoice outcomes: InvoiceService.void and write_off *)

StartOutcome(s, i, o) ==
    /\ inv[i].outcome = "NONE"
    /\ Start(s, [Idle EXCEPT !.pc = "outcome", !.op = o, !.id = i,
                             !.seen = Only(i, inv[i].version)])

\* The versioned UPDATE takes the row, the event is appended, and the
\* projection is recomputed with a second versioned UPDATE.
RecordOutcome(s) ==
    LET i == sess[s].id IN
    /\ sess[s].pc = "outcome"
    /\ Free(s, i)
    /\ inv[i].version = sess[s].seen[i]
    /\ inv' = [inv EXCEPT ![i] = Projection(i, PaidOn(i), CreditOn(i), sess[s].op,
                                            inv[i].version + 2)]
    /\ EndSession(s)
    /\ UNCHANGED <<pay, cn, alloc, applied, misread>>

-----------------------------------------------------------------------------
(* Credit notes *)

\* Mutant: the credit note is read without FOR UPDATE.
ReadCreditNote(s, c, i) ==
    /\ cn[c].status = "ISSUED"
    /\ Start(s, [Idle EXCEPT !.pc = "credit", !.op = "APPLY", !.id = c, !.inv = i])

\* apply_credit_note_auto locks the credit note, ...
LockCreditNote(s, c, i) ==
    /\ lock[c] = None
    /\ cn[c].status = "ISSUED"
    /\ sess[s].pc = "idle" /\ started < MaxRequests
    /\ started' = started + 1
    /\ lock' = [lock EXCEPT ![c] = s]
    /\ sess' = [sess EXCEPT ![s] = [Idle EXCEPT !.pc = "credit", !.op = "APPLY",
                                                !.id = c, !.inv = i]]
    /\ UNCHANGED data

\* ... then the invoice, and takes the smaller of what is left on each, ...
LockCreditedInvoice(s) ==
    LET c == sess[s].id
        i == sess[s].inv
        left == Credit[c] - AppliedOf(c)
        outstanding == Total[i] - CreditOn(i) - PaidOn(i)
        amount == IF left < outstanding THEN left ELSE outstanding IN
    /\ sess[s].pc = "credit"
    /\ lock[i] = None
    /\ inv[i].outcome = "NONE"
    /\ amount > 0
    /\ lock' = [lock EXCEPT ![i] = s]
    /\ sess' = [sess EXCEPT ![s].pc = "apply", ![s].sum = amount,
                            ![s].seen = Only(i, inv[i].version)]
    /\ UNCHANGED <<data, started>>

\* ... records the application and recomputes the invoice.  The credit note
\* row itself is not written: its version stays.
ApplyCreditNote(s) ==
    LET c == sess[s].id
        i == sess[s].inv IN
    /\ sess[s].pc = "apply"
    /\ inv[i].version = sess[s].seen[i]
    /\ applied' = [applied EXCEPT ![c][i] = @ + sess[s].sum]
    /\ inv' = [inv EXCEPT ![i] = Projection(i, PaidOn(i), CreditOn(i) + sess[s].sum,
                                            inv[i].outcome, inv[i].version + 1)]
    /\ EndSession(s)
    /\ UNCHANGED <<pay, cn, alloc, misread>>

\* void_credit_note reads the credit note without a lock, ...
StartVoidCreditNote(s, c) ==
    /\ cn[c].status = "ISSUED"
    /\ Start(s, [Idle EXCEPT !.pc = "applied", !.op = "VOID_CREDIT", !.id = c,
                             !.seen = Only(c, cn[c].version)])

\* ... reads what has been applied and, if anything has, bills it again on
\* a reversal invoice, ...
ReadApplied(s) ==
    /\ sess[s].pc = "applied"
    /\ Continue(s, [sess[s] EXCEPT !.pc = "void_credit", !.sum = AppliedOf(sess[s].id)])

\* ... and voids it with a versioned UPDATE
VoidCreditNote(s) ==
    LET c == sess[s].id IN
    /\ sess[s].pc = "void_credit"
    /\ Free(s, c)
    /\ cn[c].version = sess[s].seen[c]
    /\ cn' = [cn EXCEPT ![c] = [status |-> "VOIDED", version |-> @.version + 1,
                                reversal |-> sess[s].sum]]
    /\ EndSession(s)
    /\ UNCHANGED <<pay, inv, alloc, applied, misread>>

-----------------------------------------------------------------------------
Begin(s) ==
    \/ \E p \in Payments, target \in [Invoices -> 0..MaxTarget] :
          StartAddOrRevise(s, p, target) \/ StartReplace(s, p, target)
    \/ \E p \in Payments, i \in Invoices : StartRemove(s, p, i)
    \/ \E p \in Payments : StartEdit(s, p) \/ StartVoidPayment(s, p) \/ StartWebhook(s, p)
    \/ \E i \in Invoices, o \in {"VOID", "WRITTEN_OFF"} : StartOutcome(s, i, o)
    \/ \E c \in Credits, i \in Invoices : LockCreditNote(s, c, i)
    \/ \E c \in Credits : StartVoidCreditNote(s, c)

Allocate(s) ==
    \/ ReadRemoved(s) \/ ReadCurrent(s) \/ ReadInvoices(s) \/ CheckTotals(s)
    \/ InsertAllocations(s) \/ AwaitDelete(s) \/ ReplaceAllocations(s)
    \/ SumAllocated(s) \/ UpdatePayment(s)
    \/ \E i \in Invoices : RecomputeInvoice(s, i)
    \/ CommitAllocations(s)

Finish(s) ==
    \/ EditPayment(s) \/ CheckUnallocated(s) \/ VoidPayment(s) \/ ApplyWebhook(s)
    \/ RecordOutcome(s)
    \/ LockCreditedInvoice(s) \/ ApplyCreditNote(s)
    \/ ReadApplied(s) \/ VoidCreditNote(s)

Next == \E s \in Sessions : Begin(s) \/ Allocate(s) \/ Finish(s) \/ Rollback(s)

Spec == Init /\ [][Next]_vars

-----------------------------------------------------------------------------
(* Properties *)

\* Every committed row has the type of its table, and locks have holders.
TypeOK ==
    /\ pay \in [Payments -> PaymentRow]
    /\ inv \in [Invoices -> InvoiceRow]
    /\ cn \in [Credits -> CreditRow]
    /\ alloc \in [Payments -> [Invoices -> Nat]]
    /\ applied \in [Credits -> [Invoices -> Nat]]
    /\ misread \subseteq Invoices
    /\ lock \in [Rows -> Sessions \cup {None}]
    /\ started \in 0..MaxRequests

\* The payments whose version still orders their writers.
Versioned == {p \in Payments : ~pay[p].rewound}

\* Concurrent allocations never hand out more than a payment is worth,
\* although each request checks the sum before it holds any lock, unless a
\* webhook that had read the payment earlier set its version back.
PaymentNotOverAllocated == \A p \in Versioned : AllocatedOf(p) <= Amount[p]

\* replace_allocations reads the allocations, and deletes them three reads
\* later: only the payment's version keeps another request from changing
\* them in between, so the two differ in a commit only after a webhook has
\* set a version back.
MisreadNeedsRewind == misread # {} => \E p \in Payments : pay[p].rewound

\* `allocated total exceeds payment amount' is refused, always.
NeverOverAllocated == \A p \in Payments : AllocatedOf(p) <= Amount[p]

\* `allocation exceeds invoice outstanding balance' is refused, always.
NeverOverPaid == \A i \in Invoices : PaidOn(i) + CreditOn(i) <= Total[i]

\* The invoices whose allocations every commit replaced as it had read them.
ReadRight == Invoices \ misread

\* Payments and credit notes together never settle more than an invoice's
\* total, although allocations guard it with a version and credit
\* applications with a row lock, unless a replacement removed other rows from
\* the invoice than those its check had subtracted.
InvoiceNotOverPaid == \A i \in ReadRight : PaidOn(i) + CreditOn(i) <= Total[i]

\* allocated_amount on the payment is the sum of its allocation rows, with the
\* same exception.
PaymentProjectionTrue == \A p \in Versioned : pay[p].allocated = AllocatedOf(p)

\* paid_amount and payment_status on the invoice are what its allocations,
\* credit applications and outcome event say, whichever request wrote last,
\* with the same exception: such an invoice may not be recomputed at all.
InvoiceProjectionTrue ==
    \A i \in ReadRight :
        /\ inv[i].paid = PaidOn(i)
        /\ inv[i].status = ComputePaymentStatus(i, PaidOn(i), CreditOn(i), inv[i].outcome)

\* A voided payment carries no allocation: void_payment checks the sum
\* without a lock, so only the version stands between it and an allocation
\* (again unless it was set back).
VoidedPaymentUnallocated ==
    \A p \in Versioned : pay[p].status = "VOIDED" => AllocatedOf(p) = 0

\* Applications of one credit note to several invoices at once never exceed
\* its total_credit_amount.
CreditNoteNotOverApplied == \A c \in Credits : AppliedOf(c) <= Credit[c]

\* Nothing is applied from a credit note once it is voided, also by a
\* request that found it ISSUED.
VoidedCreditNoteFrozen ==
    [][\A c \in Credits : cn[c].status = "VOIDED" => applied'[c] = applied[c]]_vars
=============================================================================

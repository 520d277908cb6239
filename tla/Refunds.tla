------------------------------ MODULE Refunds ------------------------------
(***************************************************************************)
(* Refunds of one payment (app/modules/billing) and the Braintree          *)
(* transaction behind it.                                                  *)
(*                                                                         *)
(* create_refund serialises on the payment row; mark_refund_complete,      *)
(* retry_refund and the refund webhook work on the refund row without it.  *)
(* The gateway is called in the middle of a transaction: what it did stays *)
(* done when the transaction rolls back.                                   *)
(***************************************************************************)
EXTENDS Integers, FiniteSets, Functions

CONSTANTS
    Sessions,     \* database sessions
    Refunds,      \* ids of refund rows
    Keys,         \* idempotency keys of create_refund
    Payment,      \* the payment row, as something to lock
    None,         \* no session, no row, no key
    Amount,       \* BillingPayment.amount
    MaxRequests   \* bound: requests started in a behaviour

ASSUME ConstantsAssumption ==
    /\ None \notin Sessions \cup Refunds \cup Keys
    /\ Payment \notin Refunds
    /\ IsFiniteSet(Refunds)
    /\ Amount \in Nat \ {0}
    /\ MaxRequests \in Nat

VARIABLES
    refund,   \* committed refund rows, None where there is none yet
    tx,       \* the card transaction at Braintree: its status and what went back
    lock,     \* holder of each row lock
    sess,     \* what each session is doing
    started   \* requests started so far

vars == <<refund, tx, lock, sess, started>>

Methods == {"CARD_REFUND", "BANK_TRANSFER", "CREDIT_NOTE"}
Statuses == {"INITIATED", "PROCESSING", "COMPLETED", "FAILED"}

\* completions counts how often the row was turned to COMPLETED
RefundRow == [method : Methods, key : Keys \cup {None}, requested : 1..Amount,
              processed : 0..Amount, status : Statuses, version : Nat, completions : Nat]

ASSUME RowAssumption == None \notin RefundRow

Idle == [pc |-> "idle", id |-> None, row |-> None]

Init ==
    /\ refund = [r \in Refunds |-> None]
    /\ tx = [status |-> "voidable", moved |-> 0]
    /\ lock = [x \in Refunds \cup {Payment} |-> None]
    /\ sess = [s \in Sessions |-> Idle]
    /\ started = 0

-----------------------------------------------------------------------------
(* Helpers *)

Rows == {r \in Refunds : refund[r] # None}

SumOver(rows) == SumFunction([r \in Refunds |-> IF r \in rows THEN refund[r].processed ELSE 0])

\* total_non_reversed_refunded_for_payment; nothing sets REVERSED
AlreadyRefunded == SumOver(Rows)

RowsOf(m) == {r \in Rows : refund[r].method = m}

KeyTaken(k) == k # None /\ \E r \in Rows : refund[r].key = k

Start(s, pc, r, row) ==
    /\ sess[s].pc = "idle"
    /\ started < MaxRequests
    /\ started' = started + 1
    /\ sess' = [sess EXCEPT ![s] = [pc |-> pc, id |-> r, row |-> row]]
    /\ UNCHANGED <<refund, tx, lock>>

EndSession(s) ==
    /\ lock' = [x \in DOMAIN lock |-> IF lock[x] = s THEN None ELSE lock[x]]
    /\ sess' = [sess EXCEPT ![s] = Idle]
    /\ UNCHANGED started

\* The transaction rolls back; what the gateway did is not undone
Rollback(s) ==
    /\ sess[s].pc # "idle"
    /\ EndSession(s)
    /\ UNCHANGED <<refund, tx>>

\* The refund row of session s is published
Publish(s, row) ==
    /\ refund' = [refund EXCEPT ![sess[s].id] = row]
    /\ EndSession(s)
    /\ UNCHANGED tx

-----------------------------------------------------------------------------
(* create_refund *)

\* The lookup of the idempotency key, before any lock, finds nothing.  (When
\* it finds a refund the request returns it and writes nothing.)
StartCreate(s, r, m, k, a) ==
    /\ ~KeyTaken(k)
    /\ refund[r] = None /\ \A t \in Sessions : sess[t].id # r
    /\ Start(s, "lock", r,
             [method |-> m, key |-> k, requested |-> a,
              processed |-> IF m = "CREDIT_NOTE" THEN a ELSE 0,
              status |-> CASE m = "CARD_REFUND"   -> "PROCESSING"
                           [] m = "BANK_TRANSFER" -> "INITIATED"
                           [] m = "CREDIT_NOTE"   -> "COMPLETED",
              version |-> IF m = "CARD_REFUND" THEN 1 ELSE 2,
              completions |-> 0])

\* Mutant: the payment is read without FOR UPDATE.
ReadPayment(s) ==
    LET row == sess[s].row IN
    /\ sess[s].pc = "lock"
    /\ row.requested <= Amount - AlreadyRefunded
    /\ ~KeyTaken(row.key)
    /\ sess' = [sess EXCEPT ![s].pc = IF row.method = "CARD_REFUND"
                                      THEN "gateway" ELSE "commit"]
    /\ UNCHANGED <<refund, tx, lock, started>>

\* Mutant: there is no unique constraint on the key.
LockPaymentAnyKey(s) ==
    LET row == sess[s].row IN
    /\ sess[s].pc = "lock"
    /\ lock[Payment] = None
    /\ row.requested <= Amount - AlreadyRefunded
    /\ lock' = [lock EXCEPT ![Payment] = s]
    /\ sess' = [sess EXCEPT ![s].pc = IF row.method = "CARD_REFUND"
                                      THEN "gateway" ELSE "commit"]
    /\ UNCHANGED <<refund, tx, started>>

\* lock_payment, the check of the amount against what is left (a FULL refund
\* is all of it, a PARTIAL one less) and the INSERT, which the unique
\* (organization_id, idempotency_key) refuses for a key taken meanwhile
LockPayment(s) ==
    LET row == sess[s].row IN
    /\ sess[s].pc = "lock"
    /\ lock[Payment] = None
    /\ row.requested <= Amount - AlreadyRefunded
    /\ ~KeyTaken(row.key)
    /\ lock' = [lock EXCEPT ![Payment] = s]
    /\ sess' = [sess EXCEPT ![s].pc = IF row.method = "CARD_REFUND"
                                      THEN "gateway" ELSE "commit"]
    /\ UNCHANGED <<refund, tx, started>>

CommitRefund(s) ==
    /\ sess[s].pc = "commit"
    /\ Publish(s, sess[s].row)

-----------------------------------------------------------------------------
(* The gateway *)

\* The card transaction settles; until then it can only be voided in full
Settle ==
    /\ tx.status = "voidable"
    /\ tx' = [tx EXCEPT !.status = "settled"]
    /\ UNCHANGED <<refund, lock, sess, started>>

\* refund_or_void_transaction succeeds: the money is on its way back.  A
\* transaction that was reversed already is refused.
ReverseTransaction(s) ==
    LET row == sess[s].row IN
    /\ sess[s].pc = "gateway"
    /\ \/ tx.status = "settled"
       \/ tx.status = "voidable" /\ row.requested = Amount
    /\ tx' = [status |-> "reversed", moved |-> tx.moved + row.requested]
    /\ sess' = [sess EXCEPT ![s].pc = "commit",
                            ![s].row = [row EXCEPT !.status = "COMPLETED",
                                                   !.processed = row.requested,
                                                   !.version = @ + 1,
                                                   !.completions = @ + 1]]
    /\ UNCHANGED <<refund, lock, started>>

\* Mutant: the amount is booked whether or not the gateway accepted it.
ReversalFailsBooked(s) ==
    /\ sess[s].pc = "gateway"
    /\ sess' = [sess EXCEPT ![s].pc = "commit",
                            ![s].row = [@ EXCEPT !.status = "FAILED", !.version = @ + 1,
                                                 !.processed = sess[s].row.requested]]
    /\ UNCHANGED <<refund, tx, lock, started>>

\* refund_or_void_transaction fails, for any of its reasons
ReversalFails(s) ==
    LET row == sess[s].row IN
    /\ sess[s].pc = "gateway"
    /\ sess' = [sess EXCEPT ![s].pc = "commit",
                            ![s].row = [row EXCEPT !.status = "FAILED", !.version = @ + 1]]
    /\ UNCHANGED <<refund, tx, lock, started>>

-----------------------------------------------------------------------------
(* Work on an existing refund *)

\* The refund is read; its version is compared when it is written.
Read(s, pc, r) == r \in Rows /\ Start(s, pc, r, refund[r])

\* retry_refund of a FAILED card refund (no other kind is ever FAILED)
StartRetry(s, r) ==
    /\ r \in RowsOf("CARD_REFUND") /\ refund[r].status = "FAILED"
    /\ Read(s, "retry", r)

\* The versioned UPDATE to PROCESSING locks the row; then the gateway
BeginRetry(s) ==
    LET r == sess[s].id
        row == sess[s].row IN
    /\ sess[s].pc = "retry"
    /\ lock[r] = None
    /\ refund[r].version = row.version
    /\ lock' = [lock EXCEPT ![r] = s]
    /\ sess' = [sess EXCEPT ![s].pc = "gateway",
                            ![s].row = [row EXCEPT !.status = "PROCESSING", !.version = @ + 1]]
    /\ UNCHANGED <<refund, tx, started>>

\* mark_refund_complete of a bank transfer (a CREDIT_NOTE refund is
\* COMPLETED from the start, a card refund refused)
StartMarkComplete(s, r) ==
    /\ r \in RowsOf("BANK_TRANSFER") /\ refund[r].status = "INITIATED"
    /\ Read(s, "mark", r)

\* Mutant: the UPDATE does not compare versions.
MarkCompleteUnversioned(s) ==
    LET r == sess[s].id IN
    /\ sess[s].pc = "mark"
    /\ lock[r] = None
    /\ Publish(s, [refund[r] EXCEPT !.status = "COMPLETED", !.processed = refund[r].requested,
                                    !.version = @ + 1, !.completions = @ + 1])

MarkComplete(s) ==
    LET r == sess[s].id IN
    /\ sess[s].pc = "mark"
    /\ lock[r] = None
    /\ refund[r].version = sess[s].row.version
    /\ Publish(s, [refund[r] EXCEPT !.status = "COMPLETED", !.processed = refund[r].requested,
                                    !.version = @ + 1, !.completions = @ + 1])

\* apply_braintree_refund_status: read, then write without comparing versions
StartWebhook(s, r) == r \in RowsOf("CARD_REFUND") /\ Read(s, "webhook", r)

ApplyWebhook(s) ==
    LET r == sess[s].id IN
    /\ sess[s].pc = "webhook"
    /\ lock[r] = None
    /\ Publish(s, [refund[r] EXCEPT !.version = sess[s].row.version + 1])

-----------------------------------------------------------------------------
Next ==
    \/ Settle
    \/ \E s \in Sessions :
         \/ \E r \in Refunds, m \in Methods, k \in Keys \cup {None}, a \in 1..Amount :
               StartCreate(s, r, m, k, a)
         \/ LockPayment(s) \/ CommitRefund(s)
         \/ ReverseTransaction(s) \/ ReversalFails(s)
         \/ \E r \in Refunds : StartRetry(s, r) \/ StartMarkComplete(s, r) \/ StartWebhook(s, r)
         \/ BeginRetry(s) \/ MarkComplete(s) \/ ApplyWebhook(s)
         \/ Rollback(s)

Spec == Init /\ [][Next]_vars

-----------------------------------------------------------------------------
(* Properties *)

\* Every committed refund has the type of its table.
TypeOK ==
    /\ refund \in [Refunds -> RefundRow \cup {None}]
    /\ tx \in [status : {"voidable", "settled", "reversed"}, moved : 0..Amount]
    /\ lock \in [Refunds \cup {Payment} -> Sessions \cup {None}]
    /\ started \in 0..MaxRequests

\* A retried create_refund never makes a second refund under its key,
\* although both requests can pass the lookup before either has the lock.
OneRefundPerKey ==
    \A r, q \in Rows : refund[r].key = refund[q].key /\ refund[r].key # None => r = q

\* The books never claim a card refund that did not happen: whatever card
\* refunds record as processed has left the gateway, after failures, retries
\* and rollbacks on either side of the call.
CardRefundsMoved == SumOver(RowsOf("CARD_REFUND")) <= tx.moved

\* Refunds paid out as credit never exceed the payment: the sum they are
\* checked against is read under the payment's row lock.
CreditRefundsCovered == SumOver(RowsOf("CREDIT_NOTE")) <= Amount

\* A bank transfer is reported complete once, however many administrators
\* click at the same time: only the refund's version keeps them apart.
TransferCompletedOnce == \A r \in RowsOf("BANK_TRANSFER") : refund[r].completions <= 1

\* What create_refund insists on, "Payment is already fully refunded" and
\* "Partial refund amount must be less than remaining refundable amount":
\* refunds never add up to more than the payment.
NotOverRefunded == AlreadyRefunded <= Amount
=============================================================================

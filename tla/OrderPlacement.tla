--------------------------- MODULE OrderPlacement ---------------------------
(***************************************************************************)
(* How an order comes into being and is paid (app/modules/orders/service.py*)
(* create_order and submit_draft, app/modules/payments): the preflight, the*)
(* savepoint with order, invoice and pending payment, the sale at Braintree*)
(* before the commit, the draft that is published with the order, and the  *)
(* notifications Braintree sends about the sale afterwards.                *)
(*                                                                         *)
(* The wallet of the organisation is the abstract one of module Wallet:    *)
(* CreditAccount implements it (theorem WalletIsAtomic), so an order on    *)
(* credit moves it in the instant in which the order commits.              *)
(*                                                                         *)
(* Data: one organisation, one draft, all orders cost the same.  An order, *)
(* its invoice and its payment share one number, the number of the request.*)
(* Stops, packages, prices and the parties of the order are left out.      *)
(***************************************************************************)
EXTENDS Integers, FiniteSets

CONSTANTS
    Requests,       \* numbers of the requests that place an order
    Repayments,     \* idempotency keys of repayments
    Limits,         \* credit limits an administrator may set
    Amount,         \* total of an order
    Hooks,          \* handlers of notifications that can run at the same time
    MaxDeliveries,  \* bound: deliveries of notifications
    Disputes,       \* disputes a card holder may open
    None, NoKey

ASSUME OrderPlacementAssumption ==
    /\ Amount \in Nat \ {0}
    /\ Limits \subseteq Nat
    /\ MaxDeliveries \in Nat
    /\ None \notin Disputes
    /\ Requests \cap Repayments = {} /\ NoKey \notin Requests \cup Repayments

VARIABLES
    wallet, applied,    \* see module Wallet
    draft,      \* committed status of the draft, "GONE" after its deletion
    order,      \* committed orders with invoice and payment, by number
    req,        \* the transactions of the requests
    charge,     \* sales that Braintree has accepted, by payment
    lost,       \* history: sales whose request was rolled back
    seen,       \* committed rows of braintree_webhook_events
    hook,       \* the transactions of the notification handlers
    history,    \* how often each notification changed a payment
    deliveries

wvars == <<wallet, applied>>
pvars == <<draft, order, req, charge, lost>>
hvars == <<seen, hook, history, deliveries>>
vars == <<wvars, pvars, hvars>>

Ledger == INSTANCE Wallet WITH Keys <- Requests \cup Repayments, Amounts <- {Amount},
                               NoLimit <- None

\* BANK_TRANSFER stands for CASH too: the order is not paid when it is placed.
Methods == {"CREDIT_ACCOUNT", "CARD", "BANK_TRANSFER"}
Settlements == {"SETTLED", "SETTLEMENT_DECLINED"}
DisputeKinds == {"OPENED", "WON", "LOST"}

Notification == [charge : Requests, dispute : {None}, kind : Settlements]
                   \cup [charge : Requests, dispute : Disputes, kind : DisputeKinds]

NotStarted == [at |-> "new", method |-> "CARD", draft |-> FALSE]

Init ==
    /\ wallet \in [exists : {TRUE}, status : {"ACTIVE"}, limit : Limits, used : {0}]
    /\ applied = {}
    /\ draft = "PENDING"
    /\ order = << >>
    /\ req = [r \in Requests |-> NotStarted]
    /\ charge = {}
    /\ lost = {}
    /\ seen = {}
    /\ hook = [h \in Hooks |-> None]
    /\ history = [n \in Notification |-> 0]
    /\ deliveries = 0

-----------------------------------------------------------------------------
(* A request: POST /orders and POST /orders/drafts/{id}/submit.            *)

\* assert_can_consume, on an unlocked read
CanConsume ==
    wallet.status = "ACTIVE" /\ wallet.limit # None /\ wallet.used + Amount <= wallet.limit

\* submit_draft reads the status of the draft; create_order verifies the
\* payment method and runs the preflight; then the savepoint is written
Begin(r, m, fromDraft) ==
    /\ req[r].at = "new"
    /\ fromDraft => draft = "PENDING"
    /\ m = "CREDIT_ACCOUNT" => CanConsume
    /\ req' = [req EXCEPT ![r] = [at |-> IF m = "CARD" THEN "charge" ELSE "commit",
                                  method |-> m, draft |-> fromDraft]]
    /\ UNCHANGED <<wvars, hvars, draft, order, charge, lost>>

\* Mutant: submissions of one draft share one sale.
SaleOfDraft(r) ==
    IF req[r].draft /\ \E q \in charge : req[q].draft THEN charge ELSE charge \cup {r}

\* transaction_sale with the id of the pending payment as its order id
Sale(r) == charge \cup {r}

\* _precharge_saved_card_for_order succeeds, and _record_card_billing marks
\* the payment DEPOSITED, finalizes the invoice and allocates the amount
Charge(r) ==
    /\ req[r].at = "charge"
    /\ charge' = Sale(r)
    /\ req' = [req EXCEPT ![r].at = "commit"]
    /\ UNCHANGED <<wvars, hvars, draft, order, lost>>

\* Mutant: the key names the organisation and not the invoice.
ConsumeKeyOfOrganisation(r) == CHOOSE q \in Requests : TRUE

\* invoice:{id}:consume
ConsumeKey(r) == r

\* consume_credit checks again, on the locked row; a key that was applied
\* before moves nothing
PayByCredit(r) ==
    IF ConsumeKey(r) \in applied
    THEN UNCHANGED wvars
    ELSE Ledger!Consume(ConsumeKey(r), Amount)

\* What create_order leaves behind
NewOrder(r) ==
    IF req[r].method = "CARD"
    THEN [method |-> "CARD", draft |-> req[r].draft, invoice |-> "SENT",
          payment |-> "DEPOSITED", gateway |-> "SUBMITTED", dispute |-> None]
    ELSE [method |-> req[r].method, draft |-> req[r].draft, invoice |-> "DRAFT",
          payment |-> None, gateway |-> None, dispute |-> None]

\* submit_draft publishes the draft, whatever its status is by now, unless it
\* was deleted; then the request commits
Commit(r) ==
    /\ req[r].at = "commit"
    /\ IF req[r].method = "CREDIT_ACCOUNT" THEN PayByCredit(r) ELSE UNCHANGED wvars
    /\ req[r].draft => draft # "GONE"
    /\ draft' = IF req[r].draft THEN "PUBLISHED" ELSE draft
    /\ order' = [q \in DOMAIN order \cup {r} |-> IF q = r THEN NewOrder(r) ELSE order[q]]
    /\ req' = [req EXCEPT ![r].at = "done"]
    /\ UNCHANGED <<hvars, charge, lost>>

\* The request is rolled back: the card was declined, credit is no longer
\* available, the draft is gone, or the process ends.  The sale stays.
Rollback(r) ==
    /\ req[r].at \in {"charge", "commit"}
    /\ req' = [req EXCEPT ![r].at = "failed"]
    /\ lost' = lost \cup (charge \cap {r})
    /\ UNCHANGED <<wvars, hvars, draft, order, charge>>

\* delete_draft and update_draft look at no status; an update moves nothing here
DeleteDraft ==
    /\ draft # "GONE"
    /\ draft' = "GONE"
    /\ UNCHANGED <<wvars, hvars, order, req, charge, lost>>

\* The wallet moves for other reasons too
OtherWalletUse ==
    /\ \/ \E k \in Repayments : Ledger!Repay(k, Amount)
       \/ \E l \in Limits : Ledger!SetLimit(l)
       \/ \E to \in {"ACTIVE", "ON_HOLD"} : Ledger!SetStatus(None, to)
    /\ UNCHANGED <<pvars, hvars>>

-----------------------------------------------------------------------------
(* Notifications.  Braintree sends one until it gets an answer, possibly   *)
(* several times at once.  A sale is settled, or declined, hours later, and*)
(* may be disputed.                                                        *)

\* The unique indexes of braintree_webhook_events: by dispute and kind, and
\* by transaction and kind
Collide(n, m) ==
    /\ n.kind = m.kind
    /\ n.charge = m.charge \/ (n.dispute # None /\ n.dispute = m.dispute)

\* Braintree reports one outcome of a settlement and of a dispute, and a
\* dispute belongs to one sale
Consistent(n, m) ==
    /\ n.dispute # None /\ n.dispute = m.dispute => n.charge = m.charge
    /\ (n.charge = m.charge /\ n.dispute = m.dispute /\ n.kind # m.kind) => "OPENED" \in {n.kind, m.kind}

InFlight == {hook[h].n : h \in {g \in Hooks : hook[g] # None}}

\* The idempotency guard: the notification was recorded before
Receive(h, n) ==
    /\ hook[h] = None
    /\ deliveries < MaxDeliveries
    /\ n.charge \in charge /\ req[n.charge].at \in {"done", "failed"}
    /\ \A m \in seen \cup InFlight : Consistent(n, m)
    /\ deliveries' = deliveries + 1
    /\ hook' = IF \E m \in seen : m.kind = n.kind /\
                     IF n.dispute = None THEN m.charge = n.charge ELSE m.dispute = n.dispute
               THEN hook ELSE [hook EXCEPT ![h] = [n |-> n, at |-> "insert"]]
    /\ UNCHANGED <<wvars, pvars, seen, history>>

\* Mutant: there is no unique index.
NoUniqueIndex(h) == hook' = [hook EXCEPT ![h].at = "apply"] /\ UNCHANGED seen

\* Mutant: the row of the notification is committed before it is applied.
RecordedBeforeApplied(h) ==
    /\ hook' = [hook EXCEPT ![h].at = "apply"]
    /\ seen' = seen \cup {hook[h].n}

\* The insert in a savepoint waits for a transaction that has inserted the
\* same key; a duplicate is answered without doing anything
InsertEvent(h) ==
    /\ \A g \in Hooks \ {h} : hook[g] # None /\ hook[g].at = "apply"
                                 => ~Collide(hook[g].n, hook[h].n)
    /\ hook' = [hook EXCEPT ![h] = IF \E m \in seen : Collide(m, @.n) THEN None
                                   ELSE [@ EXCEPT !.at = "apply"]]
    /\ UNCHANGED seen

Record(h) ==
    /\ hook[h] # None /\ hook[h].at = "insert"
    /\ InsertEvent(h)
    /\ UNCHANGED <<wvars, pvars, history, deliveries>>

\* apply_braintree_payment_status, apply_braintree_dispute_status
Notified(o, n) ==
    IF n.dispute = None THEN [o EXCEPT !.gateway = n.kind] ELSE [o EXCEPT !.dispute = n.kind]

\* The payment of the sale is changed, if it was committed, and the handler
\* commits, the row of the notification with it
Apply(h) ==
    LET n == hook[h].n
        r == n.charge
    IN  /\ hook[h] # None /\ hook[h].at = "apply"
        /\ order' = IF r \in DOMAIN order THEN [order EXCEPT ![r] = Notified(@, n)] ELSE order
        /\ history' = IF r \in DOMAIN order THEN [history EXCEPT ![n] = @ + 1] ELSE history
        /\ seen' = seen \cup {n}
        /\ hook' = [hook EXCEPT ![h] = None]
        /\ UNCHANGED <<wvars, draft, req, charge, lost, deliveries>>

\* The handler dies before its commit
Abandon(h) ==
    /\ hook[h] # None
    /\ hook' = [hook EXCEPT ![h] = None]
    /\ UNCHANGED <<wvars, pvars, seen, history, deliveries>>

-----------------------------------------------------------------------------
Next ==
    \/ \E r \in Requests :
          \/ \E m \in Methods, d \in BOOLEAN : Begin(r, m, d)
          \/ Charge(r) \/ Commit(r) \/ Rollback(r)
    \/ DeleteDraft
    \/ OtherWalletUse
    \/ \E h \in Hooks :
          \/ \E n \in Notification : Receive(h, n)
          \/ Record(h) \/ Apply(h) \/ Abandon(h)

Spec == Init /\ [][Next]_vars

-----------------------------------------------------------------------------
OrdersBy(m) == {r \in DOMAIN order : order[r].method = m}

\* The wallet pays for exactly the orders that exist: what is used is the sum
\* of the committed orders on credit less what was repaid, whatever rolls
\* back, retries or is published twice.
WalletPaysOrders ==
    wallet.used = Amount * (Cardinality(OrdersBy("CREDIT_ACCOUNT"))
                               - Cardinality(applied \cap Repayments))

\* Money at Braintree and orders agree: every order by card has its own sale,
\* and a sale without an order belongs to a request that is still open or was
\* rolled back after the sale.
SalesMatchOrders ==
    /\ OrdersBy("CARD") \subseteq charge
    /\ \A r \in charge \ OrdersBy("CARD") : r \in lost \/ req[r].at = "commit"
    /\ lost \cap DOMAIN order = {}

\* A notification changes a payment at most once, however often and however
\* concurrently it is delivered.
NotificationAppliedOnce == \A n \in Notification : history[n] <= 1

\* The gateway status of a payment is the settlement that was recorded last
\* for its sale, and none is recorded without reaching its payment.
SettlementReachesPayment ==
    \A r \in OrdersBy("CARD") : order[r].gateway =
        IF \E n \in seen : n.charge = r /\ n.dispute = None
        THEN (CHOOSE n \in seen : n.charge = r /\ n.dispute = None).kind
        ELSE "SUBMITTED"

\* A draft becomes one order (submit_draft: `Only pending drafts can be
\* submitted').
OneOrderPerDraft == Cardinality({r \in DOMAIN order : order[r].draft}) <= 1
=============================================================================

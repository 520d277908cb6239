# Formal models of the SW-Couriers back end

The repository is the API and the worker of a courier company: a FastAPI
application over PostgreSQL (async SQLAlchemy), Redis with the arq job queue,
Braintree for cards, QuickBooks for bookkeeping and Creditsafe for credit
reports. This directory holds TLA+ models of the parts where several requests,
webhooks and jobs work on the same rows and money can be lost or counted twice,
the TLC configurations that check them, and proofs for TLAPS.

## 1. Inventory

### How the program runs

* Every HTTP request gets one database session and one transaction
  (`core/database.py`, `get_async_session`): commit when the handler returns,
  rollback on any exception. The isolation level is PostgreSQL's default, READ
  COMMITTED: each statement sees what is committed when it starts.
* Worker jobs (`workers/master.py`) open a session of their own the same way.
* Three tools protect a row from concurrent writers: `SELECT ... FOR UPDATE`;
  a `version` column compared by `BaseRepository.update_by_id` when it is given
  `expected_version`; and unique constraints. Reads take no lock.
* SQLAlchemy's identity map returns the object a session already holds. A later
  read of the same row in the session, even one with FOR UPDATE, keeps the old
  attribute values as long as something references the object.

### Components

| component | state | operations | what makes it correct |
|---|---|---|---|
| credit wallet (`modules/org_credit`) | account row, ledger, status history | consume, repay, adjust; hold, release, suspend, reactivate, close; provision on approval | no lost update, no double spend per key, no spending past the limit, a truthful history |
| credit settings (`modules/org_credit_settings`) | value, pending value and date, history rows | set now, schedule, daily job | every due value is applied, the history says what happened |
| audit chain (`modules/audit`) | rows with `prev_hash` | log inside any transaction | one linear chain without gaps |
| billing (`modules/billing`, `modules/invoices`) | payments, allocations, invoices, credit notes, applications, events | allocate, replace, remove; void, edit; webhooks; void and write off invoices; apply and void credit notes | nothing allocated or settled twice; the stored totals are the sums of the rows |
| refunds (`modules/billing`) | refund rows, the card transaction at Braintree | create by three methods, retry, mark complete, webhooks | one refund per key, never more than the payment, no booking without a movement |
| orders and stops (`modules/orders`, `modules/drivers`) | order, packages, stops, events | assign, execute, cancel, return | legal transitions; derived statuses follow the packages |
| order placement (`modules/orders`, `modules/payments`) | drafts, orders with invoice and payment, sales at Braintree, webhook events | create, submit a draft, charge, notify | the wallet pays for exactly the orders that exist; a charge has an order; a notification counts once |
| QuickBooks (`integrations/quickbooks`) | status and fingerprint per document, links with tokens | enqueue, sync, void, resync, retry | nothing is booked twice, an unchanged fingerprint means an unchanged document |
| request idempotency (`middleware/idempotency.py`) | Redis entries | claim, execute, cache, replay | a key is executed once |
| queue and worker (`core/queue.py`, `workers`) | arq queue in Redis | enqueue, run, cron | jobs are not lost |
| auth (`modules/auth`) | refresh tokens, OTPs, reset and invitation tokens | login, rotate, reset | a token is used once; limits hold |
| credit applications, alerts, monitoring, reviews, suspension (`modules/org_credit_*`) | one record each, with a life cycle | submit, decide, acknowledge, evaluate | legal transitions, one alert per cause |
| status automation (`modules/status_automation_rules`) | rules, execution log, Redis locks | evaluate an event in a job, replay a day | one rule per event, history and status agree |
| account statements (`modules/account_statements`) | schedules, statements, delivery events | create, cron, render, mail, delete | every day is stated once, only stored statements are mailed |
| suspension rules, client inactivity | rules, organisation status | nightly evaluation | automation does not undo manual decisions |
| notifications | outbox, delivery attempts | send, retry | each is sent once |
| invoices: drafts, numbers, PDFs (`modules/invoices`) | drafts, number sequence, artifacts | draft, finalize, generate | numbers are unique, artifacts fresh |
| organisations, users, admins, permissions | records | CRUD, onboarding | access rules |
| drivers, crew, vehicles, inspections, availability | records, assignments | CRUD, assign | nobody is assigned twice |
| planning, pricing, dashboards, reference data | derived | compute, read | pure or read-only |

`PROJECT.json` lists the same components with their files and status.

How they meet: orders draw on the wallet (`assert_can_consume` then
`consume_credit`) and create invoices; approvals of credit applications call
`provision_account_on_approval`; the settings job writes the account rows the
wallet locks; every status change enqueues the evaluation of the automation
rules; payments, refunds and credit notes meet on invoice and payment
rows; Braintree webhooks write payments and refunds; almost everything calls
`AuditService.log` inside its transaction and enqueues QuickBooks jobs.

### What is hard here

Interleavings of transactions around unlocked reads and versioned updates;
objects that are stale although the row is locked; external effects (card
reversals, jobs) that a rollback does not undo; idempotency keys looked up
before the lock; jobs that are in Redis before their rows are committed, get
lost, or run again after their commit; a nightly job that must survive one bad
row; clocks of several hosts. `PROJECT.json` lists each hazard at its line with the properties that
cover it.

## 2. Modules and how they correspond to the code

All models share these conventions.

* A *session* is a transaction. What it writes is invisible until its commit, so
  the writes and the commit are one action where nothing can come between them
  that another session could notice; an unlocked read whose result is used later
  is an action of its own, and so is every step that takes a lock another session
  may wait for.
* A check that fails raises, and the transaction rolls back. The action that
  passes the checks has them as its guard and `Rollback` is possible at every
  point of a transaction; it stands for failed checks, version conflicts, unique
  violations, deadlock victims and lost processes alike. The models therefore
  allow more failures than the code has.
* A row lock that is held disables the actions that need it. Deadlocks are resolved by
  `Rollback`. The weak locks that foreign keys take are left out, which only adds
  interleavings.
* Money is a number of pence. Actors, texts, timestamps and notifications are
  left out where no property depends on them.
* Requests per behaviour are bounded (`MaxRequests`), so that every run ends
  in a state with nothing left to do; the configurations say
  `CHECK_DEADLOCK FALSE` for this reason. `MCCreditSettings.cfg` does check
  deadlock: days pass for ever.

| module | models | state | actions |
|---|---|---|---|
| `CreditAccount` | `org_credit/service.py`, immediate `patch_credit_limit` | `acct`, `ledger`, `history`, `lock`, `sess` | one per operation after the lock (`ConsumeCredit`, `PlaceHold`, ...), one per unlocked part (`AssertCanConsume`, `CheckIdempotentDup`, ...), `LoadAccountLocked`, `CreateAccount`, `Rollback` |
| `Wallet` | nothing: what the wallet promises, without sessions, locks and copies | `wallet`, `applied` | `Consume`, `Repay`, `Adjust`, `SetStatus`, `SetLimit`, `Approve` |
| `CreditSettings` | `org_credit_settings/service.py` | `value`, `pending`, `hist`, `job`, `today` | `PatchNow`, `PatchLater`, `Provision`, `ListDue`, `HandleOrg`, `FailOnOrg`, `CommitJob`, `Crash`, `Tick` |
| `AuditChain` | `audit/service.py` | `committed`, `own`, `chainLock`, `clock` | `Log`, `Commit`, `Rollback` |
| `Billing` | allocations, payments, webhooks, invoice outcomes, credit notes | `pay`, `inv`, `cn`, `alloc`, `applied`, `lock`, `sess`; `misread` (history) | the phases of each handler: for a replacement `ReadCurrent` (and `ReadRemoved` before it), `ReadInvoices`, `CheckTotals`, `AwaitDelete`, `ReplaceAllocations`, `SumAllocated`, `UpdatePayment`, `RecomputeInvoice`, `CommitAllocations` |
| `Refunds` | `create_refund`, `retry_refund`, `mark_refund_complete`, refund webhook | `refund`, `tx`, `lock`, `sess` | the same, with the gateway call as a step of its own |
| `Orders` | the `orders/service.py` operations after placement, driver updates in `drivers/service.py` | `pkg`, `stop`, `orderStatus`, `lock`, `sess`; `overtaken` (history) | `StartRequest` and `ListPackages` load, one action per handler checks and flushes, then `RecomputeStop`, `FlushStop`, `RecomputeOrderStatus`, `CommitRequest`; one per driver operation; `RollbackRequest` |
| `OrderPlacement` | `create_order`, `submit_draft`, the sale, `payments/webhooks.py`; instantiates `Wallet` | `wallet`, `applied`, `draft`, `order`, `req`, `charge`, `seen`, `hook` | `Begin` (preflight and savepoint), `Charge`, `Commit`, `Rollback`, `DeleteDraft`, `OtherWalletUse`; `Receive`, `Record`, `Apply`, `Abandon` for notifications |
| `QuickBooks` | `integrations/quickbooks` with `core/queue.py` | `row`, `link`, `lock`, `remote`, `queue`, `results`, `api`, `job` | one per request that enqueues, `CommitRequest`, `RollbackRequest`; `StartJob`, one per remote call (`SyncCustomer`, `SyncDocument`, ...), `Record`, `CommitJob`, `FailJob`, `RetryJob`, `DropJob` |
| `StatusAutomation` | `status_automation_rules/service.py`, the requests that cause events | `status`, `events`, `log`, `active`, `req`, `queue`, `job`, `redis`, `replay`; `overtaken` (history) | `Load`, `ChangeStatus`, `Flush`, `CommitRequest`, `SetRuleStatus`; `StartJob`, `CheckLog`, `Execute`, `FlushJob`, `Release`, `CommitJob`, `FinishJob`, `CrashJob`, `LockExpires`; the replay |
| `AccountStatements` | `modules/account_statements` | `now`, `sched`, `runs`, `stmts`, `cron`, `req`, `jobs`, `stored`, `mailed`, `delivered` | requests; `CronStart`, `CronStep` per schedule, `CronCommit`; the steps of the two jobs; `Crash`, `Tick` |

Proofs are in modules of their own, `CreditAccountProofs` (with those of
`CreditSettings`), `OrderProofs` (`OrderPlacement` and `Orders`), `AuditBooksProofs`
(`AuditChain` and `QuickBooks`), `StatusAutomationProofs`,
`AccountStatementsProofs`, `BillingProofs`, `RefundsProofs`, and `SumTheorems` for the sums the last two need.
Where a module of proofs extends two models, the second names its specification and
its variables apart (`SettingsSpec`, `OrdersSpec`, `ChainSpec`); the two share nothing else.

How modules are composed: `CreditAccount` implements `Wallet`
(`ImplementsWallet`: the wallet is the committed account row, the applied keys are those of
the ledger), and `OrderPlacement` uses `Wallet` for the account an order on
credit draws on. So the saga is checked against the promise, and the promise is
proved of the code. `consume_credit` locks the account row until the commit of
the request, hence the wallet moves in the action `Commit`.

Details worth knowing:

* `LockedRow` in `CreditAccount`: status operations drop the object they read
  before locking, so the locked read is fresh; `provision_account_on_approval` keeps it
  in `existing`, so its locked read is stale, and its flush writes only the columns that
  differ from the values loaded. That is modelled as it is.
* In `Billing`, an invoice named in the payload keeps the version read at
  the start of the request (`seen`), one that only loses its allocation is read
  when its projection is recomputed.
* `OPEN` stands for all live payment statuses and `UNPAID` also for `OVERDUE`, which
  differs by the date only.
* In `Refunds`, `completions` is a history variable; the code has no such
  column. A transaction at Braintree can be voided in full before it settles and
  refunded after, once.
* `Orders` keeps the order of the code: load, check, flush the packages, count
  them per status with a fresh query, derive the stop's status, then the order's,
  commit. The endpoints on a stop read the stop and its packages in two
  statements. DELIVERED_TO_CUSTOMER stands for LEFT_AT_SAFE_PLACE too,
  REFUSED_BY_CUSTOMER for DAMAGED, PENDING_PICKUP for all statuses before the
  pickup. No automation rule is configured, and prices are left out.
* `rewound` in the payment row of `Billing` is history: a webhook that had read
  the payment before another writer set its version back. The three properties of
  a payment that rest on its version except such payments (section 5).
* `replace_allocations` reads the payment's allocations (`current_map`) before the invoices
  and the sums, and deletes whatever rows there are by then. A DELETE that has waited for
  another one finds the rows of its own snapshot gone and misses the new ones; which
  remain is left open (`DeletedRows`). `misread` remembers invoices from which a commit removed
  something other than what it had read: the two properties of an invoice except them, and
  `MisreadNeedsRewind` says that there are none before a webhook has set a version back.
* `overtaken` in `Orders` holds the transactions behind another one's commit: it changed
  the status of the order after they loaded it, or a package after they counted them.
* In `OrderPlacement` BANK_TRANSFER stands for CASH too: neither draws on the wallet nor
  on a card.
* A job is enqueued before the commit of the request, so `Enqueue` changes the
  queue in an action before `CommitRequest`. arq refuses an id that is
  queued, running or has a result it still keeps; `enqueue` returns None for that
  and for a Redis that is down.
* In `QuickBooks` the content of a document is a revision number; payload and
  fingerprint are functions of it. A job keeps the rows as it loaded them
  (identity map) and writes only changed columns. `lost` and `forced` are history
  variables that count what a rolled back job and a forced job left in QuickBooks;
  `resent` are the entities whose object a forced job has updated.
* In `StatusAutomation` the id of an event of a stop or an order is 0, which
  stands for the text `None`: sessions are created with `autoflush=False`
  (`core/database.py:38`), so the id is read before it exists. Packages flush
  before they enqueue (`orders/repository.py`). Requests and jobs overlap; each compares and
  sets the copy it has loaded, and the ORM updates the row only if that changed the
  copy. `Unchecked` are the statuses that a stop is given, and its history with it, without
  comparing: DELIVERY_SCHEDULED (`orders/service.py:2805` and `3405`). A session is in
  `overtaken` when the row it loaded has been updated since; an event has `stale` set when
  such a session recorded it without an UPDATE.
* In `AccountStatements` a day has three parts, and runs fall due at the second
  (06:00). Months and quarters are sets of days given by the instance. Time
  passes only while no transaction is open and no job is queued: they take
  minutes. `QUARTERLY` is written down but not instantiated; it differs from
  `MONTHLY_FIRST` by its calendar.
* Operators marked `Mutant` are not part of a specification: each is a plausible
  wrong version of the definition after it, which TLC must reject.

## 3. Runs

| run | instance | shows |
|---|---|---|
| `credit_account` | 2 sessions, 4 requests, amounts and limits 1..2, one key | `WalletMatchesLedger`, `LedgerChain`, `KeyAppliedOnce`, `HistoryMatchesStatus`, `SpendWithinLimit`, `ClosedReopenedOnlyByApproval`, and the refinement `ImplementsWallet` |
| `credit_settings` | 2 organisations, 3 dates, 2 history rows, a crash | `PendingHasRow`, `AppliedRowIsTrue`, `DueAppliedIfUnambiguous` |
| `audit_chain` | 3 transactions, 5 rows, one clock | `NoFork`, `NoDanglingHash` |
| `billing` | 2 card payments, 2 invoices, 1 credit note, 2 sessions, 4 requests | `PaymentNotOverAllocated`, `PaymentProjectionTrue`, `VoidedPaymentUnallocated`, `CreditNoteNotOverApplied`, `InvoiceNotOverPaid`, `InvoiceProjectionTrue`, `VoidedCreditNoteFrozen` |
| `billing_webhook` | 1 card payment, 2 invoices, 3 sessions, 4 requests | `InvoiceProjectionTrue`, `MisreadNeedsRewind` |
| `refunds` | 2 sessions, 3 refunds, 5 requests | `OneRefundPerKey`, `CardRefundsMoved`, `CreditRefundsCovered`, `TransferCompletedOnce` |
| `orders` | 2 requests at a time, 4 requests, the 2 packages of a stop, after an attempt that found nobody home | `OrderReflectsPackages`, `InitiatedIsStamped`, `InTransitStopIsResolved` |
| `order_placement` | 2 requests on one draft, limits for one and for two orders, 1 repayment, 2 handlers, 3 deliveries, 2 disputes | `WalletPaysOrders`, `SalesMatchOrders`, `NotificationAppliedOnce`, `SettlementReachesPayment` |
| `order_placement_draft` | the same | violation of `OneOrderPerDraft` |
| `quickbooks` | 3 documents, 2 requests, 2 jobs at a time, 2 tries, 1 fault; from nothing and from a synced invoice | `NoDoubleBooking`, `FingerprintTruthful`, `JobsNotStuck` |
| `status_automation` | 2 sessions, 1 package, 1 stop, rules of which one customises a global one, 2 requests, 1 switch of a rule, 2 crashes, 2 tries | `OneRulePerEvent`, `DriftNeedsStaleRepeat` |
| `account_statements` | an interval, a monthly and a one-time schedule over 4 days, 1 request of a person, 2 statements, 1 fault, 1 try | `EveryDayStatedOnce`, `MailedIsStored` |

Why the bounds are enough: every conflict in this code is between two
transactions; a third and a fourth request set up the state they meet in
(an account, a first allocation) or use the result. The exception, two replacements and
a webhook, is the run `billing_webhook`. An amount of 2 distinguishes
nothing, part and all. Jobs meet at most one other job of their entity and one
open request; a second try reaches every state that a repetition can find. The
statements need a month's end within the days checked, a run that comes late
and one that fails: four days, three schedules and one fault contain them.
Sessions, payments, invoices and credit notes of equal amount are
interchangeable, and so are the packages of one stop, webhook handlers and
disputes, hence the symmetry sets; none is used in a run with a liveness
property.

Fairness is used in `CreditSettings` only: `WF(Tick)`, days pass, and
`WF(JobStep)`, the arq scheduler starts the job every day at 00:05
(`workers/master.py`) and the worker runs it to its end unless it crashes. A
run that raises is not retried that day: arq retries only `Retry` and
cancellation, and the task raises neither.

## 4. What is proved

`CreditAccountProofs` proves, for any sets of sessions, keys, amounts and limits,
that the type invariant (`TypeCorrect`) and the six properties of the wallet hold:
`WalletConsistent`, `LedgerIsChain`, `Idempotent`, `HistoryTruthful`,
`SpendingIsCovered` and `ClosedIsFinal`. The inductive invariant `IInv` is the
conjunction of

* `TypeOK`;
* `LockInv`: a session that is writing holds the lock, so there is at most one;
* `AbsentInv`: without an account row there is no ledger, no history, nothing used;
* `SnapInv`: the copy of a session that writes is the committed row, except
  for an approval, whose copy may be stale;
* `DeltaInv`: only repayments and adjustments carry a negative amount.

`SnapInv` is the point: it says where the stale copy matters and where it does
not. The wallet properties follow because money operations always work on the
committed row; the history is true because an approval writes the status only
together with its history row.

`WalletIsAtomic` proves that `CreditAccount` implements `Wallet`: the initial state
maps to the initial wallet and every step to a step of the wallet or a stutter.
Beside `IInv` it needs `RequestInv`, which says that the amounts, keys and limits a
session carries are of the sets the wallet allows, because the abstract step has
to name them. The steps that move money map to `Consume`, `Repay` and `Adjust` by
`SnapInv`; an approval with a stale copy maps to `Approve`, whose two choices of
limit and status are exactly the columns its flush may leave out. What a caller may
rely on is therefore this module and not the locking behind it.

The same module proves `PendingHasRow` (`PendingIsRecorded`) and the action property
`AppliedRowIsTrue` (`AppliedIsTrue`) of `CreditSettings`, whose settings are columns
of the account's row, for any organisations, values, dates and crashes. `SettingsInv` is the
type with `PendingHasRow`, which is inductive: the job changes only rows of settings
it clears in the same commit. That a marked row is true then follows, because the lookup
that found one row found the one `PendingHasRow` promises.

`AuditBooksProofs` proves `NoFork` (`ChainIsLinear`) and `NoDanglingHash`
(`ChainIsComplete`) for any number of transactions, under the assumption `NoSkew` (all clocks agree); with
`MaxSkew = 2` in `MCAuditChain.cfg` TLC finds a fork, so it is needed. Its invariant says that uncommitted rows
belong to the holder of the lock, that `created_at` and ids grow together and that
every visible row but the newest has exactly one successor.

`OrderProofs` proves the four properties of `OrderPlacement` (`WalletPays`,
`SalesMatch`, `HandlerIdempotent`, `SettlementIsTold`) for any number of requests,
repayments, handlers and disputes. Its invariant follows an order from its request: it
exists exactly when the request has committed (`OrderInv`), its sale before that (`SaleInv`), the
keys applied to the wallet are those of the committed orders on credit and of the
repayments (`KeyInv`). For the notifications: a handler past its insert holds the unique
keys, so its notification is not recorded and no other handler can record it (`UniqueInv`);
what was applied has been recorded (`CountInv`); notifications are about requests that are
over and do not contradict each other (`NewsInv`); and a payment shows the settlement recorded for
its sale (`GatewayInv`).

It also proves the three properties of `Orders` for any packages, stops, numbers of
requests and overlapping sessions: `InitiatedIsStamped` (`ReturnsAreStamped`), `InTransitStopIsResolved`
(`ReturnsAreResolved`) and `OrderReflectsPackages` (`OrderFollowsPackages`). `StampInv` says of each
transaction what it may still do to the stamps: what it loaded as stamped is stamped
(`LoadedOK`), and a package it moves onto the return leg belongs to a stop that is stamped,
or that it stamps itself before it commits (`WritesOK`). Since no request takes a stamp
away, the commits of others disturb neither. For the third, `TrackInv` says of a transaction
that nobody has overtaken that the status of the order it loaded is still the committed one,
and that the status it has derived is that of the packages as its commit will leave them; an
overtaken one promises nothing, and section 5 shows what it can do.

`StatusAutomationProofs` proves `OneRulePerEvent` (`EventExecutedOnce`) and
`DriftNeedsStaleRepeat` (`StatusDriftsOnlyByStaleRepeat`) for all rules, entities, sessions and numbers of
crashes. The point of the first is `ChosenInv`: a job that has chosen a rule and not committed has an event that nobody
has logged. It does not mention the Redis lock, whose expiry therefore costs nothing: what
keeps two jobs of one event apart is that arq runs one job per id, and what stops a second
run is the log. The second needs two facts about copies: one that nobody has overtaken is
the committed status (`CopyInv`), so a request that repeats it records the truth; and a job
records a transition only if it also updates the row (`JobSound`), because the rule does nothing
when the status it loads is the one it would set.

`AccountStatementsProofs` proves `MailedIsStored` (`MailedStored`) and `EveryDayStatedOnce`
(`DaysStatedOnce`) for all schedules and calendars. The first needs that a job about to
mark a statement READY has stored its PDF; the second (`Together`) that the table of
schedules and the table of runs agree, committed as well as inside the open transaction
of the cron: periods of one schedule are equal or disjoint, and for an interval every day
up to the last run is stated or is a run's own. It assumes of the calendar that every month and quarter
in use has a predecessor, and that no schedule row is `None` (`RowAssumption`).

`AuditBooksProofs` also proves `NoDoubleBooking` (`NothingBookedTwice`) and `FingerprintTruthful`
(`FingerprintIsTrue`) of `QuickBooks` for any number of requests, jobs at a time, tries and faults.

* `BooksInv`, for the first: every link and every answer points to an object of its
  entity (`LinksOK`, `OwnOK`); a job's plan brings the customer first, unless it only voids
  (`PlanOK`); what a job has written it holds until it ends; and what a job has created
  it has recorded or is about to record, while it holds the customer's link (`CreatedOK`).
  So no two jobs have a created and uncommitted object at the same time. `CountOK`
  counts: an entity with neither a link nor such an object has only what forced and
  rolled back jobs left, and then one more may be created.
* `FingerprintInv`, for the second: a token never goes back, and the payload of an object
  stays while its token does. Three places hold a token: the committed link, the link a job has
  written (`FpLinksOK`), and an answer it has not recorded yet (`FpCallOK`). Each says which
  fingerprint the row has, or will have when the job commits, provided the token is still current. An answer
  from an unchanged or voided row leaves the fingerprint to others, so it must not be
  recorded once the link has changed; that is the version check of `upsert_mapping`.

The attempt to prove `FingerprintTruthful` as it stood refuted it: with three requests, which
the run does not reach, a forced payment job that loaded its row before another job
committed sends the older payload over the newer one, and writes no
fingerprint, because the old one looks unchanged to it. A second payment object is not created, so
`forced` does not show it. The history variable `resent` remembers
documents that a forced job has updated, and the property excepts them.

`SumTheorems` has the lemmas on `SumFunction` that the money proofs rest on: a sum changes
with one summand by the difference, sums of sums, monotonicity. They are proved from the
definition of the fold by induction over the subsets of a finite set, stated with the set of
counterexamples and a minimal element of it, because the provers cannot instantiate an induction
theorem's operator.

`BillingProofs` proves all eight properties of `Billing` for any sessions, payments,
invoices, credit notes and amounts (`PaymentKept`, `PaymentProjected`, `VoidedIsEmpty`,
`MisreadOnlyAfterRewind`, `InvoiceKept`, `InvoiceProjected`, `CreditNoteKept`, `VoidedStaysFrozen`). `RowsInv` is what the committed
tables promise, `ReplaceInv` that at most one request replaces the allocations of a
payment, and `SessInv` what a request in progress may rely on. A request holds a row's lock
from its write to its end; for a row it has only read it has a version, and what it computed
from that row is true as long as the row still has this version. `Respects` is what a step of another
session may do to these facts: leave locked rows alone, and raise the version of
every other row it writes. The webhook is the one writer that does not, so
payments it has set back (`rewound`) are excepted, as in the properties. For the others
a replacement whose version check succeeds has deleted what it had read, since every change of the
allocations raises the version; this is `MisreadOnlyAfterRewind`, and the invoices it
speaks of are exactly those for which `InvoiceKept` and `InvoiceProjected` hold.

`RefundsProofs` proves the four properties of `Refunds` (`KeyUsedOnce`,
`CardRefundsAreReal`, `CreditRefundsFit`, `TransferOnce`) for any sessions, keys,
refunds and amount. Until its row is committed a refund belongs to one request (`OwnInv`), which from the check of the
key and the sum on holds the payment's lock (`CreateInv`); a retry or a completion is good while the
refund's version is the one read (`RetryInv`, `MarkInv`). `MovedInv` ties the books to the gateway:
the transaction is reversed at most once, and at most one committed row or one open request
records it. A rollback after the reversal loses the record, which is why the property is
an inequality.

Every inductive invariant was checked with TLC on the instance of a run (for `Billing` and `Orders` with 3
requests, for `StatusAutomation` with one crash, for `QuickBooks` also with 3 requests, one try and no fault) before it was proved. The
bounds on requests, faults, days and on the amount one request allocates (`MaxTarget`) are parameters of the theorems
like all other constants: the proofs hold for every value of them.

Only model-checked: the liveness of the settings job (`DueAppliedIfUnambiguous`), and
`JobsNotStuck` of `QuickBooks`, which contains ENABLED; both are outside the prover's reach. Every other
property of a passing run is a theorem.

## 5. Where the code and its own statements disagree

With a run, `order_placement_draft`: two submissions of one draft that overlap both
read it as PENDING, and both create and charge an order
(`orders/service.py:1018`, "Only pending drafts can be submitted").

With a configuration that is not part of the regular runs; TLC finds the property violated:

* `MCCreditSettingsDue.cfg` (`MCCreditSettings`, `DueApplied`): scheduling twice for one date makes
  the daily job fail for every organisation from that date on, because
  `find_scheduled_by_account_and_effective_date` raises on two rows. A test expects the
  limit to be promoted (`tests/organizations/credit/test_org_credit_limit_and_terms_scheduling.py:145`).
* `MCBillingRewound.cfg` (`MCBilling`, `NeverOverAllocated`): gateway webhooks write the payment without
  comparing versions and can set the version back, which lets a stale allocation
  pass, against `common/models.py:55`: "Every UPDATE must include `WHERE version = :expected_version`".
* `MCBillingStaleMap.cfg` (`MCBilling`, `NeverOverPaid`): the same webhook lets a replacement through
  whose map of allocations is stale. What the other payments hold on an invoice then comes out
  too low and the invoice is over-paid; and rows that are not in the map are deleted without
  their invoice being recomputed, so that its paid amount and status are wrong ("allocation exceeds
  invoice outstanding balance" is what the code means to refuse, `billing/service.py:2670`).
* `MCRefundsTwice.cfg` (`MCRefunds`, `NotOverRefunded`): refunds that are not processed yet do not count
  against the payment ("Payment is already fully refunded", `billing/service.py:1175`).
* `MCOrdersAwaiting.cfg` (`MCOrders`, `AwaitingCanBeResolved`): the stop's resolution is recorded when no
  package awaits one, and is never removed; a package returned later can no
  longer be resolved.
* `MCOrdersCancels.cfg` (`MCOrders`, `OrderAlwaysReflects`): nothing locks an order. Two cancellations of
  different stops that overlap each count the packages of the other as they were; every
  package ends up CANCELLED and the order keeps its status. `OrderReflectsPackages` is therefore
  about requests that nobody overtakes.
* `MCOrdersDelivered.cfg` (`MCOrders`, `DeliveredNotCancelled`): a cancellation, which "fails if any package is
  already delivered" (`orders/v1/docs.py`), overwrites a delivery that the driver commits
  between its check and its flush.
* `MCOrdersResolves.cfg` (`MCOrders`, `MetadataWithLastResolve`): when the last two packages of a return are
  resolved at once the stop never records the resolution, against "set when the last
  RETURN_INITIATED package on that stop is resolved" (`orders/v1/docs.py`). Two resolutions that overlap
  can also replace each other.
* `MCStatusAutomationHistory.cfg` (`MCStatusAutomation`, `HistoryExplainsStatus`): a stop that is DELIVERY_SCHEDULED is
  rescheduled while another request changes it. The event is recorded, the ORM sees no change
  and emits no UPDATE, and the history ends in a status the stop does not have.
* `MCStatusAutomationReplay.cfg` (`MCStatusAutomation`, `ReplayedEventsExecuted`): the nightly replay, "safety-net
  reconciliation" (`status_automation_rules/service.py:578`), names `DeliveryStop`, which its
  module does not import; the NameError at line 636 rolls back what it did for the packages.
  The test replaces the method by a mock (`tests/status_automation_rules/test_status_automation_tasks.py:33`).
* `MCAccountStatements.cfg` with `PROPERTY OnceRunsOnce` or `PROPERTY CronRunsAllDue` in place
  of its invariants. "Single CUSTOM run on `valid_to`" (`scheduling.py:241`): after the run the next one is
  computed as a second later, so the schedule runs at every cron of the day and mails
  again each time arq has forgotten the last job. "Run all schedules whose `next_run_at` has passed" (`service.py:488`):
  all of them run in one transaction, and an interval schedule on its first day has no
  day to state, which raises; nobody's schedules run until that one is out of
  the way. The same holds for a monthly schedule that was missed on the 1st
  and for a one-time schedule over more than 366 days.

In the same models, without a configuration of their own:

* An approval that read the account before it was suspended or closed commits
  without making it ACTIVE, although its docstring says so (`SnapInv` excepts
  approvals for this reason).
* The predecessor of an audit row is the row with the latest `created_at`, which
  is not the latest row when clocks differ (set `MaxSkew = 2`).
* Voiding a credit note misses an application that commits between its unlocked
  read of the applied total and its update, and bills nothing again.
* `OrderPlacement`: a request that fails after the sale, or whose draft is deleted
  while the card is charged, leaves a charge and nothing in the database to find
  it by (`lost`). The unique index on transaction and kind (`payments/models.py:108`) also drops
  the notification of a second dispute of one sale. Of disputes, the last one
  that arrives is what the payment shows.
* `QuickBooks`: a document is QUEUED although its job was lost, and is then not enqueued
  again unless forced; the FAILED status that an error sets is rolled back with
  the job; a job that started late may send an older revision after a newer one,
  until the next sync notices the fingerprint. `FingerprintTruthful` excepts documents
  that were synced by force: that creates a second object, or updates a payment,
  and keeps a fingerprint that looks unchanged. A rolled back job leaves its objects in QuickBooks, and the
  retry creates them again (`lost`).
* `StatusAutomation`: all events of stops and orders share the job id and the
  event id `None`, so at most one of them is ever executed. An event whose entity is
  locked is skipped for good. A rule is executed for a change that was rolled back
  after its job had been enqueued.
* `AccountStatements`: the day of a run belongs to no statement of an interval
  schedule. A job that starts before the commit finds no statement and ends, the
  statement stays GENERATING and its mail is lost. Two active statements for one period,
  which two requests at once can create, make every later lookup raise. A mail
  that went out before its delivery event was committed does not stop the
  deletion of the statement.

Read in the code: `FAILED_PACKAGE_STATUSES` contains CANCELLED, which
`_resolve_order_status_from_packages` also counts by itself, so one delivered and one
cancelled package never make an order PARTIALLY_DELIVERED; a stop with one
RETURNED and one DISPOSED package gets no final status; driver updates never
re-derive the status of stop and order. And `issue_credit_note_for_refund` returns at once for
a COMPLETED refund, and `create_refund` makes every CREDIT_NOTE refund COMPLETED,
so no credit note is ever issued through it.

## 6. What is not modelled, and the plan

Not modelled for good: dashboards and other read models, PDFs, e-mail and file
contents, pricing and route computation (pure functions over external data),
CRUD of reference data, permissions.

Left out of the modelled parts: saving and deleting cards and 3-D Secure, OAuth and
the sync log of QuickBooks, editing of automation rules, route stops and proofs of
delivery. They are single-row records or calls without a protocol of their own.

Planned, in this order:

1. Authentication: rotation and reuse of refresh tokens, OTP attempt limits.
2. Nightly evaluations: suspension rules and inactivity against manual changes.
3. Invoice PDF artifacts, credit applications, alerts and their de-duplication.
4. An atomic allocation book that `Billing` implements without webhooks.

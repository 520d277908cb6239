--------------------------- MODULE CreditAccount ---------------------------
(***************************************************************************)
(* The credit wallet of one organisation (app/modules/org_credit): the     *)
(* account row, the append-only ledger, the append-only status history,    *)
(* and the requests that work on them concurrently.                        *)
(*                                                                         *)
(* A request is one database transaction (READ COMMITTED): it reads        *)
(* without a lock, takes the row lock with SELECT ... FOR UPDATE, writes,  *)
(* and publishes everything at its commit.  Writes are invisible to other  *)
(* sessions until then, so an operation's writes and its commit are one    *)
(* action; the unlocked reads and the wait for the lock are actions of     *)
(* their own, and that is where requests interleave.                       *)
(***************************************************************************)
EXTENDS Integers, Sequences

CONSTANTS
    Sessions,     \* database sessions: API requests and worker jobs
    NoSession,    \* holder of a free row lock
    Keys,         \* idempotency keys
    NoKey,        \* a movement recorded without a key (idempotency_key IS NULL)
    Amounts,      \* money amounts of a movement, in pence
    Limits,       \* credit limits an administrator may set
    NoLimit,      \* credit_limit IS NULL
    MaxRequests   \* bound: requests started in a behaviour

ASSUME ConstantsAssumption ==
    /\ NoSession \notin Sessions
    /\ NoKey \notin Keys
    /\ Amounts \subseteq Nat \ {0}
    /\ Limits \subseteq Nat
    /\ NoLimit \notin Int
    /\ MaxRequests \in Nat

VARIABLES
    acct,      \* the committed row of org_credit_accounts
    ledger,    \* committed org_credit_ledger_entries, in insertion order
    history,   \* committed org_credit_status_history, in insertion order
    lock,      \* holder of the row lock of acct
    sess,      \* what each session is doing
    started    \* requests started so far

vars == <<acct, ledger, history, lock, sess, started>>

Statuses == {"ACTIVE", "ON_HOLD", "SUSPENDED", "CLOSED"}
StatusOps == {"HOLD", "RELEASE", "SUSPEND", "REACTIVATE", "CLOSE"}
MoneyOps == {"CONSUME", "REPAY", "ADJUST"}
Ops == StatusOps \cup MoneyOps \cup {"LIMIT", "PROVISION"}

\* Operations that insert the account row when they find none.
Creators == StatusOps \cup {"PROVISION"}

Row == [exists : BOOLEAN,
        status : Statuses,
        limit  : Limits \cup {NoLimit},
        used   : Nat]

\* delta is the signed amount of the movement, which the code's ledger
\* row leaves implicit in the difference of two used_credit_after values.
LedgerEntry == [type : MoneyOps, key : Keys \cup {NoKey},
                delta : Int, usedAfter : Nat]

StatusChange == [from : Statuses, to : Statuses]

\* pc    : idle, at the idempotency lookup, waiting for the lock, holding it
\* limit : the limit a LIMIT or PROVISION request carries
\* snap  : the row as the session's identity map has it
Session == [pc    : {"idle", "dup", "lock", "write"},
            op    : Ops,
            key   : Keys \cup {NoKey},
            delta : Int,
            limit : Limits \cup {NoLimit},
            snap  : Row]

NoAccount == [exists |-> FALSE, status |-> "ACTIVE", limit |-> NoLimit, used |-> 0]

Idle == [pc |-> "idle", op |-> "HOLD", key |-> NoKey, delta |-> 0,
         limit |-> NoLimit, snap |-> NoAccount]

Init ==
    /\ acct = NoAccount
    /\ ledger = << >>
    /\ history = << >>
    /\ lock = NoSession
    /\ sess = [s \in Sessions |-> Idle]
    /\ started = 0

-----------------------------------------------------------------------------
(* Helpers *)

\* _available_credit
AvailableCredit(row) == IF row.limit = NoLimit THEN 0 ELSE row.limit - row.used

\* get_by_org_and_idempotency_key: the unique partial index on (org, key)
KeyUsed(k) == k # NoKey /\ \E i \in 1..Len(ledger) : ledger[i].key = k

\* A new transaction of session s.
Start(s, r) ==
    /\ sess[s].pc = "idle"
    /\ started < MaxRequests
    /\ started' = started + 1
    /\ sess' = [sess EXCEPT ![s] = r]
    /\ UNCHANGED <<acct, ledger, history, lock>>

\* COMMIT: the session is done and its row lock is released.
Commit(s) ==
    /\ lock' = NoSession
    /\ sess' = [sess EXCEPT ![s] = Idle]
    /\ UNCHANGED started

\* _append_ledger, part of the transaction that moved used_credit
AppendLedger(s, used) ==
    ledger' = Append(ledger, [type |-> sess[s].op, key |-> sess[s].key,
                              delta |-> sess[s].delta, usedAfter |-> used])

-----------------------------------------------------------------------------
(* Requests before they hold the row lock *)

\* assert_can_consume, the unlocked preflight of an order paid on account
AssertCanConsume(s, k, a) ==
    /\ acct.exists
    /\ acct.status = "ACTIVE"
    /\ acct.limit # NoLimit
    /\ AvailableCredit(acct) >= a
    /\ Start(s, [Idle EXCEPT !.pc = "dup", !.op = "CONSUME", !.key = k, !.delta = a])

\* repay_credit up to its idempotency lookup
StartRepay(s, k, a) ==
    Start(s, [Idle EXCEPT !.pc = "dup", !.op = "REPAY", !.key = k, !.delta = -a])

\* manual_adjust_used up to its idempotency lookup; the key is optional
StartAdjust(s, k, d) ==
    Start(s, [Idle EXCEPT !.pc = "dup", !.op = "ADJUST", !.key = k, !.delta = d])

\* _check_idempotent_dup finds no entry: go on to the lock
CheckIdempotentDup(s) ==
    /\ sess[s].pc = "dup"
    /\ ~KeyUsed(sess[s].key)
    /\ sess' = [sess EXCEPT ![s].pc = "lock"]
    /\ UNCHANGED <<acct, ledger, history, lock, started>>

\* _check_idempotent_dup finds an entry: the operation returns the wallet
\* unchanged and the surrounding transaction commits without a movement
ReturnDup(s) ==
    /\ sess[s].pc = "dup"
    /\ KeyUsed(sess[s].key)
    /\ sess' = [sess EXCEPT ![s] = Idle]
    /\ UNCHANGED <<acct, ledger, history, lock, started>>

\* get_or_create_account reads the row; what it read decides only whether
\* the request will insert one, because its result is dropped
StartStatusOp(s, o) ==
    Start(s, [Idle EXCEPT !.pc = "lock", !.op = o, !.snap = acct])

\* patch_credit_limit with an effective date that has come
StartPatchCreditLimit(s, l) ==
    Start(s, [Idle EXCEPT !.pc = "lock", !.op = "LIMIT", !.limit = l, !.snap = acct])

\* provision_account_on_approval reads the row into `existing` and keeps it
StartProvision(s, l) ==
    Start(s, [Idle EXCEPT !.pc = "lock", !.op = "PROVISION", !.limit = l, !.snap = acct])

-----------------------------------------------------------------------------
(* The row lock *)

\* Mutant: every request gets the row as it first read it.
StaleLockedRow(s) == IF sess[s].snap.exists THEN sess[s].snap ELSE acct

\* What the locked read returns.  The session's identity map hands back an
\* object it still references: provision_account_on_approval holds
\* `existing`, so its FOR UPDATE read keeps the earlier values.
LockedRow(s) ==
    IF sess[s].op = "PROVISION" /\ sess[s].snap.exists THEN sess[s].snap ELSE acct

\* _load_account_locked on an existing row; a request that meant to create
\* the row and lost the race fails on the unique organization_id instead
LoadAccountLocked(s) ==
    /\ sess[s].pc = "lock"
    /\ lock = NoSession
    /\ acct.exists
    /\ sess[s].op \in Creators => sess[s].snap.exists
    /\ lock' = s
    /\ sess' = [sess EXCEPT ![s].pc = "write", ![s].snap = LockedRow(s)]
    /\ UNCHANGED <<acct, ledger, history, started>>

\* The INSERT of get_or_create_account or provision_account_on_approval:
\* ACTIVE, nothing used, and the configured or the approved limit.  The
\* uncommitted row locks out every other creator.
CreateAccount(s, l) ==
    /\ sess[s].pc = "lock"
    /\ lock = NoSession
    /\ ~acct.exists
    /\ sess[s].op \in Creators
    /\ sess[s].op = "PROVISION" => l = sess[s].limit
    /\ lock' = s
    /\ sess' = [sess EXCEPT ![s].pc = "write",
                            ![s].snap = [exists |-> TRUE, status |-> "ACTIVE",
                                         limit |-> l, used |-> 0]]
    /\ UNCHANGED <<acct, ledger, history, started>>

\* Any exception (a failed check, a missing account, a unique violation, a
\* lost worker): the transaction rolls back and the lock is released.
Rollback(s) ==
    /\ sess[s].pc # "idle"
    /\ lock' = IF lock = s THEN NoSession ELSE lock
    /\ sess' = [sess EXCEPT ![s] = Idle]
    /\ UNCHANGED <<acct, ledger, history, started>>

-----------------------------------------------------------------------------
(* Requests that hold the row lock: their writes and their commit *)

Holding(s, o) == sess[s].pc = "write" /\ lock = s /\ sess[s].op = o

\* Mutant: only the lookup before the lock looks at the key.
MoveUsedAnyKey(s, used) ==
    /\ sess[s].snap.status = "ACTIVE"
    /\ acct' = [acct EXCEPT !.used = used]
    /\ AppendLedger(s, used)
    /\ Commit(s)
    /\ UNCHANGED history

\* Moving used_credit: the new value, its ledger row and the unique index
MoveUsed(s, used) ==
    /\ sess[s].snap.status = "ACTIVE"
    /\ ~KeyUsed(sess[s].key)
    /\ acct' = [acct EXCEPT !.used = used]
    /\ AppendLedger(s, used)
    /\ Commit(s)
    /\ UNCHANGED history

\* Mutant: the preflight's check of the limit is taken as enough.
ConsumeUnchecked(s) ==
    /\ Holding(s, "CONSUME")
    /\ MoveUsed(s, sess[s].snap.used + sess[s].delta)

ConsumeCredit(s) ==
    LET used == sess[s].snap.used + sess[s].delta IN
    /\ Holding(s, "CONSUME")
    /\ sess[s].snap.limit # NoLimit
    /\ used <= sess[s].snap.limit
    /\ MoveUsed(s, used)

\* Mutant: a repayment may exceed what is used.
RepayTooMuch(s) ==
    /\ Holding(s, "REPAY")
    /\ MoveUsed(s, sess[s].snap.used + sess[s].delta)

RepayCredit(s) ==
    /\ Holding(s, "REPAY")
    /\ sess[s].snap.used >= -sess[s].delta
    /\ MoveUsed(s, sess[s].snap.used + sess[s].delta)

\* Mutant: an adjustment below zero is clamped and recorded in full.
AdjustClamped(s) ==
    LET used == sess[s].snap.used + sess[s].delta IN
    /\ Holding(s, "ADJUST")
    /\ sess[s].snap.limit # NoLimit => used <= sess[s].snap.limit
    /\ MoveUsed(s, IF used >= 0 THEN used ELSE 0)

ManualAdjustUsed(s) ==
    LET used == sess[s].snap.used + sess[s].delta IN
    /\ Holding(s, "ADJUST")
    /\ used >= 0
    /\ sess[s].snap.limit # NoLimit => used <= sess[s].snap.limit
    /\ MoveUsed(s, used)

\* A status transition: row and history row in one transaction.  The row
\* written back is the locked one, which is the new row for a creator.
ChangeStatus(s, to) ==
    /\ acct' = [sess[s].snap EXCEPT !.status = to]
    /\ history' = Append(history, [from |-> sess[s].snap.status, to |-> to])
    /\ Commit(s)
    /\ UNCHANGED ledger

PlaceHold(s) ==
    /\ Holding(s, "HOLD")
    /\ sess[s].snap.status = "ACTIVE"
    /\ ChangeStatus(s, "ON_HOLD")

ReleaseHold(s) ==
    /\ Holding(s, "RELEASE")
    /\ sess[s].snap.status = "ON_HOLD"
    /\ ChangeStatus(s, "ACTIVE")

\* suspend_account on an account that is suspended already returns and the
\* transaction commits with nothing written; a CLOSED one is an error
SuspendAccount(s) ==
    /\ Holding(s, "SUSPEND")
    /\ sess[s].snap.status # "CLOSED"
    /\ IF sess[s].snap.status = "SUSPENDED"
       THEN Commit(s) /\ UNCHANGED <<acct, ledger, history>>
       ELSE ChangeStatus(s, "SUSPENDED")

\* Mutant: whatever is not ACTIVE can be reactivated.
ReactivateAny(s) ==
    /\ Holding(s, "REACTIVATE")
    /\ sess[s].snap.status # "ACTIVE"
    /\ ChangeStatus(s, "ACTIVE")

ReactivateAccount(s) ==
    /\ Holding(s, "REACTIVATE")
    /\ sess[s].snap.status \in {"SUSPENDED", "ON_HOLD"}
    /\ ChangeStatus(s, "ACTIVE")

CloseAccount(s) ==
    /\ Holding(s, "CLOSE")
    /\ sess[s].snap.status # "CLOSED"
    /\ ChangeStatus(s, "CLOSED")

\* patch_credit_limit writes the limit whatever has been used already
PatchCreditLimit(s) ==
    /\ Holding(s, "LIMIT")
    /\ acct' = [acct EXCEPT !.limit = sess[s].limit]
    /\ Commit(s)
    /\ UNCHANGED <<ledger, history>>

\* Mutant: an approval always writes the status, and the history row only
\* when its copy of the row shows a change.
ProvisionStatusAlways(s) ==
    /\ Holding(s, "PROVISION")
    /\ acct' = [exists |-> TRUE, status |-> "ACTIVE", limit |-> sess[s].limit,
                used |-> acct.used]
    /\ history' = IF sess[s].snap.status # "ACTIVE"
                  THEN Append(history, [from |-> sess[s].snap.status, to |-> "ACTIVE"])
                  ELSE history
    /\ Commit(s)
    /\ UNCHANGED ledger

\* provision_account_on_approval.  The flush writes only the columns that
\* differ from the values the object was loaded with.
ProvisionAccount(s) ==
    LET snap == sess[s].snap
        row  == IF acct.exists THEN acct ELSE snap IN
    /\ Holding(s, "PROVISION")
    /\ acct' = [row EXCEPT
                  !.limit  = IF sess[s].limit # snap.limit THEN sess[s].limit ELSE @,
                  !.status = IF snap.status # "ACTIVE" THEN "ACTIVE" ELSE @]
    /\ history' = IF snap.status # "ACTIVE"
                  THEN Append(history, [from |-> snap.status, to |-> "ACTIVE"])
                  ELSE history
    /\ Commit(s)
    /\ UNCHANGED ledger

-----------------------------------------------------------------------------
Begin(s) ==
    \/ \E k \in Keys, a \in Amounts : AssertCanConsume(s, k, a) \/ StartRepay(s, k, a)
    \/ \E k \in Keys \cup {NoKey}, a \in Amounts :
          StartAdjust(s, k, a) \/ StartAdjust(s, k, -a)
    \/ \E o \in StatusOps : StartStatusOp(s, o)
    \/ \E l \in Limits : StartPatchCreditLimit(s, l) \/ StartProvision(s, l)

Lookup(s) == CheckIdempotentDup(s) \/ ReturnDup(s)

AcquireLock(s) ==
    \/ LoadAccountLocked(s)
    \/ \E l \in Limits \cup {NoLimit} : CreateAccount(s, l)

Write(s) ==
    \/ ConsumeCredit(s) \/ RepayCredit(s) \/ ManualAdjustUsed(s)
    \/ PlaceHold(s) \/ ReleaseHold(s) \/ SuspendAccount(s)
    \/ ReactivateAccount(s) \/ CloseAccount(s)
    \/ PatchCreditLimit(s) \/ ProvisionAccount(s)

Next == \E s \in Sessions :
    Begin(s) \/ Lookup(s) \/ AcquireLock(s) \/ Write(s) \/ Rollback(s)

Spec == Init /\ [][Next]_vars

-----------------------------------------------------------------------------
(* Properties *)

\* Every variable has the type the tables give it.
TypeOK ==
    /\ acct \in Row
    /\ ledger \in Seq(LedgerEntry)
    /\ history \in Seq(StatusChange)
    /\ lock \in Sessions \cup {NoSession}
    /\ sess \in [Sessions -> Session]
    /\ started \in Nat

\* used_credit_after of the newest ledger entry, 0 before the first
LastUsed == IF ledger = << >> THEN 0 ELSE ledger[Len(ledger)].usedAfter

\* consume_credit, repay_credit and manual_adjust_used lose no update: the
\* wallet always stands where the newest ledger row says it stands ...
WalletMatchesLedger == acct.used = LastUsed

\* ... and each ledger row continues from the one before it, so the wallet
\* is the sum of every movement ever recorded, whatever ran concurrently.
LedgerChain ==
    \A i \in 1..Len(ledger) :
        ledger[i].usedAfter
          = (IF i = 1 THEN 0 ELSE ledger[i-1].usedAfter) + ledger[i].delta

\* A movement is applied at most once per idempotency key, although the
\* lookup of the key runs before the lock and two requests can both pass it.
KeyAppliedOnce ==
    \A i, j \in 1..Len(ledger) :
        ledger[i].key = ledger[j].key /\ ledger[i].key # NoKey => i = j

\* The status history ends in the status the account has, also when an
\* approval writes from a stale copy of the row.
HistoryMatchesStatus ==
    acct.status = IF history = << >> THEN "ACTIVE" ELSE history[Len(history)].to

\* Credit is only ever drawn on an account that is ACTIVE at that moment and
\* never past the limit it has at that moment, although the preflight check
\* of create_order saw an older row.
SpendWithinLimit ==
    [][acct'.used > acct.used =>
         /\ acct.status = "ACTIVE"
         /\ acct.limit # NoLimit => acct'.used <= acct.limit]_vars

\* A closed account is reopened by the approval of a new credit application
\* and by nothing else: no release, reactivation or stale write revives it.
ClosedReopenedOnlyByApproval ==
    [][acct.status = "CLOSED" /\ acct'.status # "CLOSED" =>
         \E s \in Sessions : Holding(s, "PROVISION")]_vars

\* The keys that have moved the wallet.
AppliedKeys == {ledger[i].key : i \in 1..Len(ledger)} \ {NoKey}

Promise == INSTANCE Wallet WITH wallet <- acct, applied <- AppliedKeys

\* The concurrent requests implement an atomic wallet: unlocked preflights,
\* stale copies and waits for the lock are invisible to the callers.
ImplementsWallet == Promise!WalletSpec
=============================================================================

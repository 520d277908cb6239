------------------------ MODULE CreditAccountProofs ------------------------
(***************************************************************************)
(* Proofs about CreditAccount for every number of sessions, every set of   *)
(* keys, amounts and limits, and every number of requests; at the end,     *)
(* proofs about the scheduled settings of the account, CreditSettings.     *)
(***************************************************************************)
EXTENDS CreditAccount, CreditSettings, SequenceTheorems, TLAPS

\* Exactly the session that holds the row lock is past its locked read.
LockInv == \A s \in Sessions : sess[s].pc = "write" <=> lock = s

\* Before the account row exists nothing has been recorded about it.
AbsentInv == ~acct.exists => acct = NoAccount /\ ledger = << >> /\ history = << >>

\* What a session that holds the lock knows of the row: the row itself, or
\* the new row it is inserting; only an approval may hold an older copy.
SnapInv ==
    \A s \in Sessions : sess[s].pc = "write" =>
        /\ sess[s].snap.exists
        /\ acct.exists /\ sess[s].op # "PROVISION" => sess[s].snap = acct
        /\ ~acct.exists => /\ sess[s].op \in Creators
                           /\ sess[s].snap.status = "ACTIVE"
                           /\ sess[s].snap.used = 0

\* A consumption raises used_credit, a repayment lowers it.
DeltaInv ==
    \A s \in Sessions :
        /\ sess[s].op = "CONSUME" => sess[s].delta \in Nat
        /\ sess[s].op = "REPAY" => -sess[s].delta \in Nat

IInv == TypeOK /\ LockInv /\ AbsentInv /\ SnapInv /\ DeltaInv

\* The records a request starts from are well typed.
LEMMA IdleType == NoAccount \in Row /\ Idle \in Session
BY ConstantsAssumption DEF NoAccount, Row, Statuses, Idle, Session, Ops, StatusOps, MoneyOps

\* What appending a row to a table does.
LEMMA EntryAppended ==
    ASSUME NEW S, NEW q \in Seq(S), NEW e \in S
    PROVE  /\ Append(q, e) \in Seq(S)
           /\ Append(q, e) # << >>
           /\ Len(q) \in Nat /\ Len(Append(q, e)) = Len(q) + 1
           /\ \A i \in 1..Len(q) : Append(q, e)[i] = q[i]
           /\ Append(q, e)[Len(q) + 1] = e
OBVIOUS

\* The initial state satisfies the inductive invariant.
LEMMA InitIInv == Init => IInv
<1> SUFFICES ASSUME Init PROVE IInv
  OBVIOUS
<1>1. TypeOK
  BY IdleType DEF Init, TypeOK
<1>2. LockInv
  BY ConstantsAssumption DEF Init, LockInv, Idle
<1>3. AbsentInv /\ SnapInv /\ DeltaInv
  BY DEF Init, AbsentInv, SnapInv, DeltaInv, Idle
<1> QED
  BY <1>1, <1>2, <1>3 DEF IInv

\* Starting a request touches only the session that starts it.
LEMMA StartIInv ==
    ASSUME IInv, NEW s \in Sessions, NEW r \in Session, Start(s, r),
           r.pc \in {"dup", "lock"}, r.op = "CONSUME" => r.delta \in Nat,
           r.op = "REPAY" => -r.delta \in Nat
    PROVE  IInv'
<1>1. TypeOK'
  BY DEF IInv, TypeOK, Start
<1>2. LockInv'
  BY ConstantsAssumption DEF IInv, TypeOK, LockInv, Start
<1>3. AbsentInv'
  BY DEF IInv, AbsentInv, Start
<1>4. SnapInv'
  BY DEF IInv, TypeOK, SnapInv, Start
<1>5. DeltaInv'
  BY DEF IInv, TypeOK, DeltaInv, Start
<1> QED
  BY <1>1, <1>2, <1>3, <1>4, <1>5 DEF IInv

LEMMA BeginIInv ==
    ASSUME IInv, NEW s \in Sessions, Begin(s)
    PROVE  IInv'
<1> USE IdleType, ConstantsAssumption
<1>1. ASSUME NEW k \in Keys, NEW a \in Amounts, AssertCanConsume(s, k, a)
      PROVE  IInv'
  <2> DEFINE r == [Idle EXCEPT !.pc = "dup", !.op = "CONSUME", !.key = k, !.delta = a]
  <2>0. a \in Nat /\ a \in Int
    BY ConstantsAssumption
  <2>1. r \in Session /\ r.pc = "dup" /\ r.op = "CONSUME" /\ r.delta \in Nat
    BY <2>0 DEF Idle, Session, Ops, MoneyOps, StatusOps
  <2> QED
    BY <1>1, <2>1, StartIInv DEF AssertCanConsume
<1>2. ASSUME NEW k \in Keys, NEW a \in Amounts, StartRepay(s, k, a)
      PROVE  IInv'
  <2> DEFINE r == [Idle EXCEPT !.pc = "dup", !.op = "REPAY", !.key = k, !.delta = -a]
  <2>0. a \in Nat /\ -a \in Int /\ -(-a) = a
    BY ConstantsAssumption
  <2>1. r \in Session /\ r.pc = "dup" /\ r.op = "REPAY" /\ -r.delta \in Nat
    BY <2>0 DEF Idle, Session, Ops, MoneyOps, StatusOps
  <2> QED
    BY <1>2, <2>1, StartIInv DEF StartRepay
<1>3. ASSUME NEW k \in Keys \cup {NoKey}, NEW d \in Int, StartAdjust(s, k, d)
      PROVE  IInv'
  <2> DEFINE r == [Idle EXCEPT !.pc = "dup", !.op = "ADJUST", !.key = k, !.delta = d]
  <2>1. r \in Session /\ r.pc = "dup" /\ r.op = "ADJUST"
    BY DEF Idle, Session, Ops, MoneyOps, StatusOps
  <2> QED
    BY <1>3, <2>1, StartIInv DEF StartAdjust
<1>4. ASSUME NEW o \in StatusOps, StartStatusOp(s, o)
      PROVE  IInv'
  <2> DEFINE r == [Idle EXCEPT !.pc = "lock", !.op = o, !.snap = acct]
  <2>1. r \in Session /\ r.pc = "lock" /\ r.op \notin {"CONSUME", "REPAY"}
    BY DEF Idle, Session, Ops, MoneyOps, StatusOps, IInv, TypeOK
  <2> QED
    BY <1>4, <2>1, StartIInv DEF StartStatusOp
<1>5. ASSUME NEW l \in Limits, StartPatchCreditLimit(s, l)
      PROVE  IInv'
  <2> DEFINE r == [Idle EXCEPT !.pc = "lock", !.op = "LIMIT", !.limit = l, !.snap = acct]
  <2>1. r \in Session /\ r.pc = "lock" /\ r.op \notin {"CONSUME", "REPAY"}
    BY DEF Idle, Session, Ops, MoneyOps, StatusOps, IInv, TypeOK
  <2> QED
    BY <1>5, <2>1, StartIInv DEF StartPatchCreditLimit
<1>6. ASSUME NEW l \in Limits, StartProvision(s, l)
      PROVE  IInv'
  <2> DEFINE r == [Idle EXCEPT !.pc = "lock", !.op = "PROVISION", !.limit = l, !.snap = acct]
  <2>1. r \in Session /\ r.pc = "lock" /\ r.op \notin {"CONSUME", "REPAY"}
    BY DEF Idle, Session, Ops, MoneyOps, StatusOps, IInv, TypeOK
  <2> QED
    BY <1>6, <2>1, StartIInv DEF StartProvision
<1>7. \A a \in Amounts : a \in Int /\ -a \in Int
  OBVIOUS
<1> QED
  BY <1>1, <1>2, <1>3, <1>4, <1>5, <1>6, <1>7 DEF Begin

\* The idempotency lookup only moves the session's program counter.
LEMMA LookupIInv ==
    ASSUME IInv, NEW s \in Sessions, Lookup(s)
    PROVE  IInv'
<1> USE IdleType, ConstantsAssumption
<1>1. CASE CheckIdempotentDup(s)
  <2> USE <1>1 DEF CheckIdempotentDup
  <2>1. TypeOK'
    BY DEF IInv, TypeOK, Session
  <2>2. LockInv'
    BY DEF IInv, TypeOK, LockInv, Session
  <2>3. AbsentInv'
    BY DEF IInv, AbsentInv
  <2>4. SnapInv'
    BY DEF IInv, TypeOK, SnapInv, Session
  <2>5. DeltaInv'
    BY DEF IInv, TypeOK, DeltaInv, Session
  <2> QED
    BY <2>1, <2>2, <2>3, <2>4, <2>5 DEF IInv
<1>2. CASE ReturnDup(s)
  <2> USE <1>2 DEF ReturnDup
  <2>1. TypeOK'
    BY DEF IInv, TypeOK, Session
  <2>2. LockInv'
    BY DEF IInv, TypeOK, LockInv, Session, Idle
  <2>3. AbsentInv'
    BY DEF IInv, AbsentInv
  <2>4. SnapInv'
    BY DEF IInv, TypeOK, SnapInv, Session, Idle
  <2>5. DeltaInv'
    BY DEF IInv, TypeOK, DeltaInv, Session, Idle
  <2> QED
    BY <2>1, <2>2, <2>3, <2>4, <2>5 DEF IInv
<1> QED
  BY <1>1, <1>2 DEF Lookup

\* A session that has locked a row and keeps a copy of it is still a session.
LEMMA SessionUpdate ==
    ASSUME NEW f \in [Sessions -> Session], NEW s \in Sessions, NEW row \in Row
    PROVE  [f EXCEPT ![s].pc = "write", ![s].snap = row] \in [Sessions -> Session]
BY DEF Session

\* Taking the lock gives the session the row, or the new row it inserts.
LEMMA AcquireLockIInv ==
    ASSUME IInv, NEW s \in Sessions, AcquireLock(s)
    PROVE  IInv'
<1> USE ConstantsAssumption
<1>1. CASE LoadAccountLocked(s)
  <2> USE <1>1 DEF LoadAccountLocked
  <2>1. LockedRow(s) \in Row /\ LockedRow(s).exists
    BY DEF IInv, TypeOK, Session, Row, LockedRow
  <2>2. sess[s].op # "PROVISION" => LockedRow(s) = acct
    BY DEF LockedRow
  <2>3. TypeOK'
    BY <2>1, SessionUpdate DEF IInv, TypeOK
  <2>4. LockInv'
    BY DEF IInv, TypeOK, LockInv, Session
  <2>5. AbsentInv'
    BY DEF IInv, AbsentInv
  <2>6. SnapInv'
    BY <2>1, <2>2 DEF IInv, TypeOK, SnapInv, LockInv, Session
  <2>7. DeltaInv'
    BY DEF IInv, TypeOK, DeltaInv, Session
  <2> QED
    BY <2>3, <2>4, <2>5, <2>6, <2>7 DEF IInv
<1>2. ASSUME NEW l \in Limits \cup {NoLimit}, CreateAccount(s, l)
      PROVE  IInv'
  <2> USE <1>2 DEF CreateAccount
  <2>1. [exists |-> TRUE, status |-> "ACTIVE", limit |-> l, used |-> 0] \in Row
    BY DEF Row, Statuses
  <2>2. TypeOK'
    BY <2>1, SessionUpdate DEF IInv, TypeOK
  <2>3. LockInv'
    BY DEF IInv, TypeOK, LockInv, Session
  <2>4. AbsentInv'
    BY DEF IInv, AbsentInv
  <2>5. SnapInv'
    BY <2>1 DEF IInv, TypeOK, SnapInv, LockInv, Session
  <2>6. DeltaInv'
    BY DEF IInv, TypeOK, DeltaInv, Session
  <2> QED
    BY <2>2, <2>3, <2>4, <2>5, <2>6 DEF IInv
<1> QED
  BY <1>1, <1>2 DEF AcquireLock

\* A rollback returns the session to idle and releases only its own lock.
LEMMA RollbackIInv ==
    ASSUME IInv, NEW s \in Sessions, Rollback(s)
    PROVE  IInv'
<1> USE IdleType, ConstantsAssumption DEF Rollback
<1>1. TypeOK'
  BY DEF IInv, TypeOK
<1>2. LockInv'
  BY DEF IInv, TypeOK, LockInv, Session, Idle
<1>3. AbsentInv'
  BY DEF IInv, AbsentInv
<1>4. SnapInv'
  BY DEF IInv, TypeOK, SnapInv, Session, Idle
<1>5. DeltaInv'
  BY DEF IInv, TypeOK, DeltaInv, Session, Idle
<1> QED
  BY <1>1, <1>2, <1>3, <1>4, <1>5 DEF IInv

\* A commit of the lock holder: whatever it writes, no other session is past
\* its locked read, so nobody is left with a copy that has become wrong.
LEMMA CommitIInv ==
    ASSUME IInv, NEW s \in Sessions, sess[s].pc = "write", lock = s, Commit(s),
           acct' \in Row, acct'.exists,
           ledger' \in Seq(LedgerEntry), history' \in Seq(StatusChange)
    PROVE  IInv'
<1> USE IdleType, ConstantsAssumption DEF Commit
<1>1. TypeOK'
  BY DEF IInv, TypeOK
<1>2. \A t \in Sessions : sess'[t].pc # "write"
  BY DEF IInv, TypeOK, LockInv, Session, Idle
<1>3. LockInv'
  BY <1>2
     DEF IInv, LockInv
<1>4. AbsentInv'
  BY DEF AbsentInv
<1>5. SnapInv'
  BY <1>2 DEF SnapInv
<1>6. DeltaInv'
  BY DEF IInv, TypeOK, DeltaInv, Session, Idle
<1> QED
  BY <1>1, <1>3, <1>4, <1>5, <1>6 DEF IInv

\* The lock holder's copy of the row, for everything but an approval.
LEMMA HeldRow ==
    ASSUME IInv, NEW s \in Sessions, NEW o \in Ops, Holding(s, o)
    PROVE  /\ sess[s] \in Session /\ sess[s].snap \in Row /\ sess[s].snap.exists
           /\ o \in MoneyOps \cup {"LIMIT"} => acct.exists
           /\ o # "PROVISION" /\ acct.exists => sess[s].snap = acct
BY DEF IInv, TypeOK, SnapInv, Holding, Session, Creators, StatusOps, MoneyOps

\* The three movements, seen alike: an ACTIVE account whose used_credit goes
\* from the committed value to one delta away, with a fresh key.
LEMMA MoveShape ==
    ASSUME IInv, NEW s \in Sessions,
           ConsumeCredit(s) \/ RepayCredit(s) \/ ManualAdjustUsed(s)
    PROVE  LET used == acct.used + sess[s].delta IN
           /\ sess[s].pc = "write" /\ lock = s /\ sess[s].op \in MoneyOps
           /\ sess[s].key \in Keys \cup {NoKey} /\ sess[s].delta \in Int
           /\ acct.exists /\ acct.used \in Nat /\ acct.status = "ACTIVE"
           /\ used \in Nat
           /\ sess[s].delta > 0 /\ acct.limit # NoLimit => used <= acct.limit
           /\ ~KeyUsed(sess[s].key)
           /\ MoveUsed(s, used)
<1>1. PICK o \in MoneyOps : Holding(s, o)
  BY DEF ConsumeCredit, RepayCredit, ManualAdjustUsed, MoneyOps
<1>2. sess[s].snap = acct /\ acct.exists /\ sess[s] \in Session /\ acct \in Row
  BY <1>1, HeldRow DEF Ops, MoneyOps, IInv, TypeOK
<1>3. sess[s].delta \in Int /\ acct.used \in Nat /\ sess[s].key \in Keys \cup {NoKey}
  BY <1>2 DEF Session, Row
<1>4. sess[s].pc = "write" /\ lock = s /\ sess[s].op \in MoneyOps
  BY <1>1 DEF Holding
<1>5. CASE ConsumeCredit(s)
  <2>1. sess[s].delta \in Nat
    BY <1>5 DEF ConsumeCredit, Holding, IInv, DeltaInv
  <2> QED
    BY <1>2, <1>3, <1>4, <1>5, <2>1 DEF ConsumeCredit, MoveUsed
<1>6. CASE RepayCredit(s)
  <2>1. MoveUsed(s, acct.used + sess[s].delta) /\ acct.used >= -sess[s].delta
    BY <1>2, <1>6 DEF RepayCredit
  <2>2. ~(sess[s].delta > 0)
    BY <1>3, <1>6 DEF RepayCredit, Holding, IInv, DeltaInv
  <2> QED
    BY <1>2, <1>3, <1>4, <2>1, <2>2 DEF MoveUsed
<1>7. CASE ManualAdjustUsed(s)
  BY <1>2, <1>3, <1>4, <1>7 DEF ManualAdjustUsed, MoveUsed
<1> QED
  BY <1>5, <1>6, <1>7

\* The entry a movement appends.
LEMMA MoveLedger ==
    ASSUME IInv, NEW s \in Sessions,
           ConsumeCredit(s) \/ RepayCredit(s) \/ ManualAdjustUsed(s)
    PROVE  LET used == acct.used + sess[s].delta
               e == [type |-> sess[s].op, key |-> sess[s].key,
                     delta |-> sess[s].delta, usedAfter |-> used]
           IN  /\ e \in LedgerEntry /\ ledger \in Seq(LedgerEntry)
               /\ ledger' = Append(ledger, e)
               /\ acct' = [acct EXCEPT !.used = used]
               /\ acct \in Row /\ acct' \in Row
               /\ history' = history
<1>1. ledger \in Seq(LedgerEntry) /\ acct \in Row
  BY DEF IInv, TypeOK
<1> QED
  BY <1>1, MoveShape DEF MoveUsed, AppendLedger, LedgerEntry, Row

\* The five status changes, seen alike.
LEMMA ChangeShape ==
    ASSUME IInv, NEW s \in Sessions, NEW o \in StatusOps, Holding(s, o),
           NEW to \in Statuses, ChangeStatus(s, to)
    PROVE  /\ acct' \in Row /\ acct'.exists /\ acct'.status = to
           /\ acct'.used = acct.used
           /\ history' = Append(history, [from |-> sess[s].snap.status, to |-> to])
           /\ [from |-> sess[s].snap.status, to |-> to] \in StatusChange
           /\ ledger' = ledger
           /\ Commit(s)
<1>1. sess[s].snap \in Row /\ sess[s].snap.exists
  BY HeldRow DEF Ops
<1>2. sess[s].snap.used = acct.used
  <2>1. CASE acct.exists
    BY <2>1, HeldRow DEF Ops, StatusOps
  <2>2. CASE ~acct.exists
    BY <2>2 DEF IInv, SnapInv, AbsentInv, NoAccount, Holding
  <2> QED
    BY <2>1, <2>2
<1> QED
  BY <1>1, <1>2 DEF ChangeStatus, Row, StatusChange

\* Each status operation either changes the status or, for a suspension of a
\* suspended account, writes nothing.
LEMMA StatusOpShape ==
    ASSUME IInv, NEW s \in Sessions,
           PlaceHold(s) \/ ReleaseHold(s) \/ SuspendAccount(s)
             \/ ReactivateAccount(s) \/ CloseAccount(s)
    PROVE  \E o \in StatusOps :
             /\ Holding(s, o)
             /\ \/ /\ sess[s].snap.status = "CLOSED" => FALSE
                   /\ \E to \in Statuses : ChangeStatus(s, to)
                \/ Commit(s) /\ UNCHANGED <<acct, ledger, history>>
                   /\ sess[s].snap.status = "SUSPENDED"
BY DEF PlaceHold, ReleaseHold, SuspendAccount, ReactivateAccount, CloseAccount,
       StatusOps, Statuses

\* What an approval writes.
LEMMA ProvisionShape ==
    ASSUME IInv, NEW s \in Sessions, ProvisionAccount(s)
    PROVE  /\ acct' \in Row /\ acct'.exists /\ acct'.used = acct.used
           /\ history' \in Seq(StatusChange)
           /\ \/ history' = history /\ acct'.status = acct.status
              \/ /\ history' = Append(history, [from |-> sess[s].snap.status, to |-> "ACTIVE"])
                 /\ acct'.status = "ACTIVE"
           /\ ledger' = ledger
           /\ Commit(s)
<1>1. /\ sess[s] \in Session /\ sess[s].snap \in Row /\ sess[s].snap.exists
      /\ acct \in Row /\ history \in Seq(StatusChange)
      /\ sess[s].limit \in Limits \cup {NoLimit}
  BY HeldRow DEF ProvisionAccount, Ops, IInv, TypeOK, Session
<1>2. ~acct.exists => /\ sess[s].snap.status = "ACTIVE" /\ acct.status = "ACTIVE"
                      /\ sess[s].snap.used = 0 /\ acct.used = 0
  BY DEF ProvisionAccount, Holding, IInv, SnapInv, AbsentInv, NoAccount
<1>3. [from |-> sess[s].snap.status, to |-> "ACTIVE"] \in StatusChange
  BY <1>1 DEF Row, StatusChange, Statuses
<1>4. ledger' = ledger /\ Commit(s)
  BY DEF ProvisionAccount
<1>5. CASE sess[s].snap.status # "ACTIVE"
  <2>1. history' = Append(history, [from |-> sess[s].snap.status, to |-> "ACTIVE"])
    BY <1>5 DEF ProvisionAccount
  <2>2. history' \in Seq(StatusChange)
    BY <1>1, <1>3, <2>1, EntryAppended
  <2>3. acct' \in Row /\ acct'.exists /\ acct'.used = acct.used /\ acct'.status = "ACTIVE"
    BY <1>1, <1>2, <1>5 DEF ProvisionAccount, Row, Statuses
  <2> QED
    BY <1>4, <2>1, <2>2, <2>3
<1>6. CASE sess[s].snap.status = "ACTIVE"
  BY <1>1, <1>2, <1>4, <1>6 DEF ProvisionAccount, Row, Statuses
<1> QED
  BY <1>5, <1>6

\* Every committing operation preserves the inductive invariant.
LEMMA WriteIInv ==
    ASSUME IInv, NEW s \in Sessions, Write(s)
    PROVE  IInv'
<1>1. CASE ConsumeCredit(s) \/ RepayCredit(s) \/ ManualAdjustUsed(s)
  <2>1. /\ sess[s].pc = "write" /\ lock = s /\ Commit(s)
        /\ acct.exists /\ history' = history
    BY <1>1, MoveShape DEF MoveUsed
  <2>2. ledger' \in Seq(LedgerEntry) /\ acct' \in Row /\ acct'.exists
    <3>1. PICK e \in LedgerEntry : ledger' = Append(ledger, e)
      BY <1>1, MoveLedger
    <3>2. ledger \in Seq(LedgerEntry)
      BY DEF IInv, TypeOK
    <3>3. ledger' \in Seq(LedgerEntry)
      BY <3>1, <3>2, EntryAppended
    <3>4. acct' \in Row /\ acct'.exists
      BY <1>1, <2>1, MoveLedger DEF Row
    <3> QED
      BY <3>3, <3>4
  <2> QED
    BY <2>1, <2>2, CommitIInv DEF IInv, TypeOK
<1>2. CASE PlaceHold(s) \/ ReleaseHold(s) \/ SuspendAccount(s)
             \/ ReactivateAccount(s) \/ CloseAccount(s)
  <2>1. PICK o \in StatusOps :
             /\ Holding(s, o)
             /\ \/ \E to \in Statuses : ChangeStatus(s, to)
                \/ Commit(s) /\ UNCHANGED <<acct, ledger, history>>
                   /\ sess[s].snap.status = "SUSPENDED"
    BY <1>2, StatusOpShape
  <2>2. CASE \E to \in Statuses : ChangeStatus(s, to)
    <3>0. history \in Seq(StatusChange) /\ ledger \in Seq(LedgerEntry)
      BY DEF IInv, TypeOK
    <3>1. PICK to \in Statuses : ChangeStatus(s, to)
      BY <2>2
    <3>2. /\ acct' \in Row /\ acct'.exists /\ Commit(s)
          /\ history' \in Seq(StatusChange) /\ ledger' \in Seq(LedgerEntry)
      <4>1. PICK c \in StatusChange : history' = Append(history, c)
        BY <2>1, <3>1, ChangeShape
      <4>2. history' \in Seq(StatusChange)
        BY <3>0, <4>1, EntryAppended
      <4>3. acct' \in Row /\ acct'.exists /\ Commit(s) /\ ledger' = ledger
        BY <2>1, <3>1, ChangeShape
      <4> QED
        BY <3>0, <4>2, <4>3
    <3> QED
      BY <2>1, <3>2, CommitIInv DEF Holding
  <2>3. CASE Commit(s) /\ UNCHANGED <<acct, ledger, history>>
               /\ sess[s].snap.status = "SUSPENDED"
    <3>1. acct.exists
      BY <2>1, <2>3 DEF IInv, SnapInv, Holding
    <3> QED
      BY <2>1, <2>3, <3>1, CommitIInv DEF Holding, IInv, TypeOK
  <2> QED
    BY <2>1, <2>2, <2>3
<1>3. CASE PatchCreditLimit(s)
  <2>1. acct.exists /\ sess[s] \in Session /\ acct \in Row
    BY <1>3, HeldRow DEF PatchCreditLimit, Ops, IInv, TypeOK
  <2>2. acct' \in Row /\ acct'.exists
    BY <1>3, <2>1 DEF PatchCreditLimit, Session, Row
  <2> QED
    BY <1>3, <2>2, CommitIInv DEF PatchCreditLimit, Holding, IInv, TypeOK
<1>4. CASE ProvisionAccount(s)
  <2>1. ledger \in Seq(LedgerEntry) /\ sess[s].pc = "write" /\ lock = s
    BY <1>4 DEF IInv, TypeOK, ProvisionAccount, Holding
  <2> QED
    BY <1>4, <2>1, ProvisionShape, CommitIInv
<1> QED
  BY <1>1, <1>2, <1>3, <1>4 DEF Write

\* Every step preserves the inductive invariant.
LEMMA NextIInv == IInv /\ [Next]_vars => IInv'
<1> SUFFICES ASSUME IInv, [Next]_vars PROVE IInv'
  OBVIOUS
<1>1. CASE Next
  BY <1>1, BeginIInv, LookupIInv, AcquireLockIInv, WriteIInv, RollbackIInv DEF Next
<1>2. CASE UNCHANGED vars
  BY <1>2 DEF vars, IInv, TypeOK, LockInv, AbsentInv, SnapInv, DeltaInv
<1> QED
  BY <1>1, <1>2

\* Type correctness of the wallet: in particular used_credit is never
\* negative, whatever movements and limit changes run concurrently.
THEOREM TypeCorrect == Spec => []TypeOK
<1>1. Spec => []IInv
  BY InitIInv, NextIInv, PTL DEF Spec
<1>2. IInv => TypeOK
  BY DEF IInv
<1> QED
  BY <1>1, <1>2, PTL

-----------------------------------------------------------------------------
(* The safety properties that the ledger and the history rest on *)

SafetyInv == IInv /\ WalletMatchesLedger /\ LedgerChain /\ KeyAppliedOnce /\ HistoryMatchesStatus

\* A step that changes neither table nor the two columns they describe.
LEMMA FrameSafety ==
    ASSUME WalletMatchesLedger, LedgerChain, KeyAppliedOnce,
           ledger' = ledger, acct'.used = acct.used
    PROVE  WalletMatchesLedger' /\ LedgerChain' /\ KeyAppliedOnce'
BY DEF WalletMatchesLedger, LastUsed, LedgerChain, KeyAppliedOnce

\* A movement extends the chain by one entry with a fresh key.
LEMMA MoveSafety ==
    ASSUME SafetyInv, NEW s \in Sessions,
           ConsumeCredit(s) \/ RepayCredit(s) \/ ManualAdjustUsed(s)
    PROVE  WalletMatchesLedger' /\ LedgerChain' /\ KeyAppliedOnce' /\ HistoryMatchesStatus'
<1>1. IInv
  BY DEF SafetyInv
<1>2. PICK e \in LedgerEntry :
        /\ e.usedAfter = acct.used + e.delta /\ e.key = sess[s].key
        /\ acct'.used = e.usedAfter /\ acct'.status = acct.status
        /\ ledger' = Append(ledger, e) /\ history' = history
  <2> DEFINE e == [type |-> sess[s].op, key |-> sess[s].key,
                   delta |-> sess[s].delta, usedAfter |-> acct.used + sess[s].delta]
  <2>1. e \in LedgerEntry /\ ledger' = Append(ledger, e) /\ history' = history
    BY <1>1, MoveLedger
  <2>2. acct' = [acct EXCEPT !.used = acct.used + sess[s].delta] /\ acct \in Row
    BY <1>1, MoveLedger
  <2>3. acct'.used = e.usedAfter /\ acct'.status = acct.status
    BY <2>2 DEF Row
  <2> QED
    BY <2>1, <2>3
<1>3. ledger \in Seq(LedgerEntry)
  BY <1>1 DEF IInv, TypeOK
<1>4. /\ ledger' \in Seq(LedgerEntry) /\ ledger' # << >>
      /\ Len(ledger) \in Nat /\ Len(ledger') = Len(ledger) + 1
      /\ \A i \in 1..Len(ledger) : ledger'[i] = ledger[i]
      /\ ledger'[Len(ledger) + 1] = e
  BY <1>2, <1>3, EntryAppended
<1>5. WalletMatchesLedger'
  BY <1>2, <1>4 DEF WalletMatchesLedger, LastUsed
<1>6. LedgerChain'
  <2> SUFFICES ASSUME NEW i \in 1..Len(ledger')
               PROVE  ledger'[i].usedAfter
                        = (IF i = 1 THEN 0 ELSE ledger'[i-1].usedAfter) + ledger'[i].delta
    BY DEF LedgerChain
  <2>1. CASE i \in 1..Len(ledger)
    <3>1. ledger'[i] = ledger[i] /\ (i # 1 => ledger'[i-1] = ledger[i-1])
      BY <1>4, <2>1
    <3> QED
      BY <2>1, <3>1 DEF SafetyInv, LedgerChain
  <2>2. CASE i = Len(ledger) + 1
    <3>1. acct.used = IF i = 1 THEN 0 ELSE ledger[i-1].usedAfter
      BY <1>3, <1>4, <2>2 DEF SafetyInv, WalletMatchesLedger, LastUsed
    <3>2. i # 1 => ledger'[i-1] = ledger[i-1]
      BY <1>4, <2>2
    <3> QED
      BY <1>2, <1>4, <2>2, <3>1, <3>2
  <2> QED
    BY <1>4, <2>1, <2>2
<1>7. KeyAppliedOnce'
  <2>1. ~KeyUsed(e.key)
    BY <1>1, <1>2, MoveShape
  <2>2. \A i \in 1..Len(ledger) : e.key # NoKey => ledger[i].key # e.key
    BY <2>1 DEF KeyUsed
  <2> SUFFICES ASSUME NEW i \in 1..Len(ledger'), NEW j \in 1..Len(ledger'),
                      ledger'[i].key = ledger'[j].key, ledger'[i].key # NoKey
               PROVE  i = j
    BY DEF KeyAppliedOnce
  <2>3. i \in 1..Len(ledger) \/ i = Len(ledger) + 1
    BY <1>4
  <2>4. j \in 1..Len(ledger) \/ j = Len(ledger) + 1
    BY <1>4
  <2>5. CASE i \in 1..Len(ledger) /\ j \in 1..Len(ledger)
    BY <1>4, <2>5 DEF SafetyInv, KeyAppliedOnce
  <2> QED
    BY <1>4, <2>2, <2>3, <2>4, <2>5
<1>8. HistoryMatchesStatus'
  BY <1>2 DEF SafetyInv, HistoryMatchesStatus
<1> QED
  BY <1>5, <1>6, <1>7, <1>8

\* Appending the change a status write makes keeps the history's end true.
LEMMA HistoryAppend ==
    ASSUME IInv, NEW c \in StatusChange, history' = Append(history, c), acct'.status = c.to
    PROVE  HistoryMatchesStatus'
<1>1. history \in Seq(StatusChange)
  BY DEF IInv, TypeOK
<1>2. history' # << >> /\ history'[Len(history')] = c
  BY <1>1, EntryAppended
<1> QED
  BY <1>2 DEF HistoryMatchesStatus

LEMMA WriteSafety ==
    ASSUME SafetyInv, NEW s \in Sessions, Write(s)
    PROVE  WalletMatchesLedger' /\ LedgerChain' /\ KeyAppliedOnce' /\ HistoryMatchesStatus'
<1> IInv
  BY DEF SafetyInv
<1>1. CASE ConsumeCredit(s) \/ RepayCredit(s) \/ ManualAdjustUsed(s)
  BY <1>1, MoveSafety
<1>2. CASE PlaceHold(s) \/ ReleaseHold(s) \/ SuspendAccount(s)
             \/ ReactivateAccount(s) \/ CloseAccount(s)
  <2>1. PICK o \in StatusOps :
             /\ Holding(s, o)
             /\ \/ \E to \in Statuses : ChangeStatus(s, to)
                \/ Commit(s) /\ UNCHANGED <<acct, ledger, history>>
    BY <1>2, StatusOpShape
  <2>2. CASE \E to \in Statuses : ChangeStatus(s, to)
    <3>1. PICK to \in Statuses : ChangeStatus(s, to)
      BY <2>2
    <3>2. /\ acct'.used = acct.used /\ acct'.status = to /\ ledger' = ledger
          /\ \E c \in StatusChange : history' = Append(history, c) /\ c.to = to
      BY <2>1, <3>1, ChangeShape
    <3>3. HistoryMatchesStatus'
      BY <3>2, HistoryAppend
    <3> QED
      BY <3>2, <3>3, FrameSafety DEF SafetyInv
  <2>3. CASE Commit(s) /\ UNCHANGED <<acct, ledger, history>>
    BY <2>3, FrameSafety DEF SafetyInv, HistoryMatchesStatus
  <2> QED
    BY <2>1, <2>2, <2>3
<1>3. CASE PatchCreditLimit(s)
  <2>1. acct \in Row
    BY DEF IInv, TypeOK
  <2>2. acct'.used = acct.used /\ acct'.status = acct.status
        /\ ledger' = ledger /\ history' = history
    BY <1>3, <2>1 DEF PatchCreditLimit, Row
  <2> QED
    BY <2>2, FrameSafety DEF SafetyInv, HistoryMatchesStatus
<1>4. CASE ProvisionAccount(s)
  <2>1. acct'.used = acct.used /\ ledger' = ledger
    BY <1>4, ProvisionShape
  <2>2. HistoryMatchesStatus'
    <3>1. CASE history' = history /\ acct'.status = acct.status
      BY <3>1 DEF SafetyInv, HistoryMatchesStatus
    <3>2. CASE /\ history' = Append(history, [from |-> sess[s].snap.status, to |-> "ACTIVE"])
               /\ acct'.status = "ACTIVE"
      <4>1. [from |-> sess[s].snap.status, to |-> "ACTIVE"] \in StatusChange
        BY <1>4, HeldRow DEF ProvisionAccount, Ops, Row, StatusChange, Statuses
      <4> QED
        BY <3>2, <4>1, HistoryAppend
    <3> QED
      BY <1>4, <3>1, <3>2, ProvisionShape
  <2> QED
    BY <2>1, <2>2, FrameSafety DEF SafetyInv
<1> QED
  BY <1>1, <1>2, <1>3, <1>4 DEF Write

LEMMA NextSafety == SafetyInv /\ [Next]_vars => SafetyInv'
<1> SUFFICES ASSUME SafetyInv, [Next]_vars PROVE SafetyInv'
  OBVIOUS
<1>1. IInv'
  BY NextIInv DEF SafetyInv
<1>2. CASE \E s \in Sessions : Write(s)
  BY <1>1, <1>2, WriteSafety DEF SafetyInv
<1>3. CASE UNCHANGED <<acct, ledger, history>>
  BY <1>1, <1>3, FrameSafety DEF SafetyInv, HistoryMatchesStatus
<1>4. ASSUME NEW s \in Sessions, Begin(s) \/ Lookup(s) \/ AcquireLock(s) \/ Rollback(s)
      PROVE  UNCHANGED <<acct, ledger, history>>
  BY <1>4 DEF Begin, AssertCanConsume, StartRepay, StartAdjust, StartStatusOp,
              StartPatchCreditLimit, StartProvision, Start, Lookup, CheckIdempotentDup,
              ReturnDup, AcquireLock, LoadAccountLocked, CreateAccount, Rollback
<1>5. UNCHANGED vars => UNCHANGED <<acct, ledger, history>>
  BY DEF vars
<1> QED
  BY <1>2, <1>3, <1>4, <1>5 DEF Next

LEMMA SpecSafety == Spec => []SafetyInv
<1>1. Init => SafetyInv
  BY InitIInv DEF Init, SafetyInv, WalletMatchesLedger, LastUsed, LedgerChain,
                  KeyAppliedOnce, HistoryMatchesStatus, NoAccount
<1> QED
  BY <1>1, NextSafety, PTL DEF Spec

\* No movement is lost: used_credit is where the newest ledger row left it.
THEOREM WalletConsistent == Spec => []WalletMatchesLedger
<1>1. SafetyInv => WalletMatchesLedger
  BY DEF SafetyInv
<1> QED
  BY <1>1, SpecSafety, PTL

\* The ledger explains the wallet: every row continues from the row before.
THEOREM LedgerIsChain == Spec => []LedgerChain
<1>1. SafetyInv => LedgerChain
  BY DEF SafetyInv
<1> QED
  BY <1>1, SpecSafety, PTL

\* A movement happens at most once per idempotency key.
THEOREM Idempotent == Spec => []KeyAppliedOnce
<1>1. SafetyInv => KeyAppliedOnce
  BY DEF SafetyInv
<1> QED
  BY <1>1, SpecSafety, PTL

\* The last row of the status history is the status the account has.
THEOREM HistoryTruthful == Spec => []HistoryMatchesStatus
<1>1. SafetyInv => HistoryMatchesStatus
  BY DEF SafetyInv
<1> QED
  BY <1>1, SpecSafety, PTL

-----------------------------------------------------------------------------
(* Action properties *)

\* Which steps can raise used_credit or end the CLOSED status.
LEMMA StepShape ==
    ASSUME IInv, [Next]_vars
    PROVE  \/ acct' = acct
           \/ \E s \in Sessions : ConsumeCredit(s) \/ RepayCredit(s) \/ ManualAdjustUsed(s)
           \/ /\ acct'.used = acct.used
              /\ acct.status = "CLOSED" /\ acct'.status # "CLOSED" =>
                   \E s \in Sessions : Holding(s, "PROVISION")
<1>1. CASE UNCHANGED vars
  BY <1>1 DEF vars
<1>2. ASSUME NEW s \in Sessions, Begin(s) \/ Lookup(s) \/ AcquireLock(s) \/ Rollback(s)
      PROVE  acct' = acct
  BY <1>2 DEF Begin, AssertCanConsume, StartRepay, StartAdjust, StartStatusOp,
              StartPatchCreditLimit, StartProvision, Start, Lookup, CheckIdempotentDup,
              ReturnDup, AcquireLock, LoadAccountLocked, CreateAccount, Rollback
<1>3. ASSUME NEW s \in Sessions,
             PlaceHold(s) \/ ReleaseHold(s) \/ SuspendAccount(s)
               \/ ReactivateAccount(s) \/ CloseAccount(s)
      PROVE  acct' = acct \/ (acct'.used = acct.used /\ acct.status # "CLOSED")
  <2>1. PICK o \in StatusOps :
             /\ Holding(s, o)
             /\ \/ /\ sess[s].snap.status = "CLOSED" => FALSE
                   /\ \E to \in Statuses : ChangeStatus(s, to)
                \/ acct' = acct
    BY <1>3, StatusOpShape
  <2>2. CASE acct' = acct
    BY <2>2
  <2>3. CASE /\ sess[s].snap.status = "CLOSED" => FALSE
             /\ \E to \in Statuses : ChangeStatus(s, to)
    <3>1. acct'.used = acct.used
      BY <2>1, <2>3, ChangeShape
    <3>2. acct.status # "CLOSED"
      <4>1. CASE acct.exists
        BY <2>1, <2>3, <4>1, HeldRow DEF Ops, StatusOps
      <4>2. CASE ~acct.exists
        BY <4>2 DEF IInv, AbsentInv, NoAccount
      <4> QED
        BY <4>1, <4>2
    <3> QED
      BY <3>1, <3>2
  <2> QED
    BY <2>1, <2>2, <2>3
<1>4. ASSUME NEW s \in Sessions, PatchCreditLimit(s)
      PROVE  acct'.used = acct.used /\ acct'.status = acct.status
  BY <1>4 DEF PatchCreditLimit, IInv, TypeOK, Row
<1>5. ASSUME NEW s \in Sessions, ProvisionAccount(s)
      PROVE  acct'.used = acct.used /\ Holding(s, "PROVISION")
  <2>1. Holding(s, "PROVISION")
    BY <1>5 DEF ProvisionAccount
  <2>2. acct'.used = acct.used
    BY <1>5, ProvisionShape
  <2> QED
    BY <2>1, <2>2
<1> QED
  BY <1>1, <1>2, <1>3, <1>4, <1>5 DEF Next, Write

\* Credit is drawn only on an ACTIVE account and only up to its limit, at the
\* moment of the write and not merely at the preflight check.
THEOREM SpendingIsCovered == Spec => SpendWithinLimit
<1>1. IInv /\ [Next]_vars =>
        [acct'.used > acct.used =>
           /\ acct.status = "ACTIVE"
           /\ acct.limit # NoLimit => acct'.used <= acct.limit]_vars
  <2> SUFFICES ASSUME IInv, [Next]_vars, acct'.used > acct.used
               PROVE  acct.status = "ACTIVE" /\ (acct.limit # NoLimit => acct'.used <= acct.limit)
    OBVIOUS
  <2>1. acct.used \in Nat /\ acct \in Row
    BY DEF IInv, TypeOK, Row
  <2>2. PICK s \in Sessions : ConsumeCredit(s) \/ RepayCredit(s) \/ ManualAdjustUsed(s)
    BY <2>1, StepShape
  <2>3. acct' = [acct EXCEPT !.used = acct.used + sess[s].delta]
    BY <2>2, MoveLedger
  <2>4. acct'.used = acct.used + sess[s].delta
    BY <2>1, <2>3 DEF Row
  <2>5. sess[s].delta \in Int /\ acct.status = "ACTIVE"
        /\ (sess[s].delta > 0 /\ acct.limit # NoLimit => acct.used + sess[s].delta <= acct.limit)
    BY <2>2, MoveShape
  <2> QED
    BY <2>1, <2>4, <2>5
<1>2. Spec => []IInv
  BY InitIInv, NextIInv, PTL DEF Spec
<1> QED
  BY <1>1, <1>2, PTL DEF Spec, SpendWithinLimit

\* Only the approval of a credit application reopens a closed account.
THEOREM ClosedIsFinal == Spec => ClosedReopenedOnlyByApproval
<1>1. IInv /\ [Next]_vars =>
        [acct.status = "CLOSED" /\ acct'.status # "CLOSED" =>
           \E s \in Sessions : Holding(s, "PROVISION")]_vars
  <2> SUFFICES ASSUME IInv, [Next]_vars, acct.status = "CLOSED", acct'.status # "CLOSED"
               PROVE  \E s \in Sessions : Holding(s, "PROVISION")
    OBVIOUS
  <2>1. ASSUME NEW s \in Sessions,
               ConsumeCredit(s) \/ RepayCredit(s) \/ ManualAdjustUsed(s)
        PROVE  FALSE
    BY <2>1, MoveShape
  <2> QED
    BY <2>1, StepShape
<1>2. Spec => []IInv
  BY InitIInv, NextIInv, PTL DEF Spec
<1> QED
  BY <1>1, <1>2, PTL DEF Spec, ClosedReopenedOnlyByApproval
-----------------------------------------------------------------------------
(* The requests implement the atomic wallet of module Wallet *)

\* The arguments of a request that may still move money or set a limit.
RequestInv ==
    \A s \in Sessions : sess[s].pc # "idle" =>
        /\ sess[s].op = "CONSUME" => sess[s].key \in Keys /\ sess[s].delta \in Amounts
        /\ sess[s].op = "REPAY" => sess[s].key \in Keys /\ -sess[s].delta \in Amounts
        /\ sess[s].op = "ADJUST" => \E a \in Amounts : sess[s].delta \in {a, -a}
        /\ sess[s].op \in {"LIMIT", "PROVISION"} => sess[s].limit \in Limits

\* A step of one session: the others keep their requests, and the session
\* keeps its own, ends it, or starts one with admissible arguments.
LEMMA RequestInvStep == IInv /\ RequestInv /\ [Next]_vars => RequestInv'
<1> SUFFICES ASSUME IInv, RequestInv, [Next]_vars PROVE RequestInv'
  OBVIOUS
<1> USE ConstantsAssumption
<1>0. sess \in [Sessions -> Session]
  BY DEF IInv, TypeOK
<1>1. CASE UNCHANGED vars
  BY <1>1 DEF vars, RequestInv
<1>2. ASSUME NEW s \in Sessions, Begin(s) PROVE RequestInv'
  <2>1. ASSUME NEW k \in Keys, NEW a \in Amounts, AssertCanConsume(s, k, a)
        PROVE  RequestInv'
    BY <1>0, <2>1 DEF AssertCanConsume, Start, RequestInv, Idle
  <2>2. ASSUME NEW k \in Keys, NEW a \in Amounts, StartRepay(s, k, a)
        PROVE  RequestInv'
    <3>1. a \in Int /\ -(-a) = a
      OBVIOUS
    <3> QED
      BY <1>0, <2>2, <3>1 DEF StartRepay, Start, RequestInv, Idle
  <2>3. ASSUME NEW k \in Keys \cup {NoKey}, NEW a \in Amounts, NEW d \in {a, -a},
               StartAdjust(s, k, d)
        PROVE  RequestInv'
    <3> DEFINE r == [Idle EXCEPT !.pc = "dup", !.op = "ADJUST", !.key = k, !.delta = d]
    <3>1. r.op = "ADJUST" /\ r.delta = d
      BY DEF Idle
    <3>2. \A t \in Sessions : sess'[t] = IF t = s THEN r ELSE sess[t]
      BY <1>0, <2>3 DEF StartAdjust, Start
    <3> QED
      BY <3>1, <3>2 DEF RequestInv
  <2>4. ASSUME NEW o \in StatusOps, StartStatusOp(s, o)
        PROVE  RequestInv'
    BY <1>0, <2>4 DEF StartStatusOp, Start, RequestInv, Idle, StatusOps
  <2>5. ASSUME NEW l \in Limits, StartPatchCreditLimit(s, l)
        PROVE  RequestInv'
    BY <1>0, <2>5 DEF StartPatchCreditLimit, Start, RequestInv, Idle
  <2>6. ASSUME NEW l \in Limits, StartProvision(s, l)
        PROVE  RequestInv'
    BY <1>0, <2>6 DEF StartProvision, Start, RequestInv, Idle
  <2> QED
    BY <1>2, <2>1, <2>2, <2>3, <2>4, <2>5, <2>6 DEF Begin
<1>3. ASSUME NEW s \in Sessions, sess' = [sess EXCEPT ![s] = Idle] PROVE RequestInv'
  BY <1>0, <1>3 DEF RequestInv, Idle
<1>4. ASSUME NEW s \in Sessions, sess[s].pc # "idle",
             NEW pc, NEW snap,
             sess' = [sess EXCEPT ![s] = [sess[s] EXCEPT !.pc = pc, !.snap = snap]]
      PROVE  RequestInv'
  <2> DEFINE r == [sess[s] EXCEPT !.pc = pc, !.snap = snap]
  <2>1. sess[s] \in Session
    BY <1>0
  <2>2. /\ r.op = sess[s].op /\ r.key = sess[s].key
        /\ r.delta = sess[s].delta /\ r.limit = sess[s].limit
    BY <2>1 DEF Session
  <2>3. \A t \in Sessions : sess'[t] = IF t = s THEN r ELSE sess[t]
    BY <1>0, <1>4
  <2> QED
    BY <1>4, <2>2, <2>3 DEF RequestInv
<1>5. ASSUME NEW s \in Sessions, CheckIdempotentDup(s) PROVE RequestInv'
  <2>1. sess[s] \in Session
    BY <1>0
  <2>2. [sess[s] EXCEPT !.pc = "lock"]
          = [sess[s] EXCEPT !.pc = "lock", !.snap = sess[s].snap]
    BY <2>1 DEF Session
  <2> QED
    BY <1>4, <1>5, <2>2 DEF CheckIdempotentDup
<1>6. ASSUME NEW s \in Sessions, AcquireLock(s) PROVE RequestInv'
  <2>1. PICK row : sess' = [sess EXCEPT ![s].pc = "write", ![s].snap = row]
    BY <1>6 DEF AcquireLock, LoadAccountLocked, CreateAccount
  <2>2. sess[s].pc # "idle"
    BY <1>6 DEF AcquireLock, LoadAccountLocked, CreateAccount
  <2>3. sess' = [sess EXCEPT ![s] = [sess[s] EXCEPT !.pc = "write", !.snap = row]]
    BY <1>0, <2>1 DEF Session
  <2> QED
    BY <1>4, <2>2, <2>3
<1>7. ASSUME NEW s \in Sessions, ReturnDup(s) \/ Write(s) \/ Rollback(s)
      PROVE  sess' = [sess EXCEPT ![s] = Idle]
  BY <1>7 DEF ReturnDup, Rollback, Write, ConsumeCredit, RepayCredit, ManualAdjustUsed,
              MoveUsed, PlaceHold, ReleaseHold, SuspendAccount, ReactivateAccount,
              CloseAccount, ChangeStatus, PatchCreditLimit, ProvisionAccount, Commit
<1> QED
  BY <1>1, <1>2, <1>3, <1>5, <1>6, <1>7 DEF Next, Lookup

\* A movement is a movement of the atomic wallet.
LEMMA MoveImplements ==
    ASSUME IInv, RequestInv, NEW s \in Sessions,
           ConsumeCredit(s) \/ RepayCredit(s) \/ ManualAdjustUsed(s)
    PROVE  Promise!WalletNext
<1> DEFINE k == sess[s].key
           d == sess[s].delta
<1>1. /\ acct.exists /\ acct.status = "ACTIVE" /\ acct.used \in Nat /\ d \in Int
      /\ acct.used + d \in Nat /\ ~KeyUsed(k) /\ sess[s].pc = "write"
      /\ k \in Keys \cup {NoKey}
  BY MoveShape
<1>2. acct' = [acct EXCEPT !.used = acct.used + d]
  BY MoveLedger
<1>3. k \notin AppliedKeys
  BY <1>1 DEF AppliedKeys, KeyUsed
<1>4. AppliedKeys' = AppliedKeys \cup ({k} \ {NoKey})
  <2> DEFINE e == [type |-> sess[s].op, key |-> k, delta |-> d, usedAfter |-> acct.used + d]
  <2>1. e \in LedgerEntry /\ ledger \in Seq(LedgerEntry) /\ ledger' = Append(ledger, e)
    BY MoveLedger
  <2>2. e.key = k
    OBVIOUS
  <2>3. /\ Len(ledger) \in Nat /\ Len(ledger') = Len(ledger) + 1
        /\ \A i \in 1..Len(ledger) : ledger'[i] = ledger[i]
        /\ ledger'[Len(ledger) + 1] = e
    BY <2>1, EntryAppended
  <2> HIDE DEF e
  <2>4. 1..Len(ledger') = (1..Len(ledger)) \cup {Len(ledger) + 1}
    BY <2>3
  <2>5. {ledger'[i].key : i \in 1..Len(ledger')} = {ledger[i].key : i \in 1..Len(ledger)} \cup {k}
    BY <2>2, <2>3, <2>4
  <2> QED
    BY <2>5 DEF AppliedKeys
<1>5. Promise!Move(k, d)
  BY <1>1, <1>2, <1>3, <1>4 DEF Promise!Move
<1>6. sess[s].snap = acct
  BY HeldRow, <1>1 DEF ConsumeCredit, RepayCredit, ManualAdjustUsed, Ops, MoneyOps
<1>7. CASE ConsumeCredit(s)
  <2>1. k \in Keys /\ d \in Amounts
    BY <1>1, <1>7 DEF RequestInv, ConsumeCredit, Holding
  <2>2. Promise!Consume(k, d)
    BY <1>5, <1>6, <1>7 DEF ConsumeCredit, Promise!Consume
  <2> QED
    BY <2>1, <2>2 DEF Promise!WalletNext
<1>8. CASE RepayCredit(s)
  <2>1. k \in Keys /\ -d \in Amounts /\ -(-d) = d
    BY <1>1, <1>8 DEF RequestInv, RepayCredit, Holding
  <2>2. Promise!Repay(k, -d)
    BY <1>5, <2>1 DEF Promise!Repay
  <2> QED
    BY <2>1, <2>2 DEF Promise!WalletNext
<1>9. CASE ManualAdjustUsed(s)
  <2>1. PICK a \in Amounts : d \in {a, -a}
    BY <1>1, <1>9 DEF RequestInv, ManualAdjustUsed, Holding
  <2>2. Promise!Adjust(k, d)
    BY <1>5, <1>6, <1>9 DEF ManualAdjustUsed, Promise!Adjust
  <2>3. Promise!Adjust(k, a) \/ Promise!Adjust(k, -a)
    BY <2>1, <2>2
  <2> QED
    BY <1>1, <2>3 DEF Promise!WalletNext
<1> QED
  BY <1>7, <1>8, <1>9

\* A status change is one of the atomic wallet's legal changes.
LEMMA StatusImplements ==
    ASSUME IInv, NEW s \in Sessions,
           PlaceHold(s) \/ ReleaseHold(s) \/ SuspendAccount(s)
             \/ ReactivateAccount(s) \/ CloseAccount(s)
    PROVE  Promise!WalletNext \/ UNCHANGED <<acct, AppliedKeys>>
<1> DEFINE snap == sess[s].snap
<1>1. PICK o \in StatusOps : Holding(s, o)
  BY StatusOpShape
<1>2. snap \in Row /\ snap.exists /\ acct \in Row
  BY <1>1, HeldRow DEF Ops, IInv, TypeOK
<1>3. snap.limit \in Limits \cup {NoLimit} /\ Promise!Opened(snap.limit) = snap
  <2>1. CASE acct.exists
    BY <1>1, <1>2, <2>1, HeldRow DEF Ops, StatusOps, Promise!Opened, Row
  <2>2. CASE ~acct.exists
    <3>1. snap.status = "ACTIVE" /\ snap.used = 0
      BY <1>1, <2>2 DEF IInv, SnapInv, Holding
    <3> QED
      BY <1>2, <2>2, <3>1 DEF Promise!Opened, Row
  <2> QED
    BY <2>1, <2>2
<1>4. \/ UNCHANGED <<acct, ledger>>
      \/ \E to \in Statuses : ChangeStatus(s, to) /\ <<snap.status, to>> \in Promise!LegalChanges
  <2>1. snap.status \in Statuses
    BY <1>2 DEF Row
  <2> QED
    BY <2>1 DEF PlaceHold, ReleaseHold, SuspendAccount, ReactivateAccount, CloseAccount,
                Statuses, Promise!LegalChanges
<1>5. ASSUME NEW to \in Statuses, ChangeStatus(s, to), <<snap.status, to>> \in Promise!LegalChanges
      PROVE  Promise!SetStatus(snap.limit, to)
  <2>1. acct' = [snap EXCEPT !.status = to] /\ AppliedKeys' = AppliedKeys
    BY <1>5 DEF ChangeStatus, AppliedKeys
  <2> QED
    BY <1>3, <1>5, <2>1 DEF Promise!SetStatus
<1>6. UNCHANGED <<acct, ledger>> => UNCHANGED <<acct, AppliedKeys>>
  BY DEF AppliedKeys
<1> QED
  BY <1>3, <1>4, <1>5, <1>6 DEF Promise!WalletNext, Statuses

\* Two rows with equal columns are equal.
LEMMA SameRow ==
    ASSUME NEW p \in Row, NEW q \in Row, p.exists = q.exists, p.status = q.status,
           p.limit = q.limit, p.used = q.used
    PROVE  p = q
BY DEF Row

\* An approval, however old its copy of the row, is an approval of the
\* atomic wallet.
LEMMA ApprovalImplements ==
    ASSUME IInv, RequestInv, NEW s \in Sessions, ProvisionAccount(s)
    PROVE  Promise!WalletNext
<1> DEFINE snap == sess[s].snap
           l == sess[s].limit
           row == Promise!Opened(l)
           limit == IF l # snap.limit THEN l ELSE row.limit
           status == IF snap.status # "ACTIVE" THEN "ACTIVE" ELSE row.status
<1>1. snap \in Row /\ snap.exists /\ acct \in Row /\ l \in Limits
  <2>1. Holding(s, "PROVISION")
    BY DEF ProvisionAccount
  <2> QED
    BY <2>1, HeldRow DEF Ops, IInv, TypeOK, RequestInv, Holding
<1>2. row \in Row
  BY <1>1 DEF Promise!Opened, Row, Statuses
<1>3. acct' = [row EXCEPT !.limit = limit, !.status = status]
  <2>1. CASE acct.exists
    BY <1>1, <2>1 DEF ProvisionAccount, Promise!Opened, Row
  <2>2. CASE ~acct.exists
    <3>1. snap.status = "ACTIVE" /\ snap.used = 0
      BY <2>2 DEF ProvisionAccount, IInv, SnapInv, Holding
    <3>2. acct' \in Row /\ acct'.exists /\ acct'.status = "ACTIVE" /\ acct'.used = 0
      BY <1>1, <2>2, <3>1 DEF ProvisionAccount, Row, Statuses
    <3>3. acct'.limit = l
      BY <1>1, <2>2 DEF ProvisionAccount, Row
    <3>4. /\ row.exists /\ row.status = "ACTIVE" /\ row.limit = l /\ row.used = 0
      BY <2>2 DEF Promise!Opened
    <3>5. limit = l /\ status = "ACTIVE"
      BY <3>1, <3>4
    <3>6. [row EXCEPT !.limit = limit, !.status = status] = row
      BY <1>2, <3>4, <3>5 DEF Row
    <3>7. acct' = row
      BY <1>2, <3>2, <3>3, <3>4, SameRow
    <3> QED
      BY <3>6, <3>7
  <2> QED
    BY <2>1, <2>2
<1>4. AppliedKeys' = AppliedKeys
  BY DEF ProvisionAccount, AppliedKeys
<1>5. limit \in {row.limit, l} /\ status \in {row.status, "ACTIVE"}
  OBVIOUS
<1>6. limit \in Limits \cup {NoLimit} /\ status \in Statuses
  BY <1>1, <1>2 DEF Row, Statuses
<1>7. Promise!Approve(l, limit, status)
  BY <1>3, <1>4, <1>5 DEF Promise!Approve
<1> QED
  BY <1>1, <1>6, <1>7 DEF Promise!WalletNext, Statuses

\* CreditAccount implements Wallet: to its callers the wallet is atomic.
THEOREM WalletIsAtomic == Spec => ImplementsWallet
<1>1. Init => Promise!WalletInit
  <2>1. Init => AppliedKeys = {}
    BY DEF Init, AppliedKeys
  <2> QED
    BY <2>1 DEF Init, NoAccount, Promise!WalletInit
<1>2. ASSUME IInv, RequestInv, [Next]_vars
      PROVE  Promise!WalletNext \/ UNCHANGED <<acct, AppliedKeys>>
  <2>1. CASE UNCHANGED vars
    BY <2>1 DEF vars, AppliedKeys
  <2>2. ASSUME NEW s \in Sessions, Begin(s) \/ Lookup(s) \/ AcquireLock(s) \/ Rollback(s)
        PROVE  UNCHANGED <<acct, AppliedKeys>>
    <3>1. UNCHANGED <<acct, ledger>>
      BY <2>2 DEF Begin, AssertCanConsume, StartRepay, StartAdjust, StartStatusOp,
                  StartPatchCreditLimit, StartProvision, Start, Lookup, CheckIdempotentDup,
                  ReturnDup, AcquireLock, LoadAccountLocked, CreateAccount, Rollback
    <3> QED
      BY <3>1 DEF AppliedKeys
  <2>3. ASSUME NEW s \in Sessions, PatchCreditLimit(s)
        PROVE  Promise!WalletNext
    <3>1. acct.exists /\ sess[s].limit \in Limits
      BY <1>2, <2>3, HeldRow DEF PatchCreditLimit, Ops, RequestInv, Holding
    <3>2. Promise!SetLimit(sess[s].limit)
      BY <2>3, <3>1 DEF PatchCreditLimit, Promise!SetLimit, AppliedKeys
    <3> QED
      BY <3>1, <3>2 DEF Promise!WalletNext
  <2> QED
    BY <1>2, <2>1, <2>2, <2>3, MoveImplements, StatusImplements, ApprovalImplements
       DEF Next, Write
<1>3. Spec => [](IInv /\ RequestInv)
  <2>1. Init => RequestInv
    BY DEF Init, RequestInv, Idle
  <2> QED
    BY <2>1, InitIInv, NextIInv, RequestInvStep, PTL DEF Spec
<1>4. IInv /\ RequestInv /\ [Next]_vars => [Promise!WalletNext]_(Promise!wvars)
  BY <1>2 DEF Promise!wvars
<1> QED
  BY <1>1, <1>3, <1>4, PTL DEF Spec, ImplementsWallet, Promise!WalletSpec

-----------------------------------------------------------------------------
(* The scheduled settings are columns of the same row with a history of    *)
(* their own, and share no operation with the wallet.  Their theorems are  *)
(* about module CreditSettings, for all organisations, values and dates.   *)

\* The type of the history tables.  SettingsInv is inductive.
History == [Orgs -> [Kinds -> Seq(HistRow)]]

SettingsInv == SettingsTypeOK /\ hist \in History /\ PendingHasRow

\* One more history row: the rows before it are as they were.
RowAdded(h, g, o, k, r) ==
    /\ g \in History
    /\ \A p \in Orgs, l \in Kinds :
          /\ p # o \/ l # k => g[p][l] = h[p][l]
          /\ Len(g[p][l]) \in Nat /\ Len(h[p][l]) \in Nat /\ Len(h[p][l]) <= Len(g[p][l])
          /\ \A i \in 1..Len(h[p][l]) : g[p][l][i] = h[p][l][i]
    /\ Len(h[o][k]) + 1 \in 1..Len(g[o][k])
    /\ g[o][k][Len(h[o][k]) + 1] = r

LEMMA RowAppended ==
    ASSUME NEW h \in History, NEW o \in Orgs, NEW k \in Kinds, NEW r \in HistRow,
           NEW g, g = [h EXCEPT ![o][k] = Append(h[o][k], r)]
    PROVE  RowAdded(h, g, o, k, r)
<1> DEFINE s == h[o][k]
<1>1. s \in Seq(HistRow) /\ Len(s) \in Nat
  BY DEF History
<1>2. /\ Append(s, r) \in Seq(HistRow)
      /\ Len(Append(s, r)) = Len(s) + 1
      /\ Append(s, r)[Len(s) + 1] = r
      /\ \A i \in 1..Len(s) : Append(s, r)[i] = s[i]
  BY <1>1, AppendProperties
<1>3. g \in History
  BY <1>2 DEF History
<1>4. g[o][k] = Append(s, r) /\ \A p \in Orgs, l \in Kinds : p # o \/ l # k => g[p][l] = h[p][l]
  BY DEF History
<1>5. ASSUME NEW p \in Orgs, NEW l \in Kinds
      PROVE  /\ Len(g[p][l]) \in Nat /\ Len(h[p][l]) \in Nat /\ Len(h[p][l]) <= Len(g[p][l])
             /\ \A i \in 1..Len(h[p][l]) : g[p][l][i] = h[p][l][i]
  <2>1. h[p][l] \in Seq(HistRow) /\ Len(h[p][l]) \in Nat
    BY DEF History
  <2>2. CASE p = o /\ l = k
    BY <1>1, <1>2, <1>4, <2>2
  <2>3. CASE p # o \/ l # k
    BY <2>1, <2>3, <1>4
  <2> QED
    BY <2>2, <2>3
<1>6. Len(s) + 1 \in 1..Len(g[o][k]) /\ g[o][k][Len(s) + 1] = r
  BY <1>1, <1>2, <1>4
<1> QED
  BY <1>3, <1>4, <1>5, <1>6 DEF RowAdded

\* No settings are pending at first.
LEMMA SettingsInitHolds == ASSUME SettingsInit PROVE SettingsInv
<1> USE SettingsAssumption DEF SettingsInit
<1>1. hist \in History
  BY DEF History
<1>2. SettingsTypeOK
  <2>1. today \in Days /\ crashes \in 0..MaxCrashes
    BY DEF Days
  <2>2. job \in [on : BOOLEAN, todo : SUBSET Orgs, done : SUBSET Orgs]
    BY DEF NoJob
  <2>3. \A o \in Orgs, k \in Kinds : hist[o][k] \in Seq(HistRow)
    BY <1>1 DEF History
  <2>4. /\ value \in [Orgs -> [Kinds -> Values \cup {NoValue}]]
        /\ pending \in [Orgs -> [Kinds -> Pending \cup {NoValue}]]
    OBVIOUS
  <2> QED
    BY <2>1, <2>2, <2>3, <2>4 DEF SettingsTypeOK
<1>3. PendingHasRow
  BY DEF PendingHasRow
<1> QED
  BY <1>1, <1>2, <1>3 DEF SettingsInv

\* Steps that touch neither what is pending nor the history.
LEMMA SettingsFrame ==
    ASSUME SettingsInv, UNCHANGED <<pending, hist>>
    PROVE  hist' \in History /\ PendingHasRow'
BY DEF SettingsInv, PendingHasRow, Scheduled, History

\* patch_credit_limit, patch_payment_terms
LEMMA PatchKeeps ==
    ASSUME SettingsInv, NEW o \in Orgs, NEW k \in Kinds,
           NEW v \in Values, NEW eff \in Days,
           PatchNow(o, k, v, eff) \/ PatchLater(o, k, v, eff)
    PROVE  SettingsInv'
<1>1. PICK r \in HistRow :
        /\ hist' = [hist EXCEPT ![o][k] = Append(@, r)]
        /\ \/ /\ pending' = [pending EXCEPT ![o][k] = NoValue]
              /\ value' = [value EXCEPT ![o][k] = v]
           \/ /\ pending' = [pending EXCEPT ![o][k] = [v |-> v, eff |-> eff]]
              /\ r.status = "SCHEDULED" /\ r.eff = eff /\ r.v = v
              /\ UNCHANGED value
        /\ UNCHANGED <<today, ran, job, crashes>>
  <2>1. CASE PatchNow(o, k, v, eff)
    <3>1. [v |-> v, eff |-> eff, status |-> "APPLIED"] \in HistRow
      BY DEF HistRow
    <3> QED
      BY <2>1, <3>1 DEF PatchNow, AppendRow
  <2>2. CASE PatchLater(o, k, v, eff)
    <3>1. [v |-> v, eff |-> eff, status |-> "SCHEDULED"] \in HistRow
      BY DEF HistRow
    <3> QED
      BY <2>2, <3>1 DEF PatchLater, AppendRow
  <2> QED
    BY <2>1, <2>2
<1>2. RowAdded(hist, hist', o, k, r)
  <2>1. PICK h, g : h = hist /\ g = hist'
    OBVIOUS
  <2>2. h \in History /\ g = [h EXCEPT ![o][k] = Append(h[o][k], r)]
    BY <1>1, <2>1 DEF SettingsInv
  <2>3. RowAdded(h, g, o, k, r)
    BY <1>1, <2>2, RowAppended
  <2> QED
    BY <2>1, <2>3
<1>3. SettingsTypeOK'
  <2>1. [v |-> v, eff |-> eff] \in Pending
    BY DEF Pending
  <2> DEFINE P == Pending \cup {NoValue}
             V == Values \cup {NoValue}
  <2>0. /\ pending \in [Orgs -> [Kinds -> P]] /\ value \in [Orgs -> [Kinds -> V]]
        /\ NoValue \in P /\ [v |-> v, eff |-> eff] \in P /\ v \in V
    BY <2>1 DEF SettingsInv, SettingsTypeOK
  <2> HIDE DEF P, V
  <2>2a. ASSUME NEW x \in P PROVE [pending EXCEPT ![o][k] = x] \in [Orgs -> [Kinds -> P]]
    BY <2>0
  <2>3a. [value EXCEPT ![o][k] = v] \in [Orgs -> [Kinds -> V]]
    BY <2>0
  <2>2. pending' \in [Orgs -> [Kinds -> Pending \cup {NoValue}]]
    BY <1>1, <2>0, <2>2a DEF P
  <2>3. value' \in [Orgs -> [Kinds -> Values \cup {NoValue}]]
    BY <1>1, <2>0, <2>3a DEF V
  <2> QED
    BY <1>1, <1>2, <2>2, <2>3 DEF SettingsInv, SettingsTypeOK, History, RowAdded
<1>4. ASSUME NEW p \in Orgs, NEW l \in Kinds, pending'[p][l] # NoValue
      PROVE  \E i \in 1..Len(hist'[p][l]) :
                /\ hist'[p][l][i].status = "SCHEDULED"
                /\ hist'[p][l][i].eff = pending'[p][l].eff
                /\ hist'[p][l][i].v = pending'[p][l].v
  <2>1. CASE p = o /\ l = k
    <3>1. pending'[o][k] = [v |-> v, eff |-> eff] /\ r.status = "SCHEDULED" /\ r.eff = eff /\ r.v = v
      BY <1>1, <1>4, <2>1 DEF SettingsInv, SettingsTypeOK
    <3>2. pending'[o][k].v = v /\ pending'[o][k].eff = eff
      BY <3>1
    <3> QED
      BY <1>2, <2>1, <3>1, <3>2 DEF RowAdded
  <2>2. CASE p # o \/ l # k
    <3>1. pending'[p][l] = pending[p][l] /\ hist'[p][l] = hist[p][l]
      BY <1>1, <1>2, <2>2 DEF SettingsInv, SettingsTypeOK, RowAdded
    <3> QED
      BY <1>4, <3>1 DEF SettingsInv, PendingHasRow, Scheduled
  <2> QED
    BY <2>1, <2>2
<1>5. PendingHasRow'
  BY <1>4 DEF PendingHasRow, Scheduled
<1> QED
  BY <1>2, <1>3, <1>5 DEF SettingsInv, RowAdded

\* A history after the job: same rows, and one is marked only where a due
\* value was found by it alone.
LEMMA CommitMarks ==
    ASSUME SettingsInv, CommitJob
    PROVE  /\ hist' \in History
           /\ \A o \in Orgs, k \in Kinds :
                 /\ Len(hist'[o][k]) = Len(hist[o][k])
                 /\ \A i \in 1..Len(hist[o][k]) :
                       \/ hist'[o][k][i] = hist[o][k][i]
                       \/ /\ Locked(o) /\ Due(o, k)
                          /\ Scheduled(o, k, pending[o][k].eff) = {i}
                          /\ hist'[o][k][i] = [hist[o][k][i] EXCEPT !.status = "APPLIED"]
<1>1. hist \in History
  BY DEF SettingsInv
<1>2. ASSUME NEW o \in Orgs, NEW k \in Kinds, NEW i \in 1..Len(hist[o][k])
      PROVE  /\ Mark(o, k, i) \in HistRow
             /\ \/ Mark(o, k, i) = hist[o][k][i]
                \/ /\ Due(o, k) /\ Scheduled(o, k, pending[o][k].eff) = {i}
                   /\ Mark(o, k, i) = [hist[o][k][i] EXCEPT !.status = "APPLIED"]
  <2>1. hist[o][k] \in Seq(HistRow)
    BY <1>1 DEF History
  <2>2. hist[o][k][i] \in HistRow
    BY <2>1
  <2>3. [hist[o][k][i] EXCEPT !.status = "APPLIED"] \in HistRow
    BY <2>2 DEF HistRow
  <2> QED
    BY <2>2, <2>3 DEF Mark
<1>3. ASSUME NEW o \in Orgs, NEW k \in Kinds
      PROVE  /\ hist'[o][k] = IF Locked(o)
                              THEN [i \in 1..Len(hist[o][k]) |-> Mark(o, k, i)]
                              ELSE hist[o][k]
             /\ hist'[o][k] \in Seq(HistRow)
             /\ Len(hist'[o][k]) = Len(hist[o][k])
  <2> DEFINE m == [i \in 1..Len(hist[o][k]) |-> Mark(o, k, i)]
  <2>1. hist[o][k] \in Seq(HistRow) /\ Len(hist[o][k]) \in Nat
    BY <1>1 DEF History
  <2>2. m \in [1..Len(hist[o][k]) -> HistRow]
    BY <1>2
  <2>3. m \in Seq(HistRow) /\ Len(m) = Len(hist[o][k])
    BY <2>1, <2>2, SeqDef
  <2>4. hist'[o][k] = IF Locked(o) THEN m ELSE hist[o][k]
    BY DEF CommitJob
  <2> QED
    BY <2>1, <2>3, <2>4
<1>4. hist' \in History
  <2>1. hist' = [o \in Orgs |-> [k \in Kinds |-> hist'[o][k]]]
    BY DEF CommitJob
  <2> QED
    BY <1>3, <2>1 DEF History
<1>5. ASSUME NEW o \in Orgs, NEW k \in Kinds, NEW i \in 1..Len(hist[o][k])
      PROVE  \/ hist'[o][k][i] = hist[o][k][i]
             \/ /\ Locked(o) /\ Due(o, k)
                /\ Scheduled(o, k, pending[o][k].eff) = {i}
                /\ hist'[o][k][i] = [hist[o][k][i] EXCEPT !.status = "APPLIED"]
  <2>1. CASE Locked(o)
    <3>1. hist'[o][k][i] = Mark(o, k, i)
      BY <1>3, <2>1
    <3> QED
      BY <1>2, <2>1, <3>1
  <2>2. CASE ~Locked(o)
    BY <1>3, <2>2
  <2> QED
    BY <2>1, <2>2
<1> QED
  BY <1>3, <1>4, <1>5

\* apply_due_scheduled_credit_and_terms clears exactly what was due in the rows it locked.
LEMMA CommitKeeps == ASSUME SettingsInv, CommitJob PROVE SettingsInv'
<1>1. pending \in [Orgs -> [Kinds -> Pending \cup {NoValue}]]
  BY DEF SettingsInv, SettingsTypeOK
<1>2. \A o \in Orgs, k \in Kinds :
         /\ pending'[o][k] = IF Locked(o) /\ Due(o, k) THEN NoValue ELSE pending[o][k]
         /\ value'[o][k] = IF Locked(o) /\ Due(o, k) THEN pending[o][k].v ELSE value[o][k]
  BY DEF CommitJob
<1>3. SettingsTypeOK'
  <2>1. pending' \in [Orgs -> [Kinds -> Pending \cup {NoValue}]]
    BY <1>1 DEF CommitJob
  <2>2. ASSUME NEW o \in Orgs, NEW k \in Kinds PROVE value'[o][k] \in Values \cup {NoValue}
    <3>1. CASE Locked(o) /\ Due(o, k)
      <4>1. pending[o][k] \in Pending
        BY <1>1, <3>1 DEF Due
      <4> QED
        BY <1>2, <3>1, <4>1 DEF Pending
    <3>2. CASE ~(Locked(o) /\ Due(o, k))
      BY <1>2, <3>2 DEF SettingsInv, SettingsTypeOK
    <3> QED
      BY <3>1, <3>2
  <2>3. value' = [o \in Orgs |-> [k \in Kinds |-> value'[o][k]]]
    BY DEF CommitJob
  <2>4. value' \in [Orgs -> [Kinds -> Values \cup {NoValue}]]
    BY <2>2, <2>3
  <2> QED
    BY <2>1, <2>4, CommitMarks
       DEF SettingsInv, SettingsTypeOK, CommitJob, NoJob, History
<1>4. ASSUME NEW o \in Orgs, NEW k \in Kinds, pending'[o][k] # NoValue
      PROVE  \E i \in 1..Len(hist'[o][k]) :
                /\ hist'[o][k][i].status = "SCHEDULED"
                /\ hist'[o][k][i].eff = pending'[o][k].eff
                /\ hist'[o][k][i].v = pending'[o][k].v
  <2>1. ~(Locked(o) /\ Due(o, k)) /\ pending'[o][k] = pending[o][k]
    BY <1>2, <1>4
  <2>2. \A i \in 1..Len(hist[o][k]) : hist'[o][k][i] = hist[o][k][i]
    BY <2>1, CommitMarks
  <2>3. Len(hist'[o][k]) = Len(hist[o][k])
    BY CommitMarks
  <2> QED
    BY <1>4, <2>1, <2>2, <2>3 DEF SettingsInv, PendingHasRow, Scheduled
<1>5. PendingHasRow'
  BY <1>4 DEF PendingHasRow, Scheduled
<1> QED
  BY <1>3, <1>5, CommitMarks DEF SettingsInv

\* Every step of administrators, clock and job keeps the invariant.
LEMMA SettingsNextKeeps ==
    ASSUME SettingsInv, [SettingsNext]_settingsVars
    PROVE  SettingsInv'
<1>1. CASE Admin
  BY <1>1, PatchKeeps DEF Admin
<1>2. CASE CommitJob
  BY <1>2, CommitKeeps
<1>3. ASSUME NEW o \in Orgs, NEW v \in Values, Provision(o, v) PROVE SettingsInv'
  <2>1. value' \in [Orgs -> [Kinds -> Values \cup {NoValue}]]
    BY <1>3 DEF SettingsInv, SettingsTypeOK, Provision
  <2> QED
    BY <1>3, <2>1, SettingsFrame DEF SettingsInv, SettingsTypeOK, Provision
<1>4. CASE Tick
  <2>1. today' \in Days
    BY <1>4, SettingsAssumption DEF SettingsInv, SettingsTypeOK, Tick, Days
  <2>2. UNCHANGED <<value, pending, hist, job, crashes>> /\ ran' \in BOOLEAN
    BY <1>4 DEF Tick
  <2> QED
    BY <2>1, <2>2, SettingsFrame DEF SettingsInv, SettingsTypeOK
<1>5. CASE ListDue
  BY <1>5, SettingsFrame DEF SettingsInv, SettingsTypeOK, ListDue
<1>6. ASSUME NEW o \in Orgs, HandleOrg(o) \/ FailOnOrg(o) PROVE SettingsInv'
  <2>1. job' \in [on : BOOLEAN, todo : SUBSET Orgs, done : SUBSET Orgs]
    <3> DEFINE j == job
    <3>0. j \in [on : BOOLEAN, todo : SUBSET Orgs, done : SUBSET Orgs]
      BY DEF SettingsInv, SettingsTypeOK
    <3> HIDE DEF j
    <3>1. /\ [j EXCEPT !.todo = j.todo \ {o}, !.done = j.done \cup {o}]
               \in [on : BOOLEAN, todo : SUBSET Orgs, done : SUBSET Orgs]
      BY <3>0
    <3>2. NoJob \in [on : BOOLEAN, todo : SUBSET Orgs, done : SUBSET Orgs]
      BY DEF NoJob
    <3> QED
      BY <1>6, <3>1, <3>2 DEF HandleOrg, FailOnOrg, j
  <2>2. UNCHANGED <<today, ran, value, pending, hist, crashes>>
    BY <1>6 DEF HandleOrg, FailOnOrg
  <2> QED
    BY <2>1, <2>2, SettingsFrame DEF SettingsInv, SettingsTypeOK
<1>7. CASE Crash
  BY <1>7, SettingsFrame, SettingsAssumption
     DEF SettingsInv, SettingsTypeOK, Crash, NoJob
<1>8. CASE UNCHANGED settingsVars
  BY <1>8, SettingsFrame DEF SettingsInv, SettingsTypeOK, settingsVars
<1> QED
  BY <1>1, <1>2, <1>3, <1>4, <1>5, <1>6, <1>7, <1>8 DEF SettingsNext, JobStep

\* The invariant holds in every behaviour.
LEMMA SettingsInvariant == SettingsSpec => []SettingsInv
BY SettingsInitHolds, SettingsNextKeeps, PTL DEF SettingsSpec

\* patch_credit_limit, patch_payment_terms and the daily job: a pending value
\* always has a SCHEDULED history row of its own, for any organisations,
\* values and dates and however the job and administrators interleave.
THEOREM PendingIsRecorded ==
    SettingsSpec => []PendingHasRow
<1>1. SettingsInv => PendingHasRow
  BY DEF SettingsInv
<1> QED
  BY <1>1, SettingsInvariant, PTL

\* Only the commit of the job turns a row to APPLIED.
LEMMA OnlyCommitMarks ==
    ASSUME SettingsInv, [SettingsNext]_settingsVars, ~CommitJob,
           NEW o \in Orgs, NEW k \in Kinds, NEW i \in 1..Len(hist[o][k])
    PROVE  hist'[o][k][i] = hist[o][k][i]
<1>1. ASSUME NEW p \in Orgs, NEW l \in Kinds, NEW v \in Values, NEW eff \in Days,
             PatchNow(p, l, v, eff) \/ PatchLater(p, l, v, eff)
      PROVE  hist'[o][k][i] = hist[o][k][i]
  <2>1. PICK r : hist' = [hist EXCEPT ![p][l] = Append(hist[p][l], r)]
    BY <1>1 DEF PatchNow, PatchLater, AppendRow
  <2>2. hist[p][l] \in Seq(HistRow) /\ hist[o][k] \in Seq(HistRow)
    BY DEF SettingsInv, History
  <2>3. hist'[o][k] = IF o = p /\ k = l THEN Append(hist[p][l], r) ELSE hist[o][k]
    BY <2>1 DEF SettingsInv, History
  <2> QED
    BY <2>2, <2>3
<1>2. CASE UNCHANGED hist
  BY <1>2
<1> QED
  BY <1>1, <1>2
     DEF SettingsNext, Admin, JobStep, Provision, Tick,
         ListDue, HandleOrg, FailOnOrg, Crash, settingsVars

\* apply_due_scheduled_credit_and_terms: a row that the job turns to APPLIED has the
\* value that is in force after its commit, and its date has come.  The row
\* it finds alone is the one PendingHasRow promises.
THEOREM AppliedIsTrue ==
    SettingsSpec => AppliedRowIsTrue
<1> DEFINE True(o, k, i) ==
      hist[o][k][i].status = "SCHEDULED" /\ hist'[o][k][i].status = "APPLIED" =>
         value'[o][k] = hist[o][k][i].v /\ hist[o][k][i].eff <= today
<1>1. ASSUME SettingsInv, CommitJob,
             NEW o \in Orgs, NEW k \in Kinds, NEW i \in 1..Len(hist[o][k]),
             hist[o][k][i].status = "SCHEDULED", hist'[o][k][i].status = "APPLIED"
      PROVE  value'[o][k] = hist[o][k][i].v /\ hist[o][k][i].eff <= today
  <2>1. /\ Locked(o) /\ Due(o, k)
        /\ Scheduled(o, k, pending[o][k].eff) = {i}
    BY <1>1, CommitMarks
  <2>2. value'[o][k] = pending[o][k].v
    BY <1>1, <2>1 DEF CommitJob
  <2>3. PICK j \in Scheduled(o, k, pending[o][k].eff) : hist[o][k][j].v = pending[o][k].v
    BY <1>1, <2>1 DEF SettingsInv, PendingHasRow, Due
  <2>4. j = i /\ hist[o][k][i].eff = pending[o][k].eff
    BY <2>1, <2>3 DEF Scheduled
  <2> QED
    BY <2>1, <2>2, <2>3, <2>4 DEF Due
<1>2. SettingsInv /\ [SettingsNext]_settingsVars =>
         [\A o \in Orgs, k \in Kinds : \A i \in 1..Len(hist[o][k]) : True(o, k, i)]_settingsVars
  <2> SUFFICES ASSUME SettingsInv, [SettingsNext]_settingsVars,
                      NEW o \in Orgs, NEW k \in Kinds, NEW i \in 1..Len(hist[o][k])
               PROVE  True(o, k, i)
    OBVIOUS
  <2>1. CASE CommitJob
    BY <1>1, <2>1
  <2>2. CASE ~CommitJob
    BY <2>2, OnlyCommitMarks
  <2> QED
    BY <2>1, <2>2
<1> QED
  BY <1>2, SettingsInvariant, PTL DEF SettingsSpec, AppliedRowIsTrue
=============================================================================

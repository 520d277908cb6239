--------------------------- MODULE RefundsProofs ---------------------------
(***************************************************************************)
(* Proofs about Refunds for any sessions, refunds, keys and amount and any *)
(* number of requests.                                                     *)
(*                                                                         *)
(* The invariant follows a refund from the request that creates it: until  *)
(* its row is committed no other request works on it, and from the check   *)
(* of the amount on the request holds the payment.  Money leaves the       *)
(* gateway once, and at most one row or one uncommitted row records it.    *)
(***************************************************************************)
EXTENDS Refunds, SumTheorems, TLAPS

Steps == {"idle", "lock", "gateway", "commit", "retry", "mark", "webhook"}

SessionRow == [pc : Steps, id : Refunds \cup {None}, row : RefundRow \cup {None}]

SessTypeOK == sess \in [Sessions -> SessionRow]

\* A request that writes a refund, new or read from its row
Writing == {"lock", "gateway", "commit"}
Paying == {"gateway", "commit"}

\* What a request works on.
SubjectInv(x) ==
    /\ x.pc = "idle" => x.id = None
    /\ x.pc # "idle" => x.id \in Refunds /\ x.row \in RefundRow
    /\ x.pc \in {"retry", "mark", "webhook"} => refund[x.id] # None

\* A request that creates a refund has the payment from the check on, so the
\* key stays free and there stays room for the credit.
CreateInv(s, x) ==
    /\ x.pc = "lock" => refund[x.id] = None
    /\ x.pc \in Writing /\ refund[x.id] = None =>
          /\ x.row.method # "CARD_REFUND" => x.row.completions = 0
          /\ x.row.method = "CREDIT_NOTE" => x.row.processed = x.row.requested
          /\ x.pc # "commit" /\ x.row.method = "CARD_REFUND" => x.row.processed = 0
    /\ x.pc \in Paying /\ refund[x.id] = None =>
          /\ lock[Payment] = s
          /\ ~KeyTaken(x.row.key)
          /\ x.row.method = "CREDIT_NOTE" =>
                SumOver(RowsOf("CREDIT_NOTE")) + x.row.processed <= Amount

\* A request that tries a card refund again works on the same refund.
RetryInv(x) ==
    /\ x.pc = "retry" \/ (x.pc \in Paying /\ refund[x.id] # None) =>
          /\ x.row.method = "CARD_REFUND" /\ refund[x.id].method = "CARD_REFUND"
          /\ x.row.key = refund[x.id].key
    /\ x.pc = "retry" => x.row.processed = 0
    /\ x.pc = "gateway" => x.row.method = "CARD_REFUND" /\ x.row.processed = 0
    /\ x.pc = "webhook" => refund[x.id].method = "CARD_REFUND"
    /\ x.pc = "commit" /\ x.row.method = "CARD_REFUND" /\ x.row.status = "FAILED" =>
          x.row.processed = 0

\* A transfer that is to be marked is as it was read while its version is.
MarkInv(x) ==
    x.pc = "mark" => /\ refund[x.id].method = "BANK_TRANSFER"
                     /\ x.row.version <= refund[x.id].version
                     /\ x.row.version = refund[x.id].version => refund[x.id].completions = 0

\* The uncommitted row that records the money that has left
Carries(x) == x.pc = "commit" /\ x.row.method = "CARD_REFUND" /\ x.row.processed > 0

\* The gateway reverses the transaction once, and at most one row, committed
\* or not, records it.
MovedInv ==
    /\ tx.status # "reversed" => tx.moved = 0
    /\ \A r \in RowsOf("CARD_REFUND") :
          /\ refund[r].processed \in {0, tx.moved}
          /\ refund[r].status = "FAILED" => refund[r].processed = 0
    /\ \A r, q \in RowsOf("CARD_REFUND") :
          refund[r].processed > 0 /\ refund[q].processed > 0 => r = q
    /\ \A s \in Sessions : Carries(sess[s]) =>
          /\ sess[s].row.processed = tx.moved
          /\ \A r \in RowsOf("CARD_REFUND") : refund[r].processed = 0
          /\ \A t \in Sessions : Carries(sess[t]) => t = s

\* Only its own request knows the id of a refund that is not committed yet.
OwnInv ==
    \A s, t \in Sessions :
        sess[s].pc \in Writing /\ refund[sess[s].id] = None /\ sess[t].id = sess[s].id => s = t

\* A transfer that waits to be marked was never completed.
TransferInv ==
    \A r \in RowsOf("BANK_TRANSFER") :
        refund[r].status = "INITIATED" => refund[r].completions = 0

SessInv(s, x) == SubjectInv(x) /\ CreateInv(s, x) /\ RetryInv(x) /\ MarkInv(x)

IInv ==
    /\ TypeOK /\ SessTypeOK
    /\ OneRefundPerKey /\ CreditRefundsCovered /\ TransferCompletedOnce /\ TransferInv
    /\ MovedInv /\ OwnInv
    /\ \A s \in Sessions : SessInv(s, sess[s])

-----------------------------------------------------------------------------
(* Rows and sums *)

LEMMA RowTypes ==
    ASSUME TypeOK, NEW r \in Rows
    PROVE  /\ r \in Refunds /\ refund[r] \in RefundRow
           /\ refund[r].processed \in Nat /\ refund[r].version \in Nat /\ refund[r].completions \in Nat
           /\ refund[r].method \in Methods
<1>1. r \in Refunds /\ refund[r] \in RefundRow
  BY DEF TypeOK, Rows
<1>2. 0..Amount \subseteq Nat
  BY ConstantsAssumption
<1> QED
  BY <1>1, <1>2 DEF RefundRow

\* What the refunds of one method have processed, and what all have
LEMMA SumTypes ==
    ASSUME TypeOK, NEW m
    PROVE  SumOver(RowsOf(m)) \in Nat /\ AlreadyRefunded \in Nat
           /\ SumOver(RowsOf(m)) <= AlreadyRefunded
<1> DEFINE f == [r \in Refunds |-> IF r \in RowsOf(m) THEN refund[r].processed ELSE 0]
           g == [r \in Refunds |-> IF r \in Rows THEN refund[r].processed ELSE 0]
<1>1. \A r \in Rows : refund[r].processed \in Nat
  BY RowTypes
<1>2. RowsOf(m) \subseteq Rows
  BY DEF RowsOf
<1>3. f \in [Refunds -> Nat] /\ g \in [Refunds -> Nat] /\ \A r \in Refunds : f[r] <= g[r]
  BY <1>1, <1>2
<1> HIDE DEF f, g
<1>4. IsFiniteSet(Refunds)
  BY ConstantsAssumption
<1>5. SumFunction(f) \in Nat /\ SumFunction(g) \in Nat /\ SumFunction(f) <= SumFunction(g)
  BY <1>3, <1>4, SumFunctionNat, SumFunctionMonotone
<1> QED
  BY <1>5 DEF f, g, SumOver, AlreadyRefunded

\* A row of another method does not change the sum of a method.
LEMMA SumKept ==
    ASSUME NEW m, NEW r \in Refunds, \A q \in Refunds \ {r} : refund'[q] = refund[q],
           refund[r] # None => refund[r].method # m, refund'[r] # None => refund'[r].method # m
    PROVE  SumOver(RowsOf(m))' = SumOver(RowsOf(m))
<1> DEFINE f == [q \in Refunds |-> IF q \in RowsOf(m) THEN refund[q].processed ELSE 0]
           h == [q \in Refunds |-> IF q \in RowsOf(m)' THEN refund'[q].processed ELSE 0]
<1>1. \A q \in Refunds : q \in RowsOf(m)' <=> q \in RowsOf(m)
  BY DEF RowsOf, Rows
<1>2. \A q \in RowsOf(m) : q # r
  BY DEF RowsOf, Rows
<1>3. f = h
  BY <1>1, <1>2
<1> QED
  BY <1>3 DEF SumOver

\* A new row adds what it has processed.
LEMMA SumGrows ==
    ASSUME TypeOK, NEW m, NEW r \in Refunds, refund[r] = None,
           NEW row \in RefundRow, row.method = m, refund' = [refund EXCEPT ![r] = row]
    PROVE  SumOver(RowsOf(m))' = SumOver(RowsOf(m)) + row.processed
<1> DEFINE f == [q \in Refunds |-> IF q \in RowsOf(m) THEN refund[q].processed ELSE 0]
           h == [q \in Refunds |-> IF q \in RowsOf(m)' THEN refund'[q].processed ELSE 0]
<1>1. \A q \in Refunds : refund'[q] = IF q = r THEN row ELSE refund[q]
  BY DEF TypeOK
<1>2. row # None /\ row.processed \in Nat
  BY RowAssumption, ConstantsAssumption DEF RefundRow
<1>3. r \notin RowsOf(m) /\ \A q \in Refunds : q \in RowsOf(m)' <=> q = r \/ q \in RowsOf(m)
  BY <1>1, <1>2 DEF RowsOf, Rows
<1>4. \A q \in RowsOf(m) : refund[q].processed \in Nat
  BY RowTypes DEF RowsOf
<1>5. f \in [Refunds -> Int] /\ f[r] = 0
  BY <1>3, <1>4
<1>6. h[r] = row.processed /\ \A q \in Refunds \ {r} : h[q] = f[q]
  BY <1>1, <1>3
<1>7. h \in [Refunds -> Int]
  BY <1>2, <1>5, <1>6
<1> HIDE DEF f, h
<1>8. IsFiniteSet(Refunds)
  BY ConstantsAssumption
<1>9. SumFunction(h) = SumFunction(f) + (h[r] - f[r]) /\ SumFunction(f) \in Int
  BY <1>5, <1>6, <1>7, <1>8, SumFunctionUpdate, SumFunctionInt
<1>10. SumFunction(h) = SumFunction(f) + row.processed
  BY <1>2, <1>5, <1>6, <1>9
<1> QED
  BY <1>10 DEF f, h, SumOver

LEMMA InitInv == Init => IInv
<1> SUFFICES ASSUME Init PROVE IInv
  OBVIOUS
<1>1. TypeOK
  BY ConstantsAssumption DEF Init, TypeOK
<1>2. SessTypeOK /\ \A s \in Sessions : sess[s] = Idle
  BY DEF Init, SessTypeOK, SessionRow, Idle, Steps
<1>3. Rows = {} /\ \A m : RowsOf(m) = {}
  BY DEF Init, Rows, RowsOf
<1>4. SumOver(RowsOf("CREDIT_NOTE")) = 0
  <2> DEFINE f == [r \in Refunds |-> IF r \in RowsOf("CREDIT_NOTE") THEN refund[r].processed ELSE 0]
  <2>1. DOMAIN f = Refunds /\ \A r \in Refunds : f[r] = 0
    BY <1>3
  <2> HIDE DEF f
  <2>2. SumFunction(f) = 0
    BY <2>1, ConstantsAssumption, SumFunctionZero
  <2> QED
    BY <2>2 DEF f, SumOver
<1>5. OneRefundPerKey /\ CreditRefundsCovered /\ TransferCompletedOnce /\ TransferInv
  BY <1>3, <1>4, ConstantsAssumption
     DEF OneRefundPerKey, CreditRefundsCovered, TransferCompletedOnce, TransferInv
<1>6. MovedInv /\ OwnInv
  BY <1>2, <1>3 DEF Init, MovedInv, OwnInv, Idle, Carries, Writing
<1>7. \A s \in Sessions : SessInv(s, sess[s])
  BY <1>2 DEF SessInv, SubjectInv, CreateInv, RetryInv, MarkInv, Idle, Writing, Paying
<1> QED
  BY <1>1, <1>2, <1>5, <1>6, <1>7 DEF IInv

-----------------------------------------------------------------------------
(* Steps that publish nothing *)

\* A session in the next state.
LEMMA SessNext ==
    ASSUME NEW s, NEW x, sess'[s] = x, SessInv(s, x)'
    PROVE  SessInv(s, sess[s])'
BY DEF SessInv, SubjectInv, CreateInv, RetryInv, MarkInv, KeyTaken, Rows

\* What is known of the session that takes a step.
LEMMA Mine ==
    ASSUME IInv, NEW t \in Sessions
    PROVE  /\ TypeOK /\ MovedInv /\ OwnInv /\ sess[t] \in SessionRow /\ DOMAIN sess = Sessions
           /\ SubjectInv(sess[t]) /\ CreateInv(t, sess[t]) /\ RetryInv(sess[t]) /\ MarkInv(sess[t])
BY DEF IInv, SessTypeOK, SessInv

\* The committed rows say the same.
LEMMA SameRows ==
    ASSUME UNCHANGED refund
    PROVE  /\ Rows' = Rows /\ \A m : RowsOf(m)' = RowsOf(m) /\ SumOver(RowsOf(m))' = SumOver(RowsOf(m))
           /\ \A k : KeyTaken(k)' <=> KeyTaken(k)
<1>1. Rows' = Rows /\ \A m : RowsOf(m)' = RowsOf(m)
  BY DEF Rows, RowsOf
<1>2. \A m : SumOver(RowsOf(m))' = SumOver(RowsOf(m))
  BY <1>1 DEF SumOver
<1>3. \A k : KeyTaken(k)' <=> KeyTaken(k)
  BY <1>1 DEF KeyTaken
<1> QED
  BY <1>1, <1>2, <1>3

\* The session works on its own refund, on a committed one or on a new one.
OwnStep(t, q) ==
    \/ q.id = None /\ q.pc = "idle"
    \/ q.id = sess[t].id /\ (q.pc \in Writing /\ refund[q.id] = None => sess[t].pc \in Writing)
    \/ q.id \in Refunds /\ refund[q.id] # None
    \/ \A s \in Sessions : sess[s].id # q.id

LEMMA OwnKept ==
    ASSUME IInv, NEW t \in Sessions, NEW q, sess' = [sess EXCEPT ![t] = q], UNCHANGED refund,
           OwnStep(t, q)
    PROVE  OwnInv'
<1>1. DOMAIN sess = Sessions /\ OwnInv
  BY DEF IInv, SessTypeOK
<1>2. \A s \in Sessions : sess'[s] = IF s = t THEN q ELSE sess[s]
  BY <1>1
<1>3. \A s \in Sessions : sess[s].pc \in Writing => sess[s].id \in Refunds
  BY DEF IInv, SessInv, SubjectInv, Writing
<1>4. None \notin Refunds /\ "idle" \notin Writing
  BY ConstantsAssumption DEF Writing
<1>5. ASSUME NEW a \in Sessions, NEW b \in Sessions, sess'[a].pc \in Writing,
             refund[sess'[a].id] = None, sess'[b].id = sess'[a].id
      PROVE  a = b
  <2>1. CASE a = t /\ b # t
    BY <1>1, <1>2, <1>3, <1>4, <1>5, <2>1 DEF OwnStep, OwnInv
  <2>2. CASE a # t /\ b = t
    BY <1>1, <1>2, <1>3, <1>4, <1>5, <2>2 DEF OwnStep, OwnInv
  <2>3. CASE a # t /\ b # t
    BY <1>1, <1>2, <1>5, <2>3 DEF OwnInv
  <2> QED
    BY <2>1, <2>2, <2>3
<1> QED
  BY <1>5 DEF OwnInv

\* The other sessions still rely on the same rows.
LEMMA QuietRelies ==
    ASSUME NEW s, NEW x, SessInv(s, x), UNCHANGED refund, lock[Payment] = s => lock'[Payment] = s
    PROVE  SessInv(s, x)'
<1>1. SubjectInv(x)' /\ RetryInv(x)' /\ MarkInv(x)'
  BY DEF SessInv, SubjectInv, RetryInv, MarkInv
<1>2. CreateInv(s, x)'
  BY SameRows DEF SessInv, CreateInv
<1> QED
  BY <1>1, <1>2 DEF SessInv

LEMMA QuietKept ==
    ASSUME IInv, NEW t \in Sessions, NEW q \in SessionRow, sess' = [sess EXCEPT ![t] = q],
           UNCHANGED refund, started' \in 0..MaxRequests,
           tx' \in [status : {"voidable", "settled", "reversed"}, moved : 0..Amount],
           lock' \in [Refunds \cup {Payment} -> Sessions \cup {None}],
           \A s \in Sessions \ {t} : lock[Payment] = s => lock'[Payment] = s,
           MovedInv', OwnStep(t, q), SessInv(t, q)'
    PROVE  IInv'
<1>1. TypeOK'
  BY DEF IInv, TypeOK
<1>2. DOMAIN sess = Sessions /\ SessTypeOK' /\ sess'[t] = q
  BY DEF IInv, SessTypeOK
<1>3. (OneRefundPerKey /\ CreditRefundsCovered /\ TransferCompletedOnce /\ TransferInv)'
  BY SameRows DEF IInv, OneRefundPerKey, CreditRefundsCovered, TransferCompletedOnce, TransferInv
<1>4. OwnInv'
  BY OwnKept
<1>5. ASSUME NEW s \in Sessions, s # t
      PROVE  SessInv(s, sess[s])'
  <2>1. PICK x : x = sess[s]
    OBVIOUS
  <2>2. SessInv(s, x) /\ sess'[s] = x
    BY <1>2, <1>5, <2>1 DEF IInv
  <2>3. SessInv(s, x)'
    BY <1>5, <2>2, QuietRelies
  <2> QED
    BY <2>2, <2>3, SessNext
<1>6. \A s \in Sessions : SessInv(s, sess[s])'
  BY <1>2, <1>5, SessNext
<1> QED
  BY <1>1, <1>2, <1>3, <1>4, <1>6 DEF IInv

\* The gateway is not involved.
LEMMA MovedKept ==
    ASSUME IInv, NEW t \in Sessions, NEW q, sess' = [sess EXCEPT ![t] = q], ~Carries(q),
           UNCHANGED <<refund, tx>>
    PROVE  MovedInv' /\ tx' \in [status : {"voidable", "settled", "reversed"}, moved : 0..Amount]
<1>1. MovedInv /\ DOMAIN sess = Sessions
  BY DEF IInv, SessTypeOK
<1>2. \A s \in Sessions : Carries(sess'[s]) => Carries(sess[s]) /\ sess'[s] = sess[s]
  BY <1>1
<1>3. \A m : RowsOf(m)' = RowsOf(m)
  BY SameRows
<1>4. \A s \in Sessions : Carries(sess[s])' <=> Carries(sess'[s])
  BY DEF Carries
<1>5. MovedInv'
  BY <1>1, <1>2, <1>3, <1>4 DEF MovedInv
<1> QED
  BY <1>5 DEF IInv, TypeOK

LEMMA ContinueKept ==
    ASSUME IInv, NEW t \in Sessions, NEW q \in SessionRow, sess' = [sess EXCEPT ![t] = q],
           UNCHANGED <<refund, tx>>, started' \in 0..MaxRequests,
           lock' \in [Refunds \cup {Payment} -> Sessions \cup {None}],
           \A s \in Sessions \ {t} : lock[Payment] = s => lock'[Payment] = s,
           ~Carries(q), OwnStep(t, q), SessInv(t, q)'
    PROVE  IInv'
<1>1. MovedInv' /\ tx' \in [status : {"voidable", "settled", "reversed"}, moved : 0..Amount]
  BY MovedKept
<1> QED
  BY <1>1, QuietKept

LEMMA IdleKept == Idle \in SessionRow /\ ~Carries(Idle) /\ \A s : SessInv(s, Idle) /\ SessInv(s, Idle)'
BY DEF Idle, SessionRow, Steps, Carries, SessInv, SubjectInv, CreateInv, RetryInv, MarkInv, Writing, Paying

LEMMA RollbackKept ==
    ASSUME IInv, NEW t \in Sessions, Rollback(t)
    PROVE  IInv'
<1>1. /\ lock' = [x \in DOMAIN lock |-> IF lock[x] = t THEN None ELSE lock[x]]
      /\ sess' = [sess EXCEPT ![t] = Idle] /\ UNCHANGED <<refund, tx, started>>
  BY DEF Rollback, EndSession
<1>2. lock \in [Refunds \cup {Payment} -> Sessions \cup {None}] /\ started \in 0..MaxRequests
  BY DEF IInv, TypeOK
<1>3. lock' \in [Refunds \cup {Payment} -> Sessions \cup {None}] /\ started' \in 0..MaxRequests
      /\ \A s \in Sessions \ {t} : lock[Payment] = s => lock'[Payment] = s
  BY <1>1, <1>2
<1>4. OwnStep(t, Idle)
  BY DEF OwnStep, Idle
<1> QED
  BY <1>1, <1>3, <1>4, IdleKept, ContinueKept

LEMMA SettleKept == ASSUME IInv, Settle PROVE IInv'
<1>1. UNCHANGED <<refund, lock, sess, started>> /\ tx' = [tx EXCEPT !.status = "settled"]
      /\ tx.status = "voidable"
  BY DEF Settle
<1>2. tx \in [status : {"voidable", "settled", "reversed"}, moved : 0..Amount]
  BY DEF IInv, TypeOK
<1>3. /\ tx' \in [status : {"voidable", "settled", "reversed"}, moved : 0..Amount]
      /\ tx'.moved = tx.moved
  BY <1>1, <1>2
<1>4. TypeOK' /\ SessTypeOK'
  BY <1>1, <1>3 DEF IInv, TypeOK, SessTypeOK
<1>5. (OneRefundPerKey /\ CreditRefundsCovered /\ TransferCompletedOnce /\ TransferInv)'
  BY <1>1, SameRows DEF IInv, OneRefundPerKey, CreditRefundsCovered, TransferCompletedOnce, TransferInv
<1>6. MovedInv' /\ OwnInv'
  BY <1>1, <1>3, SameRows DEF IInv, MovedInv, OwnInv, Carries
<1>7. ASSUME NEW s \in Sessions PROVE SessInv(s, sess[s])'
  <2>1. PICK x : x = sess[s]
    OBVIOUS
  <2>2. SessInv(s, x)'
    BY <1>1, <2>1, QuietRelies DEF IInv
  <2> QED
    BY <1>1, <2>1, <2>2, SessNext
<1> QED
  BY <1>4, <1>5, <1>6, <1>7 DEF IInv

\* A request that begins.
LEMMA StartKept ==
    ASSUME IInv, NEW t \in Sessions, NEW pc \in Steps \ {"idle", "commit"}, NEW r \in Refunds,
           NEW row \in RefundRow, Start(t, pc, r, row),
           refund[r] # None \/ \A s \in Sessions : sess[s].id # r,
           NEW q, q = [pc |-> pc, id |-> r, row |-> row], SessInv(t, q)
    PROVE  IInv'
<1>1. /\ started < MaxRequests /\ started' = started + 1 /\ sess' = [sess EXCEPT ![t] = q]
      /\ UNCHANGED <<refund, tx, lock>>
  BY DEF Start
<1>2. started' \in 0..MaxRequests /\ lock' \in [Refunds \cup {Payment} -> Sessions \cup {None}]
  BY <1>1, ConstantsAssumption DEF IInv, TypeOK
<1>3. q \in SessionRow /\ ~Carries(q) /\ OwnStep(t, q)
  BY DEF SessionRow, Carries, OwnStep
<1>4. SessInv(t, q)'
  BY <1>1, QuietRelies
<1> QED
  BY <1>1, <1>2, <1>3, <1>4, ContinueKept

LEMMA StartCreateKept ==
    ASSUME IInv, NEW t \in Sessions, NEW r \in Refunds, NEW m \in Methods, NEW k \in Keys \cup {None},
           NEW a \in 1..Amount, StartCreate(t, r, m, k, a)
    PROVE  IInv'
<1>1. a \in 0..Amount /\ 0 \in 0..Amount
  BY ConstantsAssumption
<1>2. PICK status : status = CASE m = "CARD_REFUND"   -> "PROCESSING"
                               [] m = "BANK_TRANSFER" -> "INITIATED"
                               [] m = "CREDIT_NOTE"   -> "COMPLETED"
  OBVIOUS
<1>3. status \in Statuses
  BY <1>2 DEF Statuses, Methods
<1>4. PICK processed, version : /\ processed = IF m = "CREDIT_NOTE" THEN a ELSE 0
                                /\ version = IF m = "CARD_REFUND" THEN 1 ELSE 2
  OBVIOUS
<1>5. PICK row : row = [method |-> m, key |-> k, requested |-> a, processed |-> processed,
                        status |-> status, version |-> version, completions |-> 0]
  OBVIOUS
<1>6. /\ row.method = m /\ row.processed = processed /\ row.requested = a /\ row.completions = 0
      /\ row \in RefundRow
  BY <1>1, <1>3, <1>4, <1>5 DEF RefundRow
<1>7. refund[r] = None /\ (\A s \in Sessions : sess[s].id # r) /\ Start(t, "lock", r, row)
  BY <1>2, <1>4, <1>5 DEF StartCreate
<1>8. PICK q : q = [pc |-> "lock", id |-> r, row |-> row]
  OBVIOUS
<1>9. q.pc = "lock" /\ q.id = r /\ q.row = row
  BY <1>8
<1>10. SubjectInv(q) /\ RetryInv(q) /\ MarkInv(q)
  BY <1>6, <1>9 DEF SubjectInv, RetryInv, MarkInv, Paying
<1>11. CreateInv(t, q)
  BY <1>4, <1>6, <1>7, <1>9 DEF CreateInv, Paying
<1>12. SessInv(t, q)
  BY <1>10, <1>11 DEF SessInv
<1> QED
  BY <1>6, <1>7, <1>8, <1>12, StartKept DEF Steps

LEMMA StartReadKept ==
    ASSUME IInv, NEW t \in Sessions, NEW r \in Refunds,
           StartRetry(t, r) \/ StartMarkComplete(t, r) \/ StartWebhook(t, r)
    PROVE  IInv'
<1>1. TypeOK /\ MovedInv /\ TransferInv
  BY DEF IInv
<1>2. ASSUME NEW pc \in {"retry", "mark", "webhook"}, Read(t, pc, r),
             pc = "retry" => r \in RowsOf("CARD_REFUND") /\ refund[r].status = "FAILED",
             pc = "mark" => r \in RowsOf("BANK_TRANSFER") /\ refund[r].status = "INITIATED",
             pc = "webhook" => r \in RowsOf("CARD_REFUND")
      PROVE  IInv'
  <2>1. PICK row : row = refund[r]
    OBVIOUS
  <2>2. r \in Rows /\ refund[r] # None /\ Start(t, pc, r, row)
    BY <1>2, <2>1 DEF Read, Rows
  <2>3. row \in RefundRow /\ row.version \in Nat
    BY <1>1, <2>1, <2>2, RowTypes
  <2>4. PICK q : q = [pc |-> pc, id |-> r, row |-> row]
    OBVIOUS
  <2>5. q.pc = pc /\ q.id = r /\ q.row = row
    BY <2>4
  <2>6. SubjectInv(q) /\ CreateInv(t, q)
    BY <2>2, <2>3, <2>5 DEF SubjectInv, CreateInv, Writing, Paying
  <2>7. RetryInv(q)
    <3>1. pc = "retry" => refund[r].processed = 0 /\ refund[r].method = "CARD_REFUND"
      BY <1>1, <1>2 DEF MovedInv, RowsOf
    <3>2. pc = "webhook" => refund[r].method = "CARD_REFUND"
      BY <1>2 DEF RowsOf
    <3> QED
      BY <2>1, <2>5, <3>1, <3>2 DEF RetryInv, Paying
  <2>8. MarkInv(q)
    <3>1. pc = "mark" => refund[r].completions = 0 /\ refund[r].method = "BANK_TRANSFER"
      BY <1>1, <1>2 DEF TransferInv, RowsOf
    <3> QED
      BY <2>1, <2>3, <2>5, <3>1 DEF MarkInv
  <2>9. SessInv(t, q)
    BY <2>6, <2>7, <2>8 DEF SessInv
  <2> QED
    BY <2>2, <2>3, <2>4, <2>9, StartKept DEF Steps
<1> QED
  BY <1>2 DEF StartRetry, StartMarkComplete, StartWebhook

LEMMA LockPaymentKept ==
    ASSUME IInv, NEW t \in Sessions, LockPayment(t)
    PROVE  IInv'
<1>1. PICK x : x = sess[t]
  OBVIOUS
<1>2. /\ TypeOK /\ x \in SessionRow /\ DOMAIN sess = Sessions
      /\ SubjectInv(x) /\ CreateInv(t, x)
  BY <1>1, Mine
<1>3. PICK pc : pc = IF x.row.method = "CARD_REFUND" THEN "gateway" ELSE "commit"
  OBVIOUS
<1>4. /\ x.pc = "lock" /\ lock[Payment] = None /\ x.row.requested <= Amount - AlreadyRefunded
      /\ ~KeyTaken(x.row.key) /\ lock' = [lock EXCEPT ![Payment] = t] /\ UNCHANGED <<refund, tx, started>>
  BY <1>1 DEF LockPayment
<1> DEFINE q == [x EXCEPT !.pc = pc]
<1>5. sess' = [sess EXCEPT ![t] = q]
  BY <1>1, <1>2, <1>3 DEF LockPayment
<1>6. q.pc = pc /\ q.id = x.id /\ q.row = x.row /\ q \in SessionRow
  BY <1>2, <1>3 DEF SessionRow, Steps
<1> HIDE DEF q
<1>7. x.row \in RefundRow /\ x.id \in Refunds /\ refund[x.id] = None
  BY <1>2, <1>4 DEF SubjectInv, CreateInv
<1>8. lock' \in [Refunds \cup {Payment} -> Sessions \cup {None}] /\ lock'[Payment] = t
      /\ started' \in 0..MaxRequests
  BY <1>2, <1>4 DEF TypeOK
<1>9. \A s \in Sessions \ {t} : lock[Payment] # s
  BY <1>4, ConstantsAssumption
<1>10. SubjectInv(q) /\ RetryInv(q) /\ MarkInv(q)
  <2>1. pc # "idle" /\ pc \in Paying
    BY <1>3 DEF Paying
  <2>2. x.row.method = "CARD_REFUND" => x.row.processed = 0
    BY <1>2, <1>4, <1>7 DEF CreateInv, Writing
  <2> QED
    BY <1>3, <1>6, <1>7, <2>1, <2>2 DEF SubjectInv, RetryInv, MarkInv
<1>11. (SubjectInv(q) /\ RetryInv(q) /\ MarkInv(q))'
  BY <1>4, <1>10 DEF SubjectInv, RetryInv, MarkInv
<1>12. CreateInv(t, q)'
  <2>1. /\ x.row.method # "CARD_REFUND" => x.row.completions = 0
        /\ x.row.method = "CREDIT_NOTE" => x.row.processed = x.row.requested
        /\ x.row.method = "CARD_REFUND" => x.row.processed = 0
    BY <1>2, <1>4, <1>7 DEF CreateInv, Writing
  <2>2. x.row.method = "CREDIT_NOTE" =>
           SumOver(RowsOf("CREDIT_NOTE")) + x.row.processed <= Amount
    <3>1. /\ SumOver(RowsOf("CREDIT_NOTE")) \in Nat /\ AlreadyRefunded \in Nat
          /\ SumOver(RowsOf("CREDIT_NOTE")) <= AlreadyRefunded
      BY <1>2, SumTypes
    <3>2. x.row.requested \in Nat /\ Amount \in Nat
      BY <1>7, ConstantsAssumption DEF RefundRow
    <3> QED
      BY <1>4, <2>1, <3>1, <3>2
  <2>3. pc # "lock"
    BY <1>3
  <2> QED
    BY <1>4, <1>6, <1>8, <2>1, <2>2, <2>3, SameRows DEF CreateInv
<1>13. SessInv(t, q)'
  BY <1>11, <1>12 DEF SessInv
<1>14. ~Carries(q) /\ OwnStep(t, q)
  BY <1>1, <1>3, <1>4, <1>6 DEF Carries, OwnStep, Writing
<1> QED
  BY <1>4, <1>5, <1>6, <1>8, <1>9, <1>13, <1>14, ContinueKept

LEMMA BeginRetryKept ==
    ASSUME IInv, NEW t \in Sessions, BeginRetry(t)
    PROVE  IInv'
<1>1. PICK x : x = sess[t]
  OBVIOUS
<1>2. /\ TypeOK /\ x \in SessionRow /\ DOMAIN sess = Sessions
      /\ SubjectInv(x) /\ RetryInv(x)
  BY <1>1, Mine
<1>3. /\ x.pc = "retry" /\ lock[x.id] = None
      /\ lock' = [lock EXCEPT ![x.id] = t] /\ UNCHANGED <<refund, tx, started>>
  BY <1>1 DEF BeginRetry
<1>4. x.row \in RefundRow /\ x.id \in Refunds /\ refund[x.id] # None /\ x.row.version \in Nat
  BY <1>2, <1>3 DEF SubjectInv, RefundRow
<1>5. PICK version \in Nat : version = x.row.version + 1
  BY <1>4
<1> DEFINE row == [x.row EXCEPT !.status = "PROCESSING", !.version = version]
           q == [x EXCEPT !.pc = "gateway", !.row = row]
<1>6. sess' = [sess EXCEPT ![t] = q]
  BY <1>1, <1>2, <1>4, <1>5 DEF BeginRetry
<1>7. row \in RefundRow /\ row.method = x.row.method /\ row.key = x.row.key /\ row.processed = x.row.processed
  BY <1>4, <1>5 DEF RefundRow, Statuses
<1> HIDE DEF row
<1>8. q.pc = "gateway" /\ q.id = x.id /\ q.row = row /\ q \in SessionRow
  BY <1>2, <1>7 DEF SessionRow, Steps
<1> HIDE DEF q
<1>9. /\ lock' \in [Refunds \cup {Payment} -> Sessions \cup {None}] /\ lock'[Payment] = lock[Payment]
      /\ started' \in 0..MaxRequests
  BY <1>2, <1>3, <1>4, ConstantsAssumption DEF TypeOK
<1>10. SessInv(t, q)'
  BY <1>2, <1>3, <1>4, <1>7, <1>8 DEF SessInv, SubjectInv, CreateInv, RetryInv, MarkInv, Writing, Paying
<1>11. ~Carries(q) /\ OwnStep(t, q)
  BY <1>4, <1>8 DEF Carries, OwnStep
<1> QED
  BY <1>3, <1>6, <1>8, <1>9, <1>10, <1>11, ContinueKept

LEMMA ReversalFailsKept ==
    ASSUME IInv, NEW t \in Sessions, ReversalFails(t)
    PROVE  IInv'
<1>1. PICK x : x = sess[t]
  OBVIOUS
<1>2. /\ TypeOK /\ x \in SessionRow /\ DOMAIN sess = Sessions
      /\ SubjectInv(x) /\ CreateInv(t, x) /\ RetryInv(x)
  BY <1>1, Mine
<1>3. x.pc = "gateway" /\ UNCHANGED <<refund, tx, lock, started>>
  BY <1>1 DEF ReversalFails
<1>4. x.row \in RefundRow /\ x.id \in Refunds /\ x.row.version \in Nat
  BY <1>2, <1>3 DEF SubjectInv, RefundRow
<1>5. PICK version \in Nat : version = x.row.version + 1
  BY <1>4
<1> DEFINE row == [x.row EXCEPT !.status = "FAILED", !.version = version]
           q == [x EXCEPT !.pc = "commit", !.row = row]
<1>6. sess' = [sess EXCEPT ![t] = q]
  BY <1>1, <1>2, <1>4, <1>5 DEF ReversalFails
<1>7. /\ row \in RefundRow /\ row.method = x.row.method /\ row.key = x.row.key
      /\ row.processed = x.row.processed
  BY <1>4, <1>5 DEF RefundRow, Statuses
<1> HIDE DEF row
<1>8. q.pc = "commit" /\ q.id = x.id /\ q.row = row /\ q \in SessionRow
  BY <1>2, <1>7 DEF SessionRow, Steps
<1> HIDE DEF q
<1>9. row.method = "CARD_REFUND" /\ row.processed = 0
  BY <1>2, <1>3, <1>7 DEF RetryInv
<1>10. SubjectInv(q) /\ RetryInv(q) /\ MarkInv(q)
  BY <1>2, <1>3, <1>4, <1>7, <1>8, <1>9 DEF SubjectInv, RetryInv, MarkInv, Paying
<1>11. CreateInv(t, q)
  BY <1>2, <1>3, <1>7, <1>8, <1>9 DEF CreateInv, Paying, Writing
<1>12. SessInv(t, q)'
  BY <1>3, <1>10, <1>11, QuietRelies DEF SessInv
<1>13. ~Carries(q) /\ OwnStep(t, q)
  BY <1>1, <1>3, <1>8, <1>9 DEF Carries, OwnStep, Writing
<1>14. lock' \in [Refunds \cup {Payment} -> Sessions \cup {None}] /\ started' \in 0..MaxRequests
  BY <1>2, <1>3 DEF TypeOK
<1> QED
  BY <1>3, <1>6, <1>8, <1>12, <1>13, <1>14, ContinueKept

LEMMA ReverseTransactionKept ==
    ASSUME IInv, NEW t \in Sessions, ReverseTransaction(t)
    PROVE  IInv'
<1>1. PICK x : x = sess[t]
  OBVIOUS
<1>2. /\ TypeOK /\ MovedInv /\ x \in SessionRow /\ DOMAIN sess = Sessions
      /\ SubjectInv(x) /\ CreateInv(t, x) /\ RetryInv(x)
  BY <1>1, Mine
<1>3. /\ x.pc = "gateway" /\ tx.status # "reversed" /\ UNCHANGED <<refund, lock, started>>
      /\ tx' = [status |-> "reversed", moved |-> tx.moved + x.row.requested]
  BY <1>1 DEF ReverseTransaction
<1>4. /\ x.row \in RefundRow /\ x.id \in Refunds /\ x.row.version \in Nat /\ x.row.completions \in Nat
      /\ x.row.requested \in 1..Amount
  BY <1>2, <1>3 DEF SubjectInv, RefundRow
<1>5. PICK version \in Nat, completions \in Nat, processed \in 1..Amount :
         /\ version = x.row.version + 1 /\ completions = x.row.completions + 1
         /\ processed = x.row.requested
  <2>1. x.row.version + 1 \in Nat /\ x.row.completions + 1 \in Nat
    BY <1>4
  <2> QED
    BY <1>4, <2>1, Zenon
<1> DEFINE row == [x.row EXCEPT !.status = "COMPLETED", !.processed = processed,
                                !.version = version, !.completions = completions]
           q == [x EXCEPT !.pc = "commit", !.row = row]
<1>6. sess' = [sess EXCEPT ![t] = q]
  BY <1>1, <1>2, <1>4, <1>5 DEF ReverseTransaction
<1>7. /\ row \in RefundRow /\ row.method = x.row.method /\ row.key = x.row.key
      /\ row.processed = processed /\ row.status = "COMPLETED"
  <2>1. processed \in 0..Amount
    BY <1>5
  <2> QED
    BY <1>4, <1>5, <2>1 DEF RefundRow, Statuses
<1> HIDE DEF row
<1>8. q.pc = "commit" /\ q.id = x.id /\ q.row = row /\ q \in SessionRow
  BY <1>2, <1>7 DEF SessionRow, Steps
<1> HIDE DEF q
<1>9. row.method = "CARD_REFUND"
  BY <1>2, <1>3, <1>7 DEF RetryInv
<1>10. SubjectInv(q) /\ RetryInv(q) /\ MarkInv(q)
  BY <1>2, <1>3, <1>4, <1>7, <1>8, <1>9 DEF SubjectInv, RetryInv, MarkInv, Paying
<1>11. CreateInv(t, q)
  BY <1>2, <1>3, <1>7, <1>8, <1>9 DEF CreateInv, Paying, Writing
<1>12. SessInv(t, q)'
  BY <1>3, <1>10, <1>11, QuietRelies DEF SessInv
<1>13. OwnStep(t, q)
  BY <1>1, <1>3, <1>8 DEF OwnStep, Writing
\* Nothing had left before, so nothing was recorded.
<1>14. tx.moved = 0
  BY <1>2, <1>3 DEF MovedInv
<1>15. tx'.moved = processed /\ tx'.status = "reversed" /\ processed > 0
       /\ tx' \in [status : {"voidable", "settled", "reversed"}, moved : 0..Amount]
  BY <1>3, <1>4, <1>5, <1>14
<1>16. /\ \A r \in RowsOf("CARD_REFUND") : refund[r].processed = 0
       /\ \A s \in Sessions : ~Carries(sess[s])
  BY <1>2, <1>14 DEF MovedInv, Carries
<1>17. MovedInv'
  <2>1. RowsOf("CARD_REFUND")' = RowsOf("CARD_REFUND")
    BY <1>3, SameRows
  <2>2. \A s \in Sessions : sess'[s] = IF s = t THEN q ELSE sess[s]
    BY <1>2, <1>6
  <2>3. \A s \in Sessions : Carries(sess'[s]) => s = t /\ sess'[s] = q
    BY <1>16, <2>2
  <2>4. \A s \in Sessions : Carries(sess[s])' <=> Carries(sess'[s])
    BY DEF Carries
  <2> QED
    BY <1>3, <1>7, <1>8, <1>15, <1>16, <2>1, <2>3, <2>4 DEF MovedInv
<1>18. lock' \in [Refunds \cup {Payment} -> Sessions \cup {None}] /\ started' \in 0..MaxRequests
  BY <1>2, <1>3 DEF TypeOK
<1> QED
  BY <1>3, <1>6, <1>8, <1>12, <1>13, <1>15, <1>17, <1>18, QuietKept

-----------------------------------------------------------------------------
(* Commits *)

\* The row r of session t is inserted under the payment's lock ...
Inserts(t, r, row) ==
    /\ refund[r] = None /\ sess[t].pc \in Writing
    /\ lock[Payment] = t /\ ~KeyTaken(row.key)
    /\ row.method = "CREDIT_NOTE" => SumOver(RowsOf("CREDIT_NOTE")) + row.processed <= Amount

\* ... or updated, with the same method and key.
Updates(r, row) ==
    /\ refund[r] # None
    /\ row.key = refund[r].key /\ row.method = refund[r].method /\ row.method # "CREDIT_NOTE"
    /\ row.method = "BANK_TRANSFER" => row.version > refund[r].version

\* The row records what the one before did, what the request has moved, or nothing.
Records(t, r, row) ==
    row.method = "CARD_REFUND" =>
        /\ row.status = "FAILED" => row.processed = 0
        /\ \/ row.processed = 0
           \/ refund[r] # None /\ row.method = refund[r].method /\ row.processed = refund[r].processed
           \/ Carries(sess[t]) /\ row.processed = sess[t].row.processed

LEMMA PublishedRows ==
    ASSUME TypeOK, NEW r \in Refunds, NEW row \in RefundRow, refund' = [refund EXCEPT ![r] = row]
    PROVE  /\ refund' \in [Refunds -> RefundRow \cup {None}]
           /\ \A q \in Refunds : refund'[q] = IF q = r THEN row ELSE refund[q]
           /\ row # None
           /\ \A q \in Refunds : q \in Rows' <=> q = r \/ q \in Rows
           /\ \A m : \A q \in Refunds : q \in RowsOf(m)' <=>
                 (q = r /\ row.method = m) \/ (q # r /\ q \in RowsOf(m))
<1>1. refund \in [Refunds -> RefundRow \cup {None}] /\ row # None
  BY RowAssumption DEF TypeOK
<1>2. \A q \in Refunds : refund'[q] = IF q = r THEN row ELSE refund[q]
  BY <1>1
<1> QED
  BY <1>1, <1>2 DEF Rows, RowsOf

LEMMA PublishedTransfers ==
    ASSUME IInv, NEW r \in Refunds, NEW row \in RefundRow, refund' = [refund EXCEPT ![r] = row],
           row.method = "BANK_TRANSFER" =>
              row.completions <= 1 /\ (row.status = "INITIATED" => row.completions = 0)
    PROVE  (TransferCompletedOnce /\ TransferInv)'
<1>1. TypeOK /\ TransferCompletedOnce /\ TransferInv
  BY DEF IInv
<1>2. /\ \A q \in Refunds : refund'[q] = IF q = r THEN row ELSE refund[q]
      /\ \A q \in Refunds : q \in RowsOf("BANK_TRANSFER")' <=>
            (q = r /\ row.method = "BANK_TRANSFER") \/ (q # r /\ q \in RowsOf("BANK_TRANSFER"))
  BY <1>1, PublishedRows
<1>3. \A q \in RowsOf("BANK_TRANSFER")' : q \in Refunds
  BY DEF RowsOf, Rows
<1> QED
  BY <1>1, <1>2, <1>3 DEF TransferCompletedOnce, TransferInv

LEMMA PublishedKeys ==
    ASSUME IInv, NEW t, NEW r \in Refunds, NEW row \in RefundRow, refund' = [refund EXCEPT ![r] = row],
           Inserts(t, r, row) \/ Updates(r, row)
    PROVE  OneRefundPerKey' /\ (Updates(r, row) => \A k : KeyTaken(k)' <=> KeyTaken(k))
<1>1. TypeOK /\ OneRefundPerKey
  BY DEF IInv
<1>2. /\ \A q \in Refunds : refund'[q] = IF q = r THEN row ELSE refund[q]
      /\ \A q \in Refunds : q \in Rows' <=> q = r \/ q \in Rows
  BY <1>1, PublishedRows
<1>3. Rows \subseteq Refunds /\ Rows' \subseteq Refunds
  BY DEF Rows
<1>4. CASE Inserts(t, r, row)
  <2>1. r \notin Rows /\ refund[r] = None /\ (row.key = None \/ \A q \in Rows : refund[q].key # row.key)
    BY <1>4 DEF Inserts, KeyTaken, Rows
  <2>2. OneRefundPerKey'
    BY <1>1, <1>2, <1>3, <2>1 DEF OneRefundPerKey
  <2> QED
    BY <2>1, <2>2 DEF Updates
<1>5. CASE Updates(r, row)
  <2>1. r \in Rows /\ row.key = refund[r].key
    BY <1>5 DEF Updates, Rows
  <2>2. OneRefundPerKey'
    BY <1>1, <1>2, <1>3, <2>1 DEF OneRefundPerKey
  <2>3. \A k : KeyTaken(k)' <=> KeyTaken(k)
    BY <1>2, <1>3, <2>1 DEF KeyTaken
  <2> QED
    BY <2>2, <2>3
<1> QED
  BY <1>4, <1>5

LEMMA PublishedCredit ==
    ASSUME IInv, NEW t, NEW r \in Refunds, NEW row \in RefundRow, refund' = [refund EXCEPT ![r] = row],
           Inserts(t, r, row) \/ Updates(r, row)
    PROVE  /\ CreditRefundsCovered'
           /\ Updates(r, row) => SumOver(RowsOf("CREDIT_NOTE"))' = SumOver(RowsOf("CREDIT_NOTE"))
<1>1. TypeOK /\ CreditRefundsCovered
  BY DEF IInv
<1>2. \A q \in Refunds : refund'[q] = IF q = r THEN row ELSE refund[q]
  BY <1>1, PublishedRows
<1>3. CASE row.method = "CREDIT_NOTE"
  <2>1. Inserts(t, r, row) /\ ~Updates(r, row)
    BY <1>3 DEF Updates
  <2>2. SumOver(RowsOf("CREDIT_NOTE"))' = SumOver(RowsOf("CREDIT_NOTE")) + row.processed
    BY <1>1, <1>3, <2>1, SumGrows DEF Inserts
  <2> QED
    BY <1>3, <2>1, <2>2 DEF Inserts, CreditRefundsCovered
<1>4. CASE row.method # "CREDIT_NOTE"
  <2>1. refund[r] # None => refund[r].method # "CREDIT_NOTE"
    BY <1>4 DEF Inserts, Updates
  <2>2. (\A q \in Refunds \ {r} : refund'[q] = refund[q]) /\ refund'[r].method # "CREDIT_NOTE"
    BY <1>2, <1>4
  <2>3. SumOver(RowsOf("CREDIT_NOTE"))' = SumOver(RowsOf("CREDIT_NOTE"))
    BY <2>1, <2>2, SumKept
  <2> QED
    BY <1>1, <2>3 DEF CreditRefundsCovered
<1> QED
  BY <1>3, <1>4

LEMMA PublishedMoney ==
    ASSUME IInv, NEW t \in Sessions, NEW r \in Refunds, NEW row \in RefundRow,
           refund' = [refund EXCEPT ![r] = row], Records(t, r, row), UNCHANGED tx,
           sess' = [sess EXCEPT ![t] = Idle]
    PROVE  MovedInv'
<1>1. TypeOK /\ MovedInv /\ DOMAIN sess = Sessions
  BY DEF IInv, SessTypeOK
<1>2. /\ \A q \in Refunds : refund'[q] = IF q = r THEN row ELSE refund[q]
      /\ \A q \in Refunds : q \in RowsOf("CARD_REFUND")' <=>
            (q = r /\ row.method = "CARD_REFUND") \/ (q # r /\ q \in RowsOf("CARD_REFUND"))
  BY <1>1, PublishedRows
<1>3. (\A q \in RowsOf("CARD_REFUND")' : q \in Refunds) /\ (\A q \in RowsOf("CARD_REFUND") : q \in Refunds)
  BY DEF RowsOf, Rows
<1>4. \A s \in Sessions : Carries(sess'[s]) => s # t /\ sess'[s] = sess[s] /\ Carries(sess[s])
  BY <1>1, IdleKept
<1>5. \A s \in Sessions : Carries(sess[s])' <=> Carries(sess'[s])
  BY DEF Carries
<1>6. row.method = "CARD_REFUND" /\ refund[r] # None /\ row.method = refund[r].method =>
         r \in RowsOf("CARD_REFUND")
  BY DEF RowsOf, Rows
<1>7. ASSUME row.method = "CARD_REFUND"
      PROVE  \/ row.processed = 0
             \/ r \in RowsOf("CARD_REFUND") /\ row.processed = refund[r].processed
             \/ Carries(sess[t]) /\ row.processed = sess[t].row.processed
  BY <1>6, <1>7 DEF Records
<1>8. \A q \in RowsOf("CARD_REFUND")' :
         /\ refund'[q].processed \in {0, tx.moved}
         /\ refund'[q].status = "FAILED" => refund'[q].processed = 0
  BY <1>1, <1>2, <1>3, <1>7 DEF MovedInv, Records
<1>9. \A a, b \in RowsOf("CARD_REFUND")' :
         refund'[a].processed > 0 /\ refund'[b].processed > 0 => a = b
  BY <1>1, <1>2, <1>3, <1>7 DEF MovedInv
<1>10. ASSUME NEW s \in Sessions, Carries(sess'[s])
       PROVE  /\ sess'[s].row.processed = tx.moved
              /\ \A q \in RowsOf("CARD_REFUND")' : refund'[q].processed = 0
              /\ \A u \in Sessions : Carries(sess'[u]) => u = s
  <2>1. s # t /\ sess'[s] = sess[s] /\ Carries(sess[s])
    BY <1>4, <1>10
  <2>2. ~Carries(sess[t])
    BY <1>1, <2>1 DEF MovedInv
  <2>3. \A q \in RowsOf("CARD_REFUND")' : refund'[q].processed = 0
    BY <1>1, <1>2, <1>3, <1>7, <2>1, <2>2 DEF MovedInv
  <2> QED
    BY <1>1, <1>4, <2>1, <2>3 DEF MovedInv
<1>11. tx'.status # "reversed" => tx'.moved = 0
  BY <1>1 DEF MovedInv
<1> QED
  BY <1>5, <1>8, <1>9, <1>10, <1>11 DEF MovedInv

\* What another session relies on is still so.
LEMMA PublishedRelies ==
    ASSUME IInv, NEW t \in Sessions, NEW s \in Sessions, s # t, NEW r \in Refunds, r = sess[t].id,
           NEW row \in RefundRow, refund' = [refund EXCEPT ![r] = row],
           Inserts(t, r, row) \/ Updates(r, row),
           lock[Payment] = s => lock'[Payment] = s, NEW x, x = sess[s]
    PROVE  SessInv(s, x)'
<1>1. /\ TypeOK /\ OwnInv /\ SubjectInv(x) /\ CreateInv(s, x) /\ RetryInv(x) /\ MarkInv(x)
      /\ x \in SessionRow
  BY Mine
<1>2. /\ \A q \in Refunds : refund'[q] = IF q = r THEN row ELSE refund[q]
      /\ row # None
  BY <1>1, PublishedRows
<1>3. x.pc \in Writing /\ refund[x.id] = None => x.id # r
  BY <1>1 DEF OwnInv
<1>4. x.id = r => ~Inserts(t, r, row)
  BY <1>1 DEF OwnInv, Inserts
<1>5. x.id = r => /\ Updates(r, row) /\ refund[r] # None /\ refund'[r] = row
                  /\ row.method = refund[r].method /\ row.key = refund[r].key
  BY <1>2, <1>4 DEF Updates
<1>6. x.pc # "idle" => x.id \in Refunds /\ (x.id # r => refund'[x.id] = refund[x.id])
  BY <1>1, <1>2 DEF SubjectInv
<1>7. SubjectInv(x)'
  BY <1>1, <1>2, <1>6 DEF SubjectInv
<1>8. RetryInv(x)'
  BY <1>1, <1>5, <1>6 DEF RetryInv, SubjectInv, Paying
<1>9. MarkInv(x)'
  <2>1. ASSUME x.pc = "mark", x.id = r
        PROVE  /\ refund'[x.id].method = "BANK_TRANSFER" /\ x.row.version < refund'[x.id].version
               /\ x.row.version \in Nat /\ refund'[x.id].version \in Nat
    <3>1. x.row.version \in Nat /\ refund[r].version \in Nat /\ row.version \in Nat
      BY <1>1, <2>1, <1>5, RowTypes DEF SubjectInv, RefundRow, Rows
    <3>2. x.row.version <= refund[r].version /\ refund[r].method = "BANK_TRANSFER"
      BY <1>1, <2>1 DEF MarkInv
    <3>3. row.version > refund[r].version
      BY <1>5, <2>1, <3>2 DEF Updates
    <3> QED
      BY <1>5, <2>1, <3>1, <3>2, <3>3
  <2>2. x.pc = "mark" /\ x.id # r => refund'[x.id] = refund[x.id]
    BY <1>6
  <2> QED
    BY <1>1, <2>1, <2>2 DEF MarkInv
<1>10. CreateInv(s, x)'
  <2>1. x.pc \in Writing \cup Paying /\ refund'[x.id] = None => refund[x.id] = None /\ x.id # r
    BY <1>2, <1>6 DEF Writing, Paying
  <2>2. x.pc = "lock" => refund'[x.id] = None
    BY <1>1, <1>3, <1>6 DEF CreateInv, Writing
  <2>3. ASSUME x.pc \in Paying, refund[x.id] = None
        PROVE  /\ lock'[Payment] = s /\ ~KeyTaken(x.row.key)'
               /\ x.row.method = "CREDIT_NOTE" =>
                     SumOver(RowsOf("CREDIT_NOTE"))' + x.row.processed <= Amount
    <3>1. lock[Payment] = s /\ ~Inserts(t, r, row)
      BY <1>1, <2>3 DEF CreateInv, Inserts
    <3>2. Updates(r, row)
      BY <3>1
    <3>3. /\ KeyTaken(x.row.key)' <=> KeyTaken(x.row.key)
          /\ SumOver(RowsOf("CREDIT_NOTE"))' = SumOver(RowsOf("CREDIT_NOTE"))
      BY <3>2, PublishedKeys, PublishedCredit
    <3> QED
      BY <1>1, <2>3, <3>1, <3>3 DEF CreateInv
  <2> QED
    BY <1>1, <2>1, <2>2, <2>3 DEF CreateInv
<1> QED
  BY <1>7, <1>8, <1>9, <1>10 DEF SessInv

LEMMA PublishKept ==
    ASSUME IInv, NEW t \in Sessions, NEW r \in Refunds, r = sess[t].id, NEW row \in RefundRow,
           Publish(t, row), Inserts(t, r, row) \/ Updates(r, row), Records(t, r, row),
           row.method = "BANK_TRANSFER" =>
              row.completions <= 1 /\ (row.status = "INITIATED" => row.completions = 0)
    PROVE  IInv'
<1>1. /\ refund' = [refund EXCEPT ![r] = row] /\ UNCHANGED <<tx, started>>
      /\ lock' = [x \in DOMAIN lock |-> IF lock[x] = t THEN None ELSE lock[x]]
      /\ sess' = [sess EXCEPT ![t] = Idle]
  BY DEF Publish, EndSession
<1>2. /\ TypeOK /\ OwnInv /\ DOMAIN sess = Sessions
      /\ lock \in [Refunds \cup {Payment} -> Sessions \cup {None}]
  BY DEF IInv, TypeOK, SessTypeOK
<1>3. /\ refund' \in [Refunds -> RefundRow \cup {None}]
      /\ \A q \in Refunds : refund'[q] = IF q = r THEN row ELSE refund[q]
      /\ row # None
  BY <1>1, <1>2, PublishedRows
<1>4. TypeOK' /\ SessTypeOK'
  BY <1>1, <1>2, <1>3, IdleKept DEF IInv, TypeOK, SessTypeOK
<1>5. /\ OneRefundPerKey' /\ CreditRefundsCovered' /\ MovedInv'
      /\ (TransferCompletedOnce /\ TransferInv)'
  BY <1>1, PublishedKeys, PublishedCredit, PublishedMoney, PublishedTransfers
<1>6. \A s \in Sessions : sess'[s] = IF s = t THEN Idle ELSE sess[s]
  BY <1>1, <1>2
<1>7. OwnInv'
  <2>1. \A s \in Sessions : sess[s].pc \in Writing => sess[s].id \in Refunds
    BY DEF IInv, SessInv, SubjectInv, Writing
  <2>2. Idle.id = None /\ Idle.pc \notin Writing /\ None \notin Refunds
    BY ConstantsAssumption DEF Idle, Writing
  <2>3. ASSUME NEW a \in Sessions, NEW b \in Sessions, sess'[a].pc \in Writing,
               refund'[sess'[a].id] = None, sess'[b].id = sess'[a].id
        PROVE  a = b
    <3>1. a # t /\ sess'[a] = sess[a] /\ sess[a].id \in Refunds
      BY <1>6, <2>1, <2>2, <2>3
    <3>2. refund[sess[a].id] = None
      BY <1>3, <2>3, <3>1
    <3>3. b # t /\ sess'[b] = sess[b]
      BY <1>6, <2>2, <2>3, <3>1
    <3> QED
      BY <1>2, <2>3, <3>1, <3>2, <3>3 DEF OwnInv
  <2> QED
    BY <2>3 DEF OwnInv
<1>8. ASSUME NEW s \in Sessions PROVE SessInv(s, sess[s])'
  <2>1. CASE s = t
    BY <1>6, <2>1, IdleKept, SessNext
  <2>2. CASE s # t
    <3>1. PICK x : x = sess[s]
      OBVIOUS
    <3>2. lock[Payment] = s => lock'[Payment] = s
      BY <1>1, <1>2, <2>2
    <3>3. SessInv(s, x)'
      BY <1>1, <2>2, <3>1, <3>2, PublishedRelies
    <3> QED
      BY <1>6, <2>2, <3>1, <3>3, SessNext
  <2> QED
    BY <2>1, <2>2
<1> QED
  BY <1>4, <1>5, <1>7, <1>8 DEF IInv

LEMMA CommitRefundKept ==
    ASSUME IInv, NEW t \in Sessions, CommitRefund(t)
    PROVE  IInv'
<1>1. PICK x : x = sess[t]
  OBVIOUS
<1>2. /\ TypeOK /\ x \in SessionRow /\ SubjectInv(x) /\ CreateInv(t, x) /\ RetryInv(x)
  BY <1>1, Mine
<1>3. x.pc = "commit" /\ Publish(t, x.row)
  BY <1>1 DEF CommitRefund
<1>4. PICK r \in Refunds, row \in RefundRow : r = x.id /\ row = x.row
  BY <1>2, <1>3 DEF SubjectInv
<1>5. row.processed \in Nat /\ row.method \in Methods
  BY ConstantsAssumption DEF RefundRow
<1>6. Records(t, r, row)
  BY <1>1, <1>2, <1>3, <1>4, <1>5 DEF Records, RetryInv, Carries
<1>7. CASE refund[r] = None
  <2>1. Inserts(t, r, row)
    BY <1>1, <1>2, <1>3, <1>4, <1>7 DEF Inserts, CreateInv, Writing, Paying
  <2>2. row.method = "BANK_TRANSFER" => row.completions = 0
    BY <1>2, <1>3, <1>4, <1>7 DEF CreateInv, Writing
  <2>3. row.method = "BANK_TRANSFER" =>
           row.completions <= 1 /\ (row.status = "INITIATED" => row.completions = 0)
    BY <2>2
  <2> QED
    BY <1>1, <1>3, <1>4, <1>6, <2>1, <2>3, PublishKept
<1>8. CASE refund[r] # None
  <2>1. row.method = "CARD_REFUND" /\ refund[r].method = "CARD_REFUND" /\ row.key = refund[r].key
    BY <1>2, <1>3, <1>4, <1>8 DEF RetryInv, Paying
  <2>2. Updates(r, row)
    BY <1>8, <2>1 DEF Updates
  <2> QED
    BY <1>1, <1>3, <1>4, <1>6, <2>1, <2>2, PublishKept
<1> QED
  BY <1>7, <1>8

LEMMA MarkCompleteKept ==
    ASSUME IInv, NEW t \in Sessions, MarkComplete(t)
    PROVE  IInv'
<1>1. PICK x : x = sess[t]
  OBVIOUS
<1>2. TypeOK /\ SubjectInv(x) /\ MarkInv(x)
  BY <1>1, Mine
<1>3. x.pc = "mark" /\ refund[x.id].version = x.row.version
  BY <1>1 DEF MarkComplete
<1>4. PICK r \in Rows : r = x.id
  BY <1>2, <1>3 DEF SubjectInv, Rows
<1>5. PICK old : old = refund[r]
  OBVIOUS
<1>6. r \in Refunds /\ old \in RefundRow /\ old.version \in Nat /\ old.completions = 0
      /\ old.method = "BANK_TRANSFER" /\ refund[r] # None
  BY <1>2, <1>3, <1>4, <1>5, RowTypes DEF MarkInv, Rows
<1>7. old.requested \in 0..Amount
  BY <1>6, ConstantsAssumption DEF RefundRow
<1>8. PICK processed, version, completions : /\ processed = old.requested /\ version = old.version + 1
                                             /\ completions = old.completions + 1
  OBVIOUS
<1> DEFINE row == [old EXCEPT !.status = "COMPLETED", !.processed = processed,
                              !.version = version, !.completions = completions]
<1>9. Publish(t, row)
  BY <1>1, <1>4, <1>5, <1>8 DEF MarkComplete
<1>10. version \in Nat /\ version > old.version /\ completions = 1 /\ processed \in 0..Amount
  BY <1>6, <1>7, <1>8
<1>11. /\ row \in RefundRow /\ row.method = old.method /\ row.key = old.key
       /\ row.version = version /\ row.completions = 1 /\ row.status = "COMPLETED"
  BY <1>6, <1>10 DEF RefundRow, Statuses
<1> HIDE DEF row
<1>12. Updates(r, row) /\ Records(t, r, row)
  BY <1>5, <1>6, <1>10, <1>11 DEF Updates, Records
<1> QED
  BY <1>1, <1>4, <1>6, <1>9, <1>11, <1>12, PublishKept

LEMMA ApplyWebhookKept ==
    ASSUME IInv, NEW t \in Sessions, ApplyWebhook(t)
    PROVE  IInv'
<1>1. PICK x : x = sess[t]
  OBVIOUS
<1>2. TypeOK /\ MovedInv /\ SubjectInv(x) /\ RetryInv(x)
  BY <1>1, Mine
<1>3. x.pc = "webhook"
  BY <1>1 DEF ApplyWebhook
<1>4. PICK r \in Rows : r = x.id
  BY <1>2, <1>3 DEF SubjectInv, Rows
<1>5. PICK old : old = refund[r]
  OBVIOUS
<1>6. /\ r \in Refunds /\ old \in RefundRow /\ old.method = "CARD_REFUND" /\ refund[r] # None
      /\ x.row \in RefundRow
  BY <1>2, <1>3, <1>4, <1>5, RowTypes DEF RetryInv, SubjectInv, Rows
<1>7. PICK version : version = x.row.version + 1
  OBVIOUS
<1>8. version \in Nat
  BY <1>6, <1>7 DEF RefundRow
<1> DEFINE row == [old EXCEPT !.version = version]
<1>9. Publish(t, row)
  BY <1>1, <1>4, <1>5, <1>7 DEF ApplyWebhook
<1>10. /\ row \in RefundRow /\ row.method = old.method /\ row.key = old.key
       /\ row.processed = old.processed /\ row.status = old.status
  BY <1>6, <1>8 DEF RefundRow
<1> HIDE DEF row
<1>11. old.status = "FAILED" => old.processed = 0
  BY <1>2, <1>4, <1>5, <1>6 DEF MovedInv, RowsOf
<1>12. Updates(r, row) /\ Records(t, r, row)
  BY <1>5, <1>6, <1>10, <1>11 DEF Updates, Records
<1> QED
  BY <1>1, <1>4, <1>6, <1>9, <1>10, <1>12, PublishKept

-----------------------------------------------------------------------------
(* The invariant, and what follows from it *)

LEMMA StutterKept == ASSUME IInv, UNCHANGED vars PROVE IInv'
<1>1. UNCHANGED <<refund, tx, lock, sess, started>>
  BY DEF vars
<1>2. TypeOK' /\ SessTypeOK'
  BY <1>1 DEF IInv, TypeOK, SessTypeOK
<1>3. (OneRefundPerKey /\ CreditRefundsCovered /\ TransferCompletedOnce /\ TransferInv)'
  BY <1>1, SameRows DEF IInv, OneRefundPerKey, CreditRefundsCovered, TransferCompletedOnce, TransferInv
<1>4. MovedInv' /\ OwnInv'
  BY <1>1, SameRows DEF IInv, MovedInv, OwnInv, Carries
<1>5. ASSUME NEW s \in Sessions PROVE SessInv(s, sess[s])'
  <2>1. PICK x : x = sess[s]
    OBVIOUS
  <2>2. SessInv(s, x)'
    BY <1>1, <2>1, QuietRelies DEF IInv
  <2> QED
    BY <1>1, <2>1, <2>2, SessNext
<1> QED
  BY <1>2, <1>3, <1>4, <1>5 DEF IInv

LEMMA NextInv == IInv /\ [Next]_vars => IInv'
BY SettleKept, StartCreateKept, LockPaymentKept, CommitRefundKept, ReverseTransactionKept,
   ReversalFailsKept, StartReadKept, BeginRetryKept, MarkCompleteKept, ApplyWebhookKept, RollbackKept,
   StutterKept DEF Next

LEMMA Invariant == Spec => []IInv
BY InitInv, NextInv, PTL DEF Spec

\* At most one card refund records anything, and it records what moved.
LEMMA CardSum == IInv => CardRefundsMoved
<1> SUFFICES ASSUME IInv PROVE SumOver(RowsOf("CARD_REFUND")) <= tx.moved
  BY DEF CardRefundsMoved
<1>1. TypeOK /\ MovedInv /\ IsFiniteSet(Refunds) /\ tx.moved \in Nat
  BY ConstantsAssumption DEF IInv, TypeOK
<1> DEFINE C == RowsOf("CARD_REFUND")
           f == [r \in Refunds |-> IF r \in C THEN refund[r].processed ELSE 0]
<1>2. \A r \in C : r \in Refunds /\ refund[r].processed \in Nat /\ refund[r].processed \in {0, tx.moved}
  BY <1>1, RowTypes DEF RowsOf, MovedInv
<1>3. CASE \A r \in C : refund[r].processed = 0
  <2>1. DOMAIN f = Refunds /\ \A r \in Refunds : f[r] = 0
    BY <1>3
  <2> HIDE DEF f
  <2>2. SumFunction(f) = 0
    BY <1>1, <2>1, SumFunctionZero
  <2> QED
    BY <1>1, <2>2 DEF f, SumOver
<1>4. CASE \E r \in C : refund[r].processed # 0
  <2>1. PICK a \in C : refund[a].processed # 0
    BY <1>4
  <2>2. \A r \in C \ {a} : refund[r].processed = 0
    BY <1>1, <1>2, <2>1 DEF MovedInv
  <2>3. a \in Refunds /\ f[a] = tx.moved /\ DOMAIN f = Refunds /\ \A r \in Refunds \ {a} : f[r] = 0
    BY <1>2, <2>1, <2>2
  <2> HIDE DEF f
  <2>4. f[a] \in Int
    BY <1>1, <2>3
  <2>5. SumFunctionOnSet(f, Refunds) = f[a]
    BY <1>1, <2>3, <2>4, SumPoint
  <2>6. SumFunction(f) = tx.moved
    BY <2>3, <2>5 DEF SumFunction
  <2> QED
    BY <1>1, <2>6 DEF f, SumOver
<1> QED
  BY <1>3, <1>4

\* create_refund: no two refunds carry the same idempotency key, for any
\* number of concurrent requests.
THEOREM KeyUsedOnce == Spec => []OneRefundPerKey
<1>1. IInv => OneRefundPerKey
  BY DEF IInv
<1> QED
  BY <1>1, Invariant, PTL

\* refund_or_void_transaction in the middle of a transaction: what the card
\* refunds record as processed has left the gateway, whatever fails, is
\* retried or rolls back around the call.
THEOREM CardRefundsAreReal == Spec => []CardRefundsMoved
BY CardSum, Invariant, PTL

\* lock_payment: the refunds paid out as credit stay within the payment.
THEOREM CreditRefundsFit == Spec => []CreditRefundsCovered
<1>1. IInv => CreditRefundsCovered
  BY DEF IInv
<1> QED
  BY <1>1, Invariant, PTL

\* mark_refund_complete: a bank transfer is completed at most once.
THEOREM TransferOnce == Spec => []TransferCompletedOnce
<1>1. IInv => TransferCompletedOnce
  BY DEF IInv
<1> QED
  BY <1>1, Invariant, PTL
=============================================================================

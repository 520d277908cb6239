--------------------------- MODULE BillingProofs ---------------------------
(***************************************************************************)
(* Proofs about Billing for any sessions, payments, invoices and credit    *)
(* notes, any amounts and any number of requests.                          *)
(*                                                                         *)
(* The invariant says what a request in progress may rely on.  It holds a  *)
(* row lock from its write of the row to its end; for the rows it has only *)
(* read it has the version it saw, and a fact computed from such a row is  *)
(* good as long as the version is still that one.  The second argument     *)
(* fails for a payment whose version a webhook has set back, and with it   *)
(* for the invoices of a replacement that removes other rows than it read. *)
(***************************************************************************)
EXTENDS Billing, SumTheorems, TLAPS

Versions == UNION {[D -> Nat] : D \in SUBSET Rows}
InvoiceRows == UNION {[D -> InvoiceRow] : D \in SUBSET Invoices}
Ints == [Invoices -> Int]

Steps == {"idle", "remove", "current", "read", "totals", "insert", "waiting", "sum", "payment",
          "invoices", "edit", "unallocated", "void", "webhook", "outcome", "credit", "apply", "applied", "void_credit"}

SessionRow ==
    [pc : Steps,
     op : {"none", "ADD", "REPLACE", "EDIT", "VOID_PAYMENT", "WEBHOOK", "VOID", "WRITTEN_OFF",
           "APPLY", "VOID_CREDIT"},
     id : Rows \cup {None}, inv : Invoices \cup {None}, seen : Versions,
     target : Ints, current : Ints, turn : Nat, delta : Ints, sum : Nat,
     todo : SUBSET Invoices, new : InvoiceRows]

\* The requests that have checked the sums, and those that have written.
Checked == {"insert", "waiting"}
Inserted == {"sum", "payment", "invoices"}
Allocating == {"remove", "current", "read", "totals"} \cup Checked \cup Inserted
PaymentSteps == Allocating \cup {"edit", "unallocated", "void", "webhook"}

\* What the request is about, and that it has read it.
SubjectInv(r) ==
    /\ r.pc \in PaymentSteps => r.id \in Payments /\ r.id \in DOMAIN r.seen
    /\ r.pc \in Allocating => /\ r.op \in {"ADD", "REPLACE"}
                              /\ \A i \in Invoices : r.target[i] \in Nat /\ r.current[i] \in Nat
    /\ r.pc \in Allocating /\ r.op = "ADD" => r.current = NoAmounts
    /\ r.pc = "remove" => r.inv \in Invoices
    /\ r.pc \in {"remove", "current"} => r.op = "REPLACE"
    /\ r.pc \in {"totals"} \cup Checked => \A i \in Invoices : r.target[i] > 0 => i \in DOMAIN r.seen
    /\ r.pc = "outcome" => r.id \in Invoices /\ r.op \in {"VOID", "WRITTEN_OFF"}
    /\ r.pc \in {"credit", "apply"} => r.id \in Credits /\ r.inv \in Invoices
    /\ r.pc \in {"applied", "void_credit"} => r.id \in Credits

\* The versions it has read are not from the future.
SeenInv(r) ==
    /\ \A p \in Payments : p \in DOMAIN r.seen => pay[p].rewound \/ r.seen[p] <= pay[p].version
    /\ \A i \in Invoices : i \in DOMAIN r.seen => r.seen[i] <= inv[i].version

\* The payment is as the request has read it.
Fresh(r) == ~pay[r.id].rewound /\ pay[r.id].version = r.seen[r.id]

\* The change of the invoice's rows is the one the request has checked.
Exact(r, i) == r.delta[i] = r.target[i] - r.current[i]

\* The invoice's sums do not fail the request.
Reliable(r, i) == i \notin misread /\ inv[i].version = r.seen[i]

\* A request that has checked the sums: where the version still is the one
\* that was read there is room on the invoice.  One that has written its
\* allocations: they leave no amount negative, an invoice they change as
\* checked is recomputed, and there still is room for such a change.
InsertedInv(r) ==
    /\ r.pc \in Checked =>
          \A i \in Invoices : r.target[i] > 0 /\ Reliable(r, i) =>
             PaidOn(i) + CreditOn(i) + (r.target[i] - r.current[i]) <= Total[i]
    /\ r.pc \in Inserted =>
        /\ \A i \in Invoices : alloc[r.id][i] + r.delta[i] >= 0
        /\ \A i \in Invoices : Exact(r, i) /\ r.delta[i] # 0 => i \in r.todo \/ i \in DOMAIN r.new
        /\ r.op = "ADD" => \A i \in Invoices : r.delta[i] >= 0
        /\ \A i \in r.todo :
              IF i \in DOMAIN r.seen
              THEN Exact(r, i) /\ Reliable(r, i) =>
                      PaidOn(i) + CreditOn(i) + r.delta[i] <= Total[i]
              ELSE r.delta[i] <= 0

\* An invoice that is recomputed is locked, so the new row stays right.
NewRowsInv(s, r) ==
    /\ r.pc # "invoices" => DOMAIN r.new = {}
    /\ \A i \in DOMAIN r.new :
          /\ lock[i] = s
          /\ r.new[i].version = inv[i].version + 1
          /\ i \notin misread =>
                /\ r.new[i] = Projection(i, PaidOn(i) + r.delta[i], CreditOn(i), inv[i].outcome,
                                         inv[i].version + 1)
                /\ Exact(r, i) => PaidOn(i) + CreditOn(i) + r.delta[i] <= Total[i]

\* What is known of the payment as long as it is as the request has read it:
\* then its allocations are too.
PaymentInv(s, r) ==
    /\ r.pc \in Allocating /\ Fresh(r) => pay[r.id].status # "VOIDED"
    /\ r.pc \in {"read", "totals"} \cup Checked /\ r.op = "REPLACE" /\ Fresh(r) =>
          r.current = alloc[r.id]
    /\ r.pc = "waiting" /\ Fresh(r) => r.turn = pay[r.id].batches
    /\ r.pc \in Inserted /\ Fresh(r) => \A i \in Invoices : Exact(r, i)
    /\ r.pc \in {"payment", "invoices"} /\ Fresh(r) =>
          r.sum = AllocatedOf(r.id) + SumFunction(r.delta) /\ r.sum <= Amount[r.id]
    /\ r.pc = "invoices" => lock[r.id] = s /\ pay[r.id].version = r.seen[r.id]
    /\ r.pc = "void" /\ Fresh(r) => AllocatedOf(r.id) = 0

\* A credit note is locked while it is applied, and so is the invoice.
CreditInv(s, r) ==
    /\ r.pc \in {"credit", "apply"} => lock[r.id] = s /\ cn[r.id].status = "ISSUED"
    /\ r.pc = "apply" => /\ lock[r.inv] = s
                         /\ AppliedOf(r.id) + r.sum <= Credit[r.id]
                         /\ r.inv \notin misread =>
                               PaidOn(r.inv) + CreditOn(r.inv) + r.sum <= Total[r.inv]

SessInv(s, r) ==
    /\ SubjectInv(r) /\ SeenInv(r) /\ InsertedInv(r) /\ NewRowsInv(s, r)
    /\ PaymentInv(s, r) /\ CreditInv(s, r)

RowsInv ==
    /\ PaymentNotOverAllocated /\ PaymentProjectionTrue /\ VoidedPaymentUnallocated
    /\ InvoiceNotOverPaid /\ InvoiceProjectionTrue /\ CreditNoteNotOverApplied
    /\ MisreadNeedsRewind

\* Of two requests that replace the allocations of a payment, one waits.
ReplaceInv ==
    \A s, t \in Sessions :
        /\ sess[s].pc \in Inserted /\ sess[s].op = "REPLACE"
        /\ sess[t].pc \in Inserted /\ sess[t].op = "REPLACE"
        /\ sess[s].id = sess[t].id
        => s = t

SessTypeOK == sess \in [Sessions -> SessionRow]

IInv ==
    /\ TypeOK /\ SessTypeOK
    /\ RowsInv /\ ReplaceInv
    /\ \A s \in Sessions : SessInv(s, sess[s])

-----------------------------------------------------------------------------
(* Types *)

LEMMA FiniteTables == IsFiniteSet(Payments) /\ IsFiniteSet(Invoices) /\ IsFiniteSet(Credits)
<1>1. Payments \in SUBSET Rows /\ Invoices \in SUBSET Rows /\ Credits \in SUBSET Rows
  BY DEF Rows
<1> QED
  BY <1>1, ConstantsAssumption, FS_Subset

\* The sums the repositories compute are amounts.
LEMMA SumTypes ==
    ASSUME TypeOK
    PROVE  /\ \A p \in Payments : AllocatedOf(p) \in Nat
           /\ \A i \in Invoices : PaidOn(i) \in Nat /\ CreditOn(i) \in Nat
           /\ \A c \in Credits : AppliedOf(c) \in Nat
<1>1. \A p \in Payments : alloc[p] \in [Invoices -> Nat]
  BY DEF TypeOK
<1>2. \A c \in Credits : applied[c] \in [Invoices -> Nat]
  BY DEF TypeOK
<1>3. \A i \in Invoices : [p \in Payments |-> alloc[p][i]] \in [Payments -> Nat]
  BY <1>1
<1>4. \A i \in Invoices : [c \in Credits |-> applied[c][i]] \in [Credits -> Nat]
  BY <1>2
<1> QED
  BY <1>1, <1>2, <1>3, <1>4, FiniteTables, SumFunctionNat DEF AllocatedOf, PaidOn, CreditOn, AppliedOf

LEMMA SumTypesNext ==
    ASSUME TypeOK'
    PROVE  /\ \A p \in Payments : AllocatedOf(p)' \in Nat
           /\ \A i \in Invoices : PaidOn(i)' \in Nat /\ CreditOn(i)' \in Nat
           /\ \A c \in Credits : AppliedOf(c)' \in Nat
<1>1. \A p \in Payments : alloc'[p] \in [Invoices -> Nat]
  BY DEF TypeOK
<1>2. \A c \in Credits : applied'[c] \in [Invoices -> Nat]
  BY DEF TypeOK
<1>3. \A i \in Invoices : [p \in Payments |-> alloc'[p][i]] \in [Payments -> Nat]
  BY <1>1
<1>4. \A i \in Invoices : [c \in Credits |-> applied'[c][i]] \in [Credits -> Nat]
  BY <1>2
<1> QED
  BY <1>1, <1>2, <1>3, <1>4, FiniteTables, SumFunctionNat DEF AllocatedOf, PaidOn, CreditOn, AppliedOf

LEMMA ProjectionType ==
    ASSUME NEW i \in Invoices, NEW paid \in Nat, NEW credit \in Nat, NEW outcome \in Outcomes,
           NEW version \in Nat
    PROVE  /\ Projection(i, paid, credit, outcome, version) \in InvoiceRow
           /\ Projection(i, paid, credit, outcome, version).version = version
           /\ Projection(i, paid, credit, outcome, version).outcome = outcome
           /\ Projection(i, paid, credit, outcome, version).paid = paid
           /\ Projection(i, paid, credit, outcome, version).status =
                 ComputePaymentStatus(i, paid, credit, outcome)
<1>1. ComputePaymentStatus(i, paid, credit, outcome) \in
         {"UNPAID", "PARTIALLY_PAID", "PAID", "VOID", "WRITTEN_OFF"}
  <2>1. Total[i] \in Nat
    BY ConstantsAssumption
  <2> DEFINE balance == Total[i] - credit - paid
  <2>2. balance \in Int /\ (balance <= 0 \/ balance > 0) /\ (paid > 0 \/ paid <= 0)
    BY <2>1
  <2> QED
    BY <2>2 DEF ComputePaymentStatus, Outcomes
<1> QED
  BY <1>1 DEF Projection, InvoiceRow

LEMMA IdleType == Idle \in SessionRow
<1>1. NoAmounts \in Ints /\ << >> \in Versions /\ << >> \in InvoiceRows
  <2>1. << >> \in [{} -> Nat] /\ << >> \in [{} -> InvoiceRow]
    OBVIOUS
  <2>2. {} \in SUBSET Rows /\ {} \in SUBSET Invoices
    OBVIOUS
  <2>3. NoAmounts \in Ints
    BY DEF NoAmounts, Ints
  <2>4. << >> \in Versions
    BY <2>1, <2>2 DEF Versions
  <2>5. << >> \in InvoiceRows
    BY <2>1, <2>2 DEF InvoiceRows
  <2> QED
    BY <2>3, <2>4, <2>5
<1> QED
  BY <1>1 DEF Idle, SessionRow, Steps

\* A session that does nothing relies on nothing.
LEMMA IdleInv ==
    ASSUME NEW s
    PROVE  SessInv(s, Idle) /\ SessInv(s, Idle)'
<1>1. /\ Idle.pc = "idle" /\ DOMAIN Idle.seen = {} /\ DOMAIN Idle.new = {}
      /\ Idle.pc \notin PaymentSteps /\ Idle.pc \notin Allocating /\ Idle.pc \notin Inserted
      /\ Idle.pc \notin Checked
  BY DEF Idle, PaymentSteps, Allocating, Checked, Inserted
<1>2. SubjectInv(Idle) /\ SeenInv(Idle) /\ InsertedInv(Idle)
  BY <1>1 DEF SubjectInv, SeenInv, InsertedInv
<1>3. NewRowsInv(s, Idle) /\ PaymentInv(s, Idle) /\ CreditInv(s, Idle)
  BY <1>1 DEF NewRowsInv, PaymentInv, CreditInv
<1>4. (SubjectInv(Idle) /\ SeenInv(Idle) /\ InsertedInv(Idle))'
  BY <1>1 DEF SubjectInv, SeenInv, InsertedInv
<1>5. (NewRowsInv(s, Idle) /\ PaymentInv(s, Idle) /\ CreditInv(s, Idle))'
  BY <1>1 DEF NewRowsInv, PaymentInv, CreditInv
<1> QED
  BY <1>2, <1>3, <1>4, <1>5 DEF SessInv

LEMMA InitInv == Init => IInv
<1> SUFFICES ASSUME Init PROVE IInv
  OBVIOUS
<1>0. 1 \in Nat /\ 0 \in Nat /\ 0 \in 0..MaxRequests /\ \A i \in Invoices : Total[i] \in Nat
  BY ConstantsAssumption
<1>1. TypeOK
  <2>1. pay \in [Payments -> PaymentRow]
    BY DEF Init, PaymentRow
  <2>2. inv \in [Invoices -> InvoiceRow]
    BY DEF Init, InvoiceRow, Outcomes
  <2>3. cn \in [Credits -> CreditRow]
    BY DEF Init, CreditRow
  <2> QED
    BY <1>0, <2>1, <2>2, <2>3 DEF Init, TypeOK, NoAmounts
<1>2. SessTypeOK /\ \A s \in Sessions : sess[s] = Idle
  BY IdleType DEF Init, SessTypeOK
<1>3. /\ \A p \in Payments : AllocatedOf(p) = 0
      /\ \A i \in Invoices : PaidOn(i) = 0 /\ CreditOn(i) = 0
      /\ \A c \in Credits : AppliedOf(c) = 0
  <2>1. \A p \in Payments : AllocatedOf(p) = 0
    BY FiniteTables, SumFunctionZero DEF Init, AllocatedOf, NoAmounts
  <2>2. \A c \in Credits : AppliedOf(c) = 0
    BY FiniteTables, SumFunctionZero DEF Init, AppliedOf, NoAmounts
  <2>3. ASSUME NEW i \in Invoices
        PROVE  PaidOn(i) = 0 /\ CreditOn(i) = 0
    <3> DEFINE f == [p \in Payments |-> alloc[p][i]]
               g == [c \in Credits |-> applied[c][i]]
    <3>1. DOMAIN f = Payments /\ (\A p \in Payments : f[p] = 0)
          /\ DOMAIN g = Credits /\ (\A c \in Credits : g[c] = 0)
      BY DEF Init, NoAmounts
    <3> HIDE DEF f, g
    <3>2. SumFunction(f) = 0 /\ SumFunction(g) = 0
      BY <3>1, FiniteTables, SumFunctionZero
    <3> QED
      BY <3>2 DEF f, g, PaidOn, CreditOn
  <2> QED
    BY <2>1, <2>2, <2>3
<1>4. RowsInv
  <2>1. PaymentNotOverAllocated /\ PaymentProjectionTrue /\ VoidedPaymentUnallocated
    BY <1>3, ConstantsAssumption
       DEF Init, PaymentNotOverAllocated, PaymentProjectionTrue, VoidedPaymentUnallocated, Versioned
  <2>2. InvoiceNotOverPaid /\ CreditNoteNotOverApplied
    BY <1>0, <1>3, ConstantsAssumption DEF InvoiceNotOverPaid, CreditNoteNotOverApplied, ReadRight
  <2>3. InvoiceProjectionTrue
    BY <1>0, <1>3 DEF Init, InvoiceProjectionTrue, ComputePaymentStatus, ReadRight
  <2>4. MisreadNeedsRewind
    BY DEF Init, MisreadNeedsRewind
  <2> QED
    BY <2>1, <2>2, <2>3, <2>4 DEF RowsInv
<1>5. ReplaceInv
  BY <1>2 DEF ReplaceInv, Idle, Inserted
<1> QED
  BY <1>1, <1>2, <1>4, <1>5, IdleInv DEF IInv

-----------------------------------------------------------------------------
(* What a request relies on survives the steps of others *)

\* The step of another session does this to the rows that session s, in state
\* r, relies on: it writes only rows that s has not locked, every write of an
\* invoice raises its version, every write of a payment too unless it sets
\* the version back, no allocation shrinks that s is about to reduce, and an
\* invoice whose sums change behind its version is counted as misread.
Respects(s, r) ==
    /\ \A x \in Rows : lock[x] = s => lock'[x] = s
    /\ \A p \in Payments :
          \/ pay'[p] = pay[p] /\ alloc'[p] = alloc[p]
          \/ /\ lock[p] # s
             /\ pay'[p].rewound \/ (~pay[p].rewound /\ pay'[p].version > pay[p].version)
    /\ \A i \in Invoices :
          \/ inv'[i] = inv[i] /\ PaidOn(i)' = PaidOn(i) /\ CreditOn(i)' = CreditOn(i)
          \/ lock[i] # s /\ inv'[i].version > inv[i].version
          \/ i \in misread' /\ inv'[i] = inv[i]
    /\ misread \subseteq misread'
    /\ \A c \in Credits :
          \/ cn'[c] = cn[c] /\ applied'[c] = applied[c]
          \/ lock[c] # s
    /\ r.pc \in Inserted /\ r.op = "REPLACE" =>
          \A i \in Invoices : alloc'[r.id][i] >= alloc[r.id][i]

LEMMA RowTypes ==
    ASSUME TypeOK
    PROVE  /\ \A p \in Payments : /\ pay[p] \in PaymentRow /\ pay[p].version \in Nat
                                  /\ pay[p].rewound \in BOOLEAN /\ alloc[p] \in [Invoices -> Nat]
                                  /\ pay[p].status \in {"OPEN", "VOIDED"}
           /\ \A i \in Invoices : /\ inv[i] \in InvoiceRow /\ inv[i].version \in Nat
                                  /\ inv[i].outcome \in Outcomes
           /\ \A c \in Credits : /\ cn[c] \in CreditRow /\ cn[c].version \in Nat
                                 /\ applied[c] \in [Invoices -> Nat]
BY DEF TypeOK, PaymentRow, InvoiceRow, CreditRow

LEMMA RowTypesNext ==
    ASSUME TypeOK'
    PROVE  /\ \A p \in Payments : /\ pay'[p].version \in Nat /\ pay'[p].rewound \in BOOLEAN
                                  /\ alloc'[p] \in [Invoices -> Nat]
           /\ \A i \in Invoices : inv'[i].version \in Nat
BY DEF TypeOK, PaymentRow, InvoiceRow, CreditRow

LEMMA SessionTypes ==
    ASSUME NEW r \in SessionRow
    PROVE  /\ r.pc \in Steps /\ r.id \in Rows \cup {None} /\ r.sum \in Nat
           /\ \A x \in DOMAIN r.seen : x \in Rows /\ r.seen[x] \in Nat
           /\ \A i \in Invoices : r.delta[i] \in Int
           /\ r.todo \subseteq Invoices
           /\ DOMAIN r.new \subseteq Invoices
           /\ \A i \in DOMAIN r.new : r.new[i] \in InvoiceRow
<1>1. /\ r.pc \in Steps /\ r.id \in Rows \cup {None} /\ r.sum \in Nat /\ r.todo \subseteq Invoices
      /\ r.seen \in Versions /\ r.delta \in Ints /\ r.new \in InvoiceRows
  BY DEF SessionRow
<1>2. PICK D \in SUBSET Rows : r.seen \in [D -> Nat]
  BY <1>1 DEF Versions
<1>3. PICK E \in SUBSET Invoices : r.new \in [E -> InvoiceRow]
  BY <1>1 DEF InvoiceRows
<1>4. \A i \in Invoices : r.delta[i] \in Int
  BY <1>1 DEF Ints
<1> QED
  BY <1>1, <1>2, <1>3, <1>4

LEMMA StillRelies ==
    ASSUME TypeOK, TypeOK', NEW s, NEW r \in SessionRow, SessInv(s, r), Respects(s, r)
    PROVE  SessInv(s, r)'
<1>0. SubjectInv(r) /\ SeenInv(r) /\ InsertedInv(r) /\ NewRowsInv(s, r) /\ PaymentInv(s, r) /\ CreditInv(s, r)
  BY DEF SessInv
<1>1. SubjectInv(r)'
  BY <1>0 DEF SubjectInv
<1>2. SeenInv(r)'
  <2>1. ASSUME NEW p \in Payments, p \in DOMAIN r.seen
        PROVE  pay'[p].rewound \/ r.seen[p] <= pay'[p].version
    <3>1. r.seen[p] \in Nat /\ pay[p].version \in Nat /\ pay'[p].version \in Nat
      BY <2>1, SessionTypes, RowTypes, RowTypesNext
    <3> QED
      BY <1>0, <2>1, <3>1 DEF SeenInv, Respects
  <2>2. ASSUME NEW i \in Invoices, i \in DOMAIN r.seen
        PROVE  r.seen[i] <= inv'[i].version
    <3>1. r.seen[i] \in Nat /\ inv[i].version \in Nat /\ inv'[i].version \in Nat
      BY <2>2, SessionTypes, RowTypes, RowTypesNext
    <3> QED
      BY <1>0, <2>2, <3>1 DEF SeenInv, Respects
  <2> QED
    BY <2>1, <2>2 DEF SeenInv
<1>3. InsertedInv(r)'
  <2>0. r.pc \in Inserted => r.id \in Payments /\ r.op \in {"ADD", "REPLACE"}
    BY <1>0 DEF SubjectInv, Allocating, PaymentSteps
  <2>1. ASSUME r.pc \in Inserted, NEW i \in Invoices
        PROVE  alloc'[r.id][i] + r.delta[i] >= 0
    <3>1. alloc[r.id][i] \in Nat /\ alloc'[r.id][i] \in Nat /\ r.delta[i] \in Int
      BY <2>0, <2>1, SessionTypes, RowTypes, RowTypesNext
    <3>2. alloc[r.id][i] + r.delta[i] >= 0
      BY <1>0, <2>1 DEF InsertedInv
    <3>3. CASE r.op = "ADD"
      BY <1>0, <2>1, <3>1, <3>3 DEF InsertedInv
    <3>4. CASE r.op = "REPLACE"
      <4>1. alloc'[r.id][i] >= alloc[r.id][i]
        BY <2>1, <3>4 DEF Respects
      <4> QED
        BY <3>1, <3>2, <4>1
    <3> QED
      BY <2>0, <2>1, <3>3, <3>4
  <2>2. ASSUME NEW i \in Invoices, i \in DOMAIN r.seen, Reliable(r, i)'
        PROVE  Reliable(r, i) /\ PaidOn(i)' = PaidOn(i) /\ CreditOn(i)' = CreditOn(i)
    <3>1. r.seen[i] \in Nat /\ inv[i].version \in Nat /\ inv'[i].version \in Nat
      BY <2>2, SessionTypes, RowTypes, RowTypesNext
    <3>2. r.seen[i] <= inv[i].version
      BY <1>0, <2>2 DEF SeenInv
    <3>3. i \notin misread' /\ inv'[i].version = r.seen[i]
      BY <2>2 DEF Reliable
    <3>4. /\ i \notin misread /\ inv'[i] = inv[i]
          /\ PaidOn(i)' = PaidOn(i) /\ CreditOn(i)' = CreditOn(i)
      BY <3>1, <3>2, <3>3 DEF Respects
    <3> QED
      BY <3>3, <3>4 DEF Reliable
  <2>3. ASSUME r.pc \in Checked, NEW i \in Invoices, r.target[i] > 0, Reliable(r, i)'
        PROVE  PaidOn(i)' + CreditOn(i)' + (r.target[i] - r.current[i]) <= Total[i]
    <3>1. i \in DOMAIN r.seen
      BY <1>0, <2>3 DEF SubjectInv
    <3> QED
      BY <1>0, <2>2, <2>3, <3>1 DEF InsertedInv
  <2>4. ASSUME r.pc \in Inserted, NEW i \in r.todo
        PROVE  IF i \in DOMAIN r.seen
               THEN Exact(r, i) /\ Reliable(r, i)' =>
                       PaidOn(i)' + CreditOn(i)' + r.delta[i] <= Total[i]
               ELSE r.delta[i] <= 0
    <3>1. i \in Invoices
      BY <2>4, SessionTypes
    <3> QED
      BY <1>0, <2>2, <2>4, <3>1 DEF InsertedInv
  <2>5. r.pc \in Inserted =>
           /\ \A i \in Invoices : Exact(r, i) /\ r.delta[i] # 0 => i \in r.todo \/ i \in DOMAIN r.new
           /\ r.op = "ADD" => \A i \in Invoices : r.delta[i] >= 0
    BY <1>0 DEF InsertedInv
  <2> QED
    BY <2>1, <2>3, <2>4, <2>5 DEF InsertedInv, Exact
<1>4. NewRowsInv(s, r)'
  <2>1. ASSUME NEW i \in DOMAIN r.new
        PROVE  /\ lock'[i] = s /\ inv'[i] = inv[i] /\ (i \notin misread' => i \notin misread)
               /\ i \notin misread' => PaidOn(i)' = PaidOn(i) /\ CreditOn(i)' = CreditOn(i)
    <3>1. lock[i] = s /\ i \in Invoices /\ i \in Rows
      BY <1>0, SessionTypes DEF NewRowsInv, Rows
    <3> QED
      BY <3>1 DEF Respects
  <2>2. ASSUME NEW i \in DOMAIN r.new, i \notin misread'
        PROVE  /\ r.new[i] = Projection(i, PaidOn(i)' + r.delta[i], CreditOn(i)', inv'[i].outcome,
                                        inv'[i].version + 1)
               /\ Exact(r, i) => PaidOn(i)' + CreditOn(i)' + r.delta[i] <= Total[i]
    <3>1. i \notin misread /\ inv'[i] = inv[i] /\ PaidOn(i)' = PaidOn(i) /\ CreditOn(i)' = CreditOn(i)
      BY <2>1, <2>2
    <3>2. /\ r.new[i] = Projection(i, PaidOn(i) + r.delta[i], CreditOn(i), inv[i].outcome,
                                   inv[i].version + 1)
          /\ Exact(r, i) => PaidOn(i) + CreditOn(i) + r.delta[i] <= Total[i]
      BY <1>0, <3>1 DEF NewRowsInv
    <3> QED
      BY <3>1, <3>2 DEF Projection, ComputePaymentStatus
  <2>3. (r.pc # "invoices" => DOMAIN r.new = {})
        /\ \A i \in DOMAIN r.new : lock'[i] = s /\ r.new[i].version = inv'[i].version + 1
    BY <1>0, <2>1 DEF NewRowsInv
  <2> QED
    BY <2>2, <2>3 DEF NewRowsInv, Exact, Projection, ComputePaymentStatus
<1>5. PaymentInv(s, r)'
  <2>1. ASSUME r.pc \in PaymentSteps, Fresh(r)'
        PROVE  /\ Fresh(r) /\ pay'[r.id] = pay[r.id] /\ alloc'[r.id] = alloc[r.id]
               /\ AllocatedOf(r.id)' = AllocatedOf(r.id)
    <3>1. r.id \in Payments /\ r.id \in DOMAIN r.seen
      BY <1>0, <2>1 DEF SubjectInv
    <3>2. r.seen[r.id] \in Nat /\ pay[r.id].version \in Nat /\ pay'[r.id].version \in Nat
      BY <3>1, SessionTypes, RowTypes, RowTypesNext
    <3>3. pay[r.id].rewound \/ r.seen[r.id] <= pay[r.id].version
      BY <1>0, <3>1 DEF SeenInv
    <3>4. ~pay'[r.id].rewound /\ pay'[r.id].version = r.seen[r.id]
      BY <2>1 DEF Fresh
    <3>5. pay'[r.id] = pay[r.id] /\ alloc'[r.id] = alloc[r.id]
      BY <3>1, <3>2, <3>3, <3>4 DEF Respects
    <3> QED
      BY <3>4, <3>5 DEF Fresh, AllocatedOf
  <2>2. r.pc \in Allocating \cup {"read", "totals", "payment", "invoices", "void"} \cup Checked \cup Inserted
           => r.pc \in PaymentSteps
    BY DEF Allocating, PaymentSteps, Inserted
  <2>3. ASSUME r.pc = "invoices"
        PROVE  lock'[r.id] = s /\ pay'[r.id].version = r.seen[r.id]
    <3>1. r.id \in Payments /\ r.id \in Rows /\ lock[r.id] = s /\ pay[r.id].version = r.seen[r.id]
      BY <1>0, <2>3 DEF SubjectInv, PaymentInv, PaymentSteps, Allocating, Inserted, Rows
    <3> QED
      BY <3>1 DEF Respects
  <2>4. ASSUME Fresh(r)'
        PROVE  /\ r.pc \in Allocating => pay'[r.id].status # "VOIDED"
               /\ r.pc \in {"read", "totals"} \cup Checked /\ r.op = "REPLACE" => r.current = alloc'[r.id]
               /\ r.pc = "waiting" => r.turn = pay'[r.id].batches
               /\ r.pc \in Inserted => \A i \in Invoices : Exact(r, i)
               /\ r.pc \in {"payment", "invoices"} =>
                     r.sum = AllocatedOf(r.id)' + SumFunction(r.delta) /\ r.sum <= Amount[r.id]
               /\ r.pc = "void" => AllocatedOf(r.id)' = 0
    <3>1. CASE r.pc \in PaymentSteps
      <4>1. /\ Fresh(r) /\ pay'[r.id] = pay[r.id] /\ alloc'[r.id] = alloc[r.id]
            /\ AllocatedOf(r.id)' = AllocatedOf(r.id)
        BY <2>1, <2>4, <3>1
      <4> QED
        BY <1>0, <4>1 DEF PaymentInv
    <3>2. CASE r.pc \notin PaymentSteps
      BY <2>2, <3>2 DEF Checked
    <3> QED
      BY <3>1, <3>2
  <2> QED
    BY <2>3, <2>4 DEF PaymentInv, Exact
<1>6. CreditInv(s, r)'
  <2>1. ASSUME r.pc \in {"credit", "apply"}
        PROVE  /\ lock'[r.id] = s /\ cn'[r.id] = cn[r.id] /\ AppliedOf(r.id)' = AppliedOf(r.id)
    <3>1. r.id \in Credits /\ r.id \in Rows /\ lock[r.id] = s
      BY <1>0, <2>1 DEF SubjectInv, CreditInv, Rows
    <3> QED
      BY <3>1 DEF Respects, AppliedOf
  <2>2. ASSUME r.pc = "apply"
        PROVE  /\ lock'[r.inv] = s
               /\ r.inv \notin misread' =>
                     /\ r.inv \notin misread
                     /\ PaidOn(r.inv)' = PaidOn(r.inv) /\ CreditOn(r.inv)' = CreditOn(r.inv)
    <3>1. r.inv \in Invoices /\ r.inv \in Rows /\ lock[r.inv] = s
      BY <1>0, <2>2 DEF SubjectInv, CreditInv, Rows
    <3> QED
      BY <3>1 DEF Respects
  <2> QED
    BY <1>0, <2>1, <2>2 DEF CreditInv
<1> QED
  BY <1>1, <1>2, <1>3, <1>4, <1>5, <1>6 DEF SessInv

\* A session in the next state.
LEMMA SessNext ==
    ASSUME NEW s, NEW r, sess'[s] = r, SessInv(s, r)'
    PROVE  SessInv(s, sess[s])'
BY DEF SessInv, SubjectInv, SeenInv, InsertedInv, NewRowsInv, PaymentInv, CreditInv, Fresh, Exact, Reliable

\* A step of session t.
LEMMA StepKept ==
    ASSUME IInv, TypeOK', SessTypeOK', RowsInv', ReplaceInv', NEW t \in Sessions,
           \A s \in Sessions \ {t} : sess'[s] = sess[s] /\ Respects(s, sess[s]),
           NEW q, sess'[t] = q, SessInv(t, q)'
    PROVE  IInv'
<1>1. ASSUME NEW s \in Sessions, s # t
      PROVE  SessInv(s, sess[s])'
  <2>1. PICK r : r = sess[s]
    OBVIOUS
  <2>2. r \in SessionRow /\ SessInv(s, r) /\ Respects(s, r) /\ TypeOK
    BY <1>1, <2>1 DEF IInv, SessTypeOK
  <2>3. SessInv(s, r)'
    BY <2>2, StillRelies
  <2>4. sess'[s] = r
    BY <1>1, <2>1
  <2> QED
    BY <2>3, <2>4, SessNext
<1>2. SessInv(t, sess[t])'
  BY SessNext
<1>3. \A s \in Sessions : SessInv(s, sess[s])'
  BY <1>1, <1>2
<1> QED
  BY <1>3 DEF IInv

-----------------------------------------------------------------------------
(* Steps that publish nothing *)

LEMMA QuietRows ==
    ASSUME IInv, UNCHANGED data, started' \in 0..MaxRequests,
           lock' \in [Rows -> Sessions \cup {None}]
    PROVE  TypeOK' /\ RowsInv'
<1>1. TypeOK'
  BY DEF IInv, TypeOK, data
<1>2. UNCHANGED <<pay, inv, cn, alloc, applied, misread>>
  BY DEF data
<1>3. /\ \A p \in Payments : AllocatedOf(p)' = AllocatedOf(p)
      /\ \A i \in Invoices : PaidOn(i)' = PaidOn(i) /\ CreditOn(i)' = CreditOn(i)
      /\ \A c \in Credits : AppliedOf(c)' = AppliedOf(c)
  BY <1>2 DEF AllocatedOf, PaidOn, CreditOn, AppliedOf
<1>4. RowsInv
  BY DEF IInv
<1>5. (PaymentNotOverAllocated /\ PaymentProjectionTrue /\ VoidedPaymentUnallocated)'
  BY <1>2, <1>3, <1>4
     DEF RowsInv, PaymentNotOverAllocated, PaymentProjectionTrue, VoidedPaymentUnallocated, Versioned
<1>6. (InvoiceNotOverPaid /\ CreditNoteNotOverApplied /\ MisreadNeedsRewind)'
  BY <1>2, <1>3, <1>4
     DEF RowsInv, InvoiceNotOverPaid, CreditNoteNotOverApplied, MisreadNeedsRewind, ReadRight
<1>7. InvoiceProjectionTrue'
  BY <1>2, <1>3, <1>4 DEF RowsInv, InvoiceProjectionTrue, ComputePaymentStatus, ReadRight
<1> QED
  BY <1>1, <1>5, <1>6, <1>7 DEF RowsInv

LEMMA QuietRespects ==
    ASSUME TypeOK, UNCHANGED data, NEW s, NEW r \in SessionRow, SubjectInv(r),
           \A x \in Rows : lock[x] = s => lock'[x] = s
    PROVE  Respects(s, r)
<1>1. UNCHANGED <<pay, inv, cn, alloc, applied, misread>>
  BY DEF data
<1>2. \A i \in Invoices : PaidOn(i)' = PaidOn(i) /\ CreditOn(i)' = CreditOn(i)
  BY <1>1 DEF PaidOn, CreditOn
<1>3. ASSUME r.pc \in Inserted, NEW i \in Invoices
      PROVE  alloc'[r.id][i] >= alloc[r.id][i]
  <2>1. r.id \in Payments
    BY <1>3 DEF SubjectInv, Inserted, PaymentSteps, Allocating
  <2>2. alloc[r.id][i] \in Nat
    BY <2>1, RowTypes
  <2> QED
    BY <1>1, <2>2
<1> QED
  BY <1>1, <1>2, <1>3 DEF Respects

\* The requests that replace allocations of the same payment.
Replacing(r, p) == r.pc \in Inserted /\ r.op = "REPLACE" /\ r.id = p

LEMMA ReplaceKept ==
    ASSUME IInv, NEW t \in Sessions, NEW q, sess' = [sess EXCEPT ![t] = q],
           \A p : Replacing(q, p) => \/ Replacing(sess[t], p)
                                     \/ \A s \in Sessions \ {t} : ~Replacing(sess[s], p)
    PROVE  ReplaceInv'
<1>1. DOMAIN sess = Sessions
  BY DEF IInv, SessTypeOK
<1>2. \A s \in Sessions : sess'[s] = IF s = t THEN q ELSE sess[s]
  BY <1>1
<1>3. \A a, b \in Sessions : \A p : Replacing(sess[a], p) /\ Replacing(sess[b], p) => a = b
  BY DEF IInv, ReplaceInv, Replacing
<1>4. \A a, b \in Sessions : \A p : Replacing(sess'[a], p) /\ Replacing(sess'[b], p) => a = b
  BY <1>2, <1>3
<1> QED
  BY <1>4 DEF ReplaceInv, Replacing

\* A step that publishes nothing and leaves the locks of others.
LEMMA QuietKept ==
    ASSUME IInv, UNCHANGED data, NEW t \in Sessions, NEW q \in SessionRow,
           sess' = [sess EXCEPT ![t] = q],
           lock' \in [Rows -> Sessions \cup {None}],
           \A x \in Rows : lock[x] \notin {None, t} => lock'[x] = lock[x],
           started' \in 0..MaxRequests,
           \A p : Replacing(q, p) => \/ Replacing(sess[t], p)
                                     \/ \A s \in Sessions \ {t} : ~Replacing(sess[s], p),
           SessInv(t, q)'
    PROVE  IInv'
<1>1. TypeOK' /\ RowsInv' /\ TypeOK
  BY QuietRows DEF IInv
<1>2. DOMAIN sess = Sessions /\ SessTypeOK' /\ sess'[t] = q
  BY DEF IInv, SessTypeOK
<1>3. ReplaceInv'
  BY ReplaceKept
<1>4. ASSUME NEW s \in Sessions \ {t}
      PROVE  sess'[s] = sess[s] /\ Respects(s, sess[s])
  <2>1. sess[s] \in SessionRow /\ SubjectInv(sess[s])
    BY DEF IInv, SessTypeOK, SessInv
  <2>2. \A x \in Rows : lock[x] = s => lock'[x] = s
    BY ConstantsAssumption
  <2>3. PICK r : r = sess[s]
    OBVIOUS
  <2>4. Respects(s, r)
    BY <1>1, <2>1, <2>2, <2>3, QuietRespects
  <2> QED
    BY <1>2, <2>3, <2>4
<1> QED
  BY <1>1, <1>2, <1>3, <1>4, StepKept

\* The same without a new lock: the session relies on what is so already.
LEMMA ContinueKept ==
    ASSUME IInv, NEW t \in Sessions, NEW q \in SessionRow, Continue(t, q) \/ Start(t, q),
           \A p : Replacing(q, p) => \/ Replacing(sess[t], p)
                                     \/ \A s \in Sessions \ {t} : ~Replacing(sess[s], p),
           SessInv(t, q)
    PROVE  IInv'
<1>1. UNCHANGED data /\ UNCHANGED lock /\ sess' = [sess EXCEPT ![t] = q]
  BY DEF Continue, Start
<1>2. started' \in 0..MaxRequests
  BY ConstantsAssumption DEF Continue, Start, IInv, TypeOK
<1>3. lock' \in [Rows -> Sessions \cup {None}] /\ TypeOK
  BY <1>1 DEF IInv, TypeOK
<1>4. TypeOK'
  BY <1>1, <1>2, <1>3, QuietRows
<1>5. SubjectInv(q)
  BY DEF SessInv
<1>6. Respects(t, q)
  BY <1>1, <1>3, <1>5, QuietRespects
<1>7. SessInv(t, q)'
  BY <1>3, <1>4, <1>6, StillRelies
<1> QED
  BY <1>1, <1>2, <1>3, <1>7, QuietKept

\* A transaction that ends without writing.
LEMMA EndKept ==
    ASSUME IInv, NEW t \in Sessions, EndSession(t), UNCHANGED data
    PROVE  IInv'
<1>1. /\ lock' = [x \in Rows |-> IF lock[x] = t THEN None ELSE lock[x]]
      /\ sess' = [sess EXCEPT ![t] = Idle]
      /\ UNCHANGED started
  BY DEF EndSession
<1>2. started' \in 0..MaxRequests /\ lock' \in [Rows -> Sessions \cup {None}]
  BY <1>1 DEF IInv, TypeOK
<1>3. \A x \in Rows : lock[x] \notin {None, t} => lock'[x] = lock[x]
  BY <1>1
<1>4. \A p : ~Replacing(Idle, p)
  BY DEF Replacing, Idle, Inserted
<1>5. SessInv(t, Idle)'
  BY IdleInv
<1> QED
  BY <1>1, <1>2, <1>3, <1>4, <1>5, IdleType, QuietKept

LEMMA RollbackKept ==
    ASSUME IInv, NEW t \in Sessions, Rollback(t)
    PROVE  IInv'
BY EndKept DEF Rollback

-----------------------------------------------------------------------------
(* Requests that begin *)

LEMMA OnlyRow ==
    ASSUME NEW x \in Rows, NEW v \in Nat
    PROVE  /\ Only(x, v) \in Versions
           /\ DOMAIN Only(x, v) = {x} /\ Only(x, v)[x] = v
<1>1. Only(x, v) \in [{x} -> Nat] /\ {x} \in SUBSET Rows
  BY DEF Only
<1> QED
  BY <1>1 DEF Versions, Only

LEMMA StartPaymentKept ==
    ASSUME IInv, NEW t \in Sessions, NEW p \in Payments, NEW q \in SessionRow, Start(t, q),
           q.pc \in {"remove", "current", "read", "edit", "unallocated", "webhook"}, q.id = p,
           q.seen = Only(p, pay[p].version), DOMAIN q.new = {},
           q.pc \in {"remove", "current", "read"} =>
              /\ q.op = (IF q.pc = "read" THEN "ADD" ELSE "REPLACE") /\ pay[p].status # "VOIDED"
              /\ q.current = NoAmounts /\ \A i \in Invoices : q.target[i] \in Nat,
           q.pc = "remove" => q.inv \in Invoices
    PROVE  IInv'
<1>0. p \in Rows /\ pay[p].version \in Nat /\ \A i \in Invoices : i # p
  BY RowTypes, ConstantsAssumption DEF IInv, Rows
<1>1. DOMAIN q.seen = {p} /\ q.seen[p] = pay[p].version
  BY DEF Only
<1>2. q.pc \notin Inserted /\ q.pc \notin Checked /\ q.pc \notin {"totals", "waiting"} \cup Checked
  BY DEF Inserted, Checked
<1>3. SubjectInv(q)
  <2>1. \A i \in Invoices : NoAmounts[i] \in Nat
    BY DEF NoAmounts
  <2> QED
    BY <1>1, <1>2, <2>1 DEF SubjectInv, PaymentSteps, Allocating, Inserted, Checked
<1>4. SeenInv(q)
  BY <1>0, <1>1 DEF SeenInv
<1>5. InsertedInv(q) /\ NewRowsInv(t, q)
  BY <1>2 DEF InsertedInv, NewRowsInv
<1>6. PaymentInv(t, q) /\ CreditInv(t, q)
  BY <1>2 DEF PaymentInv, CreditInv, Allocating
<1>7. SessInv(t, q) /\ \A x : ~Replacing(q, x)
  BY <1>2, <1>3, <1>4, <1>5, <1>6 DEF SessInv, Replacing
<1> QED
  BY <1>7, ContinueKept

LEMMA StartAllocationKept ==
    ASSUME IInv, NEW t \in Sessions, NEW p \in Payments, NEW pc \in {"remove", "current", "read"},
           NEW target \in [Invoices -> Nat], NEW i \in Invoices \cup {None},
           StartAllocation(t, pc, IF pc = "read" THEN "ADD" ELSE "REPLACE", p, target, i),
           pc = "remove" => i \in Invoices
    PROVE  IInv'
<1>0. PICK op \in {"ADD", "REPLACE"} : op = IF pc = "read" THEN "ADD" ELSE "REPLACE"
  OBVIOUS
<1> DEFINE q == [Idle EXCEPT !.pc = pc, !.op = op, !.id = p, !.target = target, !.inv = i,
                             !.seen = Only(p, pay[p].version)]
<1>1. Start(t, q) /\ pay[p].status # "VOIDED"
  BY <1>0 DEF StartAllocation
<1>2. p \in Rows /\ pay[p].version \in Nat /\ target \in Ints
  BY RowTypes DEF IInv, Rows, Ints
<1>3. Only(p, pay[p].version) \in Versions
  BY <1>2, OnlyRow
<1>4. /\ q.pc = pc /\ q.op = op /\ q.id = p /\ q.target = target /\ q.inv = i
      /\ q.seen = Only(p, pay[p].version) /\ DOMAIN q.new = {} /\ q.current = NoAmounts
  BY DEF Idle
<1>5. q \in SessionRow
  BY <1>2, <1>3, IdleType DEF SessionRow, Steps
<1> HIDE DEF q
<1> QED
  BY <1>0, <1>1, <1>4, <1>5, StartPaymentKept

LEMMA StartEditKept ==
    ASSUME IInv, NEW t \in Sessions, NEW p \in Payments,
           StartEdit(t, p) \/ StartVoidPayment(t, p) \/ StartWebhook(t, p)
    PROVE  IInv'
<1>1. p \in Rows /\ pay[p].version \in Nat
  BY RowTypes DEF IInv, Rows
<1>2. Only(p, pay[p].version) \in Versions
  BY <1>1, OnlyRow
<1>3. ASSUME NEW pc \in {"edit", "unallocated", "webhook"}, NEW op \in {"EDIT", "VOID_PAYMENT", "WEBHOOK"},
             Start(t, [Idle EXCEPT !.pc = pc, !.op = op, !.id = p, !.seen = Only(p, pay[p].version)])
      PROVE  IInv'
  <2> DEFINE q == [Idle EXCEPT !.pc = pc, !.op = op, !.id = p, !.seen = Only(p, pay[p].version)]
  <2>1. q.pc = pc /\ q.id = p /\ q.seen = Only(p, pay[p].version) /\ DOMAIN q.new = {}
    BY DEF Idle
  <2>2. q \in SessionRow
    BY <1>1, <1>2, IdleType DEF SessionRow, Steps
  <2>3. Start(t, q)
    BY <1>3
  <2> HIDE DEF q
  <2> QED
    BY <2>1, <2>2, <2>3, StartPaymentKept
<1> QED
  BY <1>3 DEF StartEdit, StartVoidPayment, StartWebhook

LEMMA StartOutcomeKept ==
    ASSUME IInv, NEW t \in Sessions, NEW i \in Invoices, NEW o \in {"VOID", "WRITTEN_OFF"},
           StartOutcome(t, i, o)
    PROVE  IInv'
<1> DEFINE q == [Idle EXCEPT !.pc = "outcome", !.op = o, !.id = i, !.seen = Only(i, inv[i].version)]
<1>1. Start(t, q)
  BY DEF StartOutcome
<1>2. i \in Rows /\ inv[i].version \in Nat /\ i \notin Payments
  BY RowTypes, ConstantsAssumption DEF IInv, Rows
<1>3. /\ Only(i, inv[i].version) \in Versions
      /\ DOMAIN Only(i, inv[i].version) = {i} /\ Only(i, inv[i].version)[i] = inv[i].version
  BY <1>2, OnlyRow
<1>4. /\ q.pc = "outcome" /\ q.op = o /\ q.id = i /\ DOMAIN q.new = {}
      /\ q.seen = Only(i, inv[i].version)
  BY DEF Idle
<1>5. q \in SessionRow
  BY <1>2, <1>3, IdleType DEF SessionRow, Steps
<1> HIDE DEF q
<1>6. SubjectInv(q) /\ SeenInv(q)
  BY <1>2, <1>3, <1>4 DEF SubjectInv, SeenInv, PaymentSteps, Allocating, Checked, Inserted
<1>7. InsertedInv(q) /\ NewRowsInv(t, q) /\ PaymentInv(t, q) /\ CreditInv(t, q)
  BY <1>4 DEF InsertedInv, NewRowsInv, PaymentInv, CreditInv, Inserted, Allocating, Checked
<1>8. SessInv(t, q) /\ \A x : ~Replacing(q, x)
  BY <1>4, <1>6, <1>7 DEF SessInv, Replacing, Inserted
<1> QED
  BY <1>1, <1>5, <1>8, ContinueKept

LEMMA StartVoidCreditNoteKept ==
    ASSUME IInv, NEW t \in Sessions, NEW c \in Credits, StartVoidCreditNote(t, c)
    PROVE  IInv'
<1> DEFINE q == [Idle EXCEPT !.pc = "applied", !.op = "VOID_CREDIT", !.id = c,
                             !.seen = Only(c, cn[c].version)]
<1>1. Start(t, q)
  BY DEF StartVoidCreditNote
<1>2. c \in Rows /\ cn[c].version \in Nat /\ c \notin Payments /\ c \notin Invoices
  BY RowTypes, ConstantsAssumption DEF IInv, Rows
<1>3. Only(c, cn[c].version) \in Versions /\ DOMAIN Only(c, cn[c].version) = {c}
  BY <1>2, OnlyRow
<1>4. /\ q.pc = "applied" /\ q.id = c /\ DOMAIN q.new = {}
      /\ q.seen = Only(c, cn[c].version)
  BY DEF Idle
<1>5. q \in SessionRow
  BY <1>2, <1>3, IdleType DEF SessionRow, Steps
<1> HIDE DEF q
<1>6. SubjectInv(q) /\ SeenInv(q)
  BY <1>2, <1>3, <1>4 DEF SubjectInv, SeenInv, PaymentSteps, Allocating, Checked, Inserted
<1>7. InsertedInv(q) /\ NewRowsInv(t, q) /\ PaymentInv(t, q) /\ CreditInv(t, q)
  BY <1>4 DEF InsertedInv, NewRowsInv, PaymentInv, CreditInv, Inserted, Allocating, Checked
<1>8. SessInv(t, q) /\ \A x : ~Replacing(q, x)
  BY <1>4, <1>6, <1>7 DEF SessInv, Replacing, Inserted
<1> QED
  BY <1>1, <1>5, <1>8, ContinueKept

-----------------------------------------------------------------------------
(* Requests that allocate *)

\* What is known of the session that takes a step.
LEMMA Mine ==
    ASSUME IInv, NEW t \in Sessions
    PROVE  /\ TypeOK /\ RowsInv /\ sess[t] \in SessionRow /\ DOMAIN sess = Sessions
           /\ SubjectInv(sess[t]) /\ SeenInv(sess[t]) /\ InsertedInv(sess[t])
           /\ NewRowsInv(t, sess[t]) /\ PaymentInv(t, sess[t]) /\ CreditInv(t, sess[t])
BY DEF IInv, SessTypeOK, SessInv

LEMMA JoinedVersions ==
    ASSUME NEW f \in Versions, NEW D \in SUBSET Rows, NEW g \in [D -> Nat]
    PROVE  /\ Joined(f, g) \in Versions
           /\ DOMAIN Joined(f, g) = DOMAIN f \cup D
           /\ \A x \in DOMAIN f : Joined(f, g)[x] = f[x]
           /\ \A x \in D : x \notin DOMAIN f => Joined(f, g)[x] = g[x]
<1>1. PICK E \in SUBSET Rows : f \in [E -> Nat]
  BY DEF Versions
<1>2. Joined(f, g) \in [E \cup D -> Nat] /\ E \cup D \in SUBSET Rows
  BY <1>1 DEF Joined
<1> QED
  BY <1>1, <1>2 DEF Versions, Joined

\* A request that has not written and keeps what it has read.
LEMMA ReadKept ==
    ASSUME IInv, NEW t \in Sessions, NEW r, r = sess[t], NEW q \in SessionRow, Continue(t, q),
           r.pc \in Allocating, r.pc \notin Inserted,
           q.pc \in {"current", "read", "totals", "insert", "waiting"},
           q.op = r.op, q.id = r.id, q.seen = r.seen, q.new = r.new,
           \A i \in Invoices : q.target[i] \in Nat /\ q.current[i] \in Nat,
           q.op = "ADD" => q.current = NoAmounts, q.pc = "current" => q.op = "REPLACE",
           q.pc \in {"totals"} \cup Checked => \A i \in Invoices : q.target[i] > 0 => i \in DOMAIN r.seen,
           q.pc \in Checked =>
              \A i \in Invoices : q.target[i] > 0 /\ Reliable(q, i) =>
                 PaidOn(i) + CreditOn(i) + (q.target[i] - q.current[i]) <= Total[i],
           q.pc # "current" /\ q.op = "REPLACE" /\ Fresh(r) => q.current = alloc[r.id],
           q.pc = "waiting" => q.turn = pay[r.id].batches
    PROVE  IInv'
<1>1. /\ SubjectInv(r) /\ SeenInv(r) /\ NewRowsInv(t, r) /\ PaymentInv(t, r) /\ r.pc # "invoices"
  BY Mine DEF Inserted
<1>2. /\ q.pc \in Allocating /\ q.pc \notin Inserted /\ q.pc \in PaymentSteps /\ r.pc \in PaymentSteps
      /\ q.pc \in {"read", "totals"} \cup Checked => q.pc # "current"
  BY DEF Allocating, Inserted, Checked, PaymentSteps
<1>3. SubjectInv(q)
  BY <1>1, <1>2 DEF SubjectInv
<1>4. SeenInv(q) /\ InsertedInv(q)
  BY <1>1, <1>2 DEF SeenInv, InsertedInv
<1>5. NewRowsInv(t, q) /\ CreditInv(t, q)
  BY <1>1 DEF NewRowsInv, CreditInv
<1>6. PaymentInv(t, q)
  <2>1. Fresh(q) => Fresh(r)
    BY DEF Fresh
  <2> QED
    BY <1>1, <1>2, <2>1 DEF PaymentInv, Inserted
<1>7. SessInv(t, q) /\ \A x : ~Replacing(q, x)
  BY <1>2, <1>3, <1>4, <1>5, <1>6 DEF SessInv, Replacing
<1> QED
  BY <1>7, ContinueKept

LEMMA ReadRemovedKept ==
    ASSUME IInv, NEW t \in Sessions, ReadRemoved(t)
    PROVE  IInv'
<1>1. PICK r : r = sess[t]
  OBVIOUS
<1>2. TypeOK /\ r \in SessionRow /\ SubjectInv(r)
  BY <1>1, Mine
<1>3. PICK target : target = [alloc[r.id] EXCEPT ![r.inv] = 0]
  OBVIOUS
<1> DEFINE q == [r EXCEPT !.pc = "current", !.target = target]
<1>4. r.pc = "remove" /\ Continue(t, q)
  BY <1>1, <1>3 DEF ReadRemoved
<1>5. r.pc \in Allocating /\ r.pc \in PaymentSteps /\ r.pc \notin Inserted /\ r.id \in Payments
  BY <1>2, <1>4 DEF SubjectInv, Allocating, PaymentSteps, Inserted
<1>6. target \in [Invoices -> Nat] /\ target \in Ints
  <2>1. alloc[r.id] \in [Invoices -> Nat] /\ 0 \in Nat
    BY <1>2, <1>5, RowTypes
  <2>2. PICK rows : rows = alloc[r.id]
    OBVIOUS
  <2>3. target = [rows EXCEPT ![r.inv] = 0] /\ rows \in [Invoices -> Nat]
    BY <1>3, <2>1, <2>2
  <2>4. target \in [Invoices -> Nat]
    BY <2>1, <2>3
  <2> QED
    BY <2>4 DEF Ints
<1>7. /\ q.pc = "current" /\ q.op = r.op /\ q.id = r.id /\ q.seen = r.seen /\ q.new = r.new
      /\ q.target = target /\ q.current = r.current
  BY <1>2 DEF SessionRow
<1>8. q \in SessionRow
  BY <1>2, <1>6 DEF SessionRow, Steps
<1>9. /\ \A i \in Invoices : r.current[i] \in Nat
      /\ r.op = "REPLACE"
  BY <1>2, <1>4, <1>5 DEF SubjectInv
<1> HIDE DEF q
<1> QED
  BY <1>1, <1>4, <1>5, <1>6, <1>7, <1>8, <1>9, ReadKept DEF Checked

LEMMA ReadCurrentKept ==
    ASSUME IInv, NEW t \in Sessions, ReadCurrent(t)
    PROVE  IInv'
<1>1. PICK r : r = sess[t]
  OBVIOUS
<1>2. TypeOK /\ r \in SessionRow /\ SubjectInv(r)
  BY <1>1, Mine
<1>3. PICK current : current = alloc[r.id]
  OBVIOUS
<1> DEFINE q == [r EXCEPT !.pc = "read", !.current = current]
<1>4. r.pc = "current" /\ Continue(t, q)
  BY <1>1, <1>3 DEF ReadCurrent
<1>5. r.pc \in Allocating /\ r.pc \in PaymentSteps /\ r.pc \notin Inserted /\ r.id \in Payments
  BY <1>2, <1>4 DEF SubjectInv, Allocating, PaymentSteps, Inserted
<1>6. current \in [Invoices -> Nat] /\ current \in Ints
  BY <1>2, <1>3, <1>5, RowTypes DEF Ints
<1>7. /\ q.pc = "read" /\ q.op = r.op /\ q.id = r.id /\ q.seen = r.seen /\ q.new = r.new
      /\ q.target = r.target /\ q.current = current
  BY <1>2 DEF SessionRow
<1>8. q \in SessionRow
  BY <1>2, <1>6 DEF SessionRow, Steps
<1>9. (\A i \in Invoices : r.target[i] \in Nat) /\ r.op = "REPLACE"
  BY <1>2, <1>4, <1>5 DEF SubjectInv
<1> HIDE DEF q
<1> QED
  BY <1>1, <1>3, <1>4, <1>5, <1>6, <1>7, <1>8, <1>9, ReadKept DEF Checked

LEMMA ReadInvoicesKept ==
    ASSUME IInv, NEW t \in Sessions, ReadInvoices(t)
    PROVE  IInv'
<1>1. PICK r : r = sess[t]
  OBVIOUS
<1>2. /\ TypeOK /\ r \in SessionRow /\ SubjectInv(r) /\ SeenInv(r) /\ InsertedInv(r)
      /\ NewRowsInv(t, r) /\ PaymentInv(t, r) /\ CreditInv(t, r)
  BY <1>1, Mine
<1> DEFINE D == {i \in Invoices : r.target[i] > 0}
           g == [i \in D |-> inv[i].version]
           q == [r EXCEPT !.pc = "totals", !.seen = Joined(@, g)]
<1>3. r.pc = "read" /\ Continue(t, q)
  BY <1>1 DEF ReadInvoices, Targets
<1>4. D \in SUBSET Rows /\ g \in [D -> Nat] /\ \A i \in D : i \in Invoices /\ g[i] = inv[i].version
  BY <1>2, RowTypes DEF Rows
<1>5. r.seen \in Versions
  BY <1>2 DEF SessionRow
<1>6. /\ Joined(r.seen, g) \in Versions
      /\ DOMAIN Joined(r.seen, g) = DOMAIN r.seen \cup D
      /\ \A x \in DOMAIN r.seen : Joined(r.seen, g)[x] = r.seen[x]
      /\ \A x \in D : x \notin DOMAIN r.seen => Joined(r.seen, g)[x] = g[x]
  <2> HIDE DEF D, g
  <2> QED
    BY <1>4, <1>5, JoinedVersions
<1>7. /\ q.pc = "totals" /\ q.op = r.op /\ q.id = r.id /\ q.target = r.target
      /\ q.seen = Joined(r.seen, g) /\ q.new = r.new /\ q.current = r.current
  BY <1>2 DEF SessionRow
<1>8. q \in SessionRow
  <2> DEFINE v == Joined(r.seen, g)
  <2>1. q = [r EXCEPT !.pc = "totals", !.seen = v]
    OBVIOUS
  <2> HIDE DEF q, v
  <2>2. v \in Versions
    BY <1>6 DEF v
  <2> QED
    BY <1>2, <2>1, <2>2 DEF SessionRow, Steps
<1> HIDE DEF q, g
<1>9. SubjectInv(q)
  BY <1>2, <1>3, <1>6, <1>7 DEF SubjectInv, PaymentSteps, Allocating
<1>10. SeenInv(q)
  <2>1. \A p \in Payments : p \notin D
    BY ConstantsAssumption
  <2>2. \A i \in Invoices : i \in DOMAIN q.seen => q.seen[i] <= inv[i].version
    BY <1>2, <1>4, <1>6, <1>7, RowTypes DEF SeenInv
  <2>3. \A p \in Payments : p \in DOMAIN q.seen => pay[p].rewound \/ q.seen[p] <= pay[p].version
    BY <1>2, <1>6, <1>7, <2>1 DEF SeenInv
  <2> QED
    BY <2>2, <2>3 DEF SeenInv
<1>11. InsertedInv(q) /\ NewRowsInv(t, q) /\ CreditInv(t, q)
  BY <1>2, <1>3, <1>7 DEF InsertedInv, NewRowsInv, CreditInv, Inserted, Checked
<1>12. PaymentInv(t, q)
  <2>1. r.id \in DOMAIN r.seen
    BY <1>2, <1>3 DEF SubjectInv, PaymentSteps, Allocating
  <2>2. Fresh(q) => Fresh(r)
    BY <1>6, <1>7, <2>1 DEF Fresh
  <2> QED
    BY <1>2, <1>3, <1>7, <2>2 DEF PaymentInv, Allocating, Inserted, Checked
<1>13. SessInv(t, q) /\ \A x : ~Replacing(q, x)
  BY <1>7, <1>9, <1>10, <1>11, <1>12 DEF SessInv, Replacing, Inserted
<1> QED
  BY <1>3, <1>8, <1>13, ContinueKept

LEMMA CheckTotalsKept ==
    ASSUME IInv, NEW t \in Sessions, CheckTotals(t)
    PROVE  IInv'
<1>1. PICK r : r = sess[t]
  OBVIOUS
<1>2. TypeOK /\ r \in SessionRow /\ SubjectInv(r) /\ PaymentInv(t, r)
  BY <1>1, Mine
<1> DEFINE q == [r EXCEPT !.pc = "insert"]
<1>3. /\ r.pc = "totals"
      /\ \A i \in Invoices : r.target[i] > 0 =>
            r.target[i] <= Total[i] - CreditOn(i) - (PaidOn(i) - r.current[i])
      /\ (EndSession(t) /\ UNCHANGED data) \/ Continue(t, q)
  BY <1>1 DEF CheckTotals, Targets
<1>4. CASE EndSession(t) /\ UNCHANGED data
  BY <1>4, EndKept
<1>5. CASE Continue(t, q)
  <2>1. r.pc \in Allocating /\ r.pc \notin Inserted
    BY <1>3 DEF Allocating, Inserted
  <2>2. /\ q.pc = "insert" /\ q.op = r.op /\ q.id = r.id /\ q.seen = r.seen /\ q.new = r.new
        /\ q.target = r.target /\ q.current = r.current
    BY <1>2 DEF SessionRow
  <2>3. q \in SessionRow
    BY <1>2 DEF SessionRow, Steps
  <2>4. /\ \A i \in Invoices : r.target[i] \in Nat /\ r.current[i] \in Nat
        /\ r.op = "ADD" => r.current = NoAmounts
        /\ \A i \in Invoices : r.target[i] > 0 => i \in DOMAIN r.seen
    BY <1>2, <1>3, <2>1 DEF SubjectInv
  <2>5. ASSUME NEW i \in Invoices, r.target[i] > 0
        PROVE  PaidOn(i) + CreditOn(i) + (r.target[i] - r.current[i]) <= Total[i]
    <3>1. PaidOn(i) \in Nat /\ CreditOn(i) \in Nat /\ Total[i] \in Nat
      BY <1>2, SumTypes, ConstantsAssumption
    <3>2. r.target[i] <= Total[i] - CreditOn(i) - (PaidOn(i) - r.current[i])
      BY <1>3, <2>5
    <3> QED
      BY <2>4, <3>1, <3>2
  <2>6. r.op = "REPLACE" /\ Fresh(r) => r.current = alloc[r.id]
    BY <1>2, <1>3 DEF PaymentInv
  <2> HIDE DEF q
  <2> QED
    BY <1>1, <1>5, <2>1, <2>2, <2>3, <2>4, <2>5, <2>6, ReadKept
<1> QED
  BY <1>3, <1>4, <1>5

LEMMA AwaitDeleteKept ==
    ASSUME IInv, NEW t \in Sessions, AwaitDelete(t)
    PROVE  IInv'
<1>1. PICK r : r = sess[t]
  OBVIOUS
<1>2. TypeOK /\ r \in SessionRow /\ SubjectInv(r) /\ InsertedInv(r) /\ PaymentInv(t, r)
  BY <1>1, Mine
<1>3. PICK turn : turn = pay[r.id].batches
  OBVIOUS
<1> DEFINE q == [r EXCEPT !.pc = "waiting", !.turn = turn]
<1>4. r.pc = "insert" /\ Continue(t, q)
  BY <1>1, <1>3 DEF AwaitDelete
<1>5. r.pc \in Allocating /\ r.pc \in PaymentSteps /\ r.pc \notin Inserted /\ r.pc \in Checked
  BY <1>4 DEF Allocating, PaymentSteps, Inserted, Checked
<1>6. turn \in Nat
  BY <1>2, <1>3, <1>5 DEF SubjectInv, TypeOK, PaymentRow
<1>7. /\ q.pc = "waiting" /\ q.op = r.op /\ q.id = r.id /\ q.seen = r.seen /\ q.new = r.new
      /\ q.target = r.target /\ q.current = r.current /\ q.turn = turn
  BY <1>2 DEF SessionRow
<1>8. q \in SessionRow
  BY <1>2, <1>6 DEF SessionRow, Steps
<1> HIDE DEF q
<1>9. /\ \A i \in Invoices : r.target[i] \in Nat /\ r.current[i] \in Nat
      /\ r.op = "ADD" => r.current = NoAmounts
      /\ \A i \in Invoices : r.target[i] > 0 => i \in DOMAIN r.seen
  BY <1>2, <1>5 DEF SubjectInv
<1>10. \A i \in Invoices : r.target[i] > 0 /\ Reliable(q, i) =>
          PaidOn(i) + CreditOn(i) + (r.target[i] - r.current[i]) <= Total[i]
  BY <1>2, <1>5, <1>7 DEF InsertedInv, Reliable
<1>11. r.op = "REPLACE" /\ Fresh(r) => r.current = alloc[r.id]
  BY <1>2, <1>5 DEF PaymentInv
<1> QED
  BY <1>1, <1>3, <1>4, <1>5, <1>7, <1>8, <1>9, <1>10, <1>11, ReadKept

\* A session whose allocations are written.
LEMMA InsertKept ==
    ASSUME IInv, NEW t \in Sessions, NEW r, r = sess[t], r.pc \in Checked,
           NEW delta \in Ints, NEW todo \in SUBSET Invoices,
           NEW q, q = [r EXCEPT !.pc = "sum", !.delta = delta, !.todo = todo], Continue(t, q),
           \A i \in Invoices : alloc[r.id][i] + delta[i] >= 0,
           \A i \in Invoices : delta[i] = r.target[i] - r.current[i] /\ delta[i] # 0 => i \in todo,
           r.op = "REPLACE" => \A s \in Sessions \ {t} : ~Replacing(sess[s], r.id),
           r.op = "ADD" => \A i \in Invoices : delta[i] >= 0,
           \A i \in todo : i \in DOMAIN r.seen \/ delta[i] <= 0,
           Fresh(r) => \A i \in Invoices : delta[i] = r.target[i] - r.current[i]
    PROVE  IInv'
<1>2. /\ TypeOK /\ RowsInv /\ r \in SessionRow /\ SubjectInv(r) /\ SeenInv(r) /\ InsertedInv(r)
      /\ NewRowsInv(t, r) /\ PaymentInv(t, r) /\ CreditInv(t, r)
  BY Mine
<1>3. /\ q.pc = "sum" /\ q.op = r.op /\ q.id = r.id /\ q.target = r.target /\ q.seen = r.seen
      /\ q.new = r.new /\ q.delta = delta /\ q.todo = todo /\ q.current = r.current
  BY <1>2 DEF SessionRow
<1>4. q \in SessionRow
  BY <1>2 DEF SessionRow, Steps
<1>0. /\ r.pc \in Allocating /\ r.pc \in PaymentSteps /\ r.pc \notin {"credit", "apply", "invoices"}
      /\ q.pc \in Allocating /\ q.pc \in PaymentSteps /\ q.pc \in Inserted
      /\ q.pc \notin Checked /\ q.pc \notin {"totals"} \cup Checked
      /\ q.pc \notin {"read", "totals"} \cup Checked
  BY <1>3 DEF Allocating, PaymentSteps, Checked, Inserted
<1>5. SubjectInv(q) /\ SeenInv(q)
  BY <1>0, <1>2, <1>3 DEF SubjectInv, SeenInv
<1>6. NewRowsInv(t, q) /\ CreditInv(t, q)
  BY <1>0, <1>2, <1>3 DEF NewRowsInv, CreditInv
<1>7. PaymentInv(t, q)
  BY <1>0, <1>2, <1>3 DEF PaymentInv, Fresh, Exact
<1>8. ASSUME NEW i \in todo, i \in DOMAIN r.seen, delta[i] = r.target[i] - r.current[i], Reliable(q, i)
      PROVE  PaidOn(i) + CreditOn(i) + delta[i] <= Total[i]
  <2>0. i \in Invoices
    OBVIOUS
  <2>1. r.target[i] \in Nat /\ r.current[i] \in Nat /\ PaidOn(i) \in Nat /\ CreditOn(i) \in Nat /\ Total[i] \in Nat
    BY <1>0, <1>2, <2>0, SumTypes, ConstantsAssumption DEF SubjectInv
  <2>2. Reliable(r, i) /\ i \notin misread
    BY <1>3, <1>8 DEF Reliable
  <2>3. CASE r.target[i] > 0
    <3>1. PaidOn(i) + CreditOn(i) + (r.target[i] - r.current[i]) <= Total[i]
      BY <1>2, <2>0, <2>2, <2>3 DEF InsertedInv
    <3> QED
      BY <1>8, <3>1
  <2>4. CASE ~(r.target[i] > 0)
    <3>1. PaidOn(i) + CreditOn(i) <= Total[i]
      BY <1>2, <2>0, <2>2 DEF RowsInv, InvoiceNotOverPaid, ReadRight
    <3> QED
      BY <1>8, <2>1, <2>4, <3>1
  <2> QED
    BY <2>3, <2>4
<1>9. InsertedInv(q)
  BY <1>0, <1>3, <1>8 DEF InsertedInv, Exact
<1>10. SessInv(t, q)
  BY <1>5, <1>6, <1>7, <1>9 DEF SessInv
<1>11. \A x : Replacing(q, x) => \A s \in Sessions \ {t} : ~Replacing(sess[s], x)
  BY <1>3 DEF Replacing
<1> QED
  BY <1>4, <1>10, <1>11, ContinueKept

LEMMA InsertAllocationsKept ==
    ASSUME IInv, NEW t \in Sessions, InsertAllocations(t)
    PROVE  IInv'
<1>1. PICK r : r = sess[t]
  OBVIOUS
<1>2. TypeOK /\ r \in SessionRow /\ SubjectInv(r)
  BY <1>1, Mine
<1> DEFINE todo == {i \in Invoices : r.target[i] > 0}
           q == [r EXCEPT !.pc = "sum", !.delta = r.target, !.todo = todo]
<1>3. r.pc = "insert" /\ r.op = "ADD" /\ Continue(t, q)
  BY <1>1 DEF InsertAllocations, Targets
<1>4. /\ r.pc \in Checked /\ r.target \in Ints /\ r.id \in Payments /\ r.current = NoAmounts
      /\ \A i \in Invoices : r.target[i] \in Nat
      /\ \A i \in todo : i \in DOMAIN r.seen
  BY <1>2, <1>3 DEF SessionRow, SubjectInv, PaymentSteps, Allocating, Checked
<1>5. \A i \in Invoices : alloc[r.id][i] \in Nat
  BY <1>2, <1>4, RowTypes
<1>6. \A i \in Invoices : alloc[r.id][i] + r.target[i] >= 0 /\ r.target[i] >= 0
                          /\ (r.target[i] # 0 => i \in todo)
  BY <1>4, <1>5
<1>7. \A i \in Invoices : r.target[i] = r.target[i] - r.current[i]
  BY <1>4 DEF NoAmounts
<1>8. todo \in SUBSET Invoices
  OBVIOUS
<1> HIDE DEF todo
<1> QED
  BY <1>1, <1>3, <1>4, <1>6, <1>7, <1>8, InsertKept

LEMMA ReplaceAllocationsKept ==
    ASSUME IInv, NEW t \in Sessions, ReplaceAllocations(t)
    PROVE  IInv'
<1>1. PICK r : r = sess[t]
  OBVIOUS
<1>2. TypeOK /\ r \in SessionRow /\ SubjectInv(r) /\ PaymentInv(t, r)
  BY <1>1, Mine
<1>3. PICK rows \in DeletedRows(r) :
         Continue(t, [r EXCEPT !.pc = "sum",
                       !.delta = [i \in Invoices |-> r.target[i] - rows[i]],
                       !.todo = {i \in Invoices : r.target[i] > 0 \/ r.current[i] > 0}])
  BY <1>1 DEF ReplaceAllocations
<1>4. r.pc \in Checked /\ r.op = "REPLACE" /\ MayDelete(t)
  BY <1>1 DEF ReplaceAllocations, Checked
<1> DEFINE delta == [i \in Invoices |-> r.target[i] - rows[i]]
           todo == {i \in Invoices : r.target[i] > 0 \/ r.current[i] > 0}
           q == [r EXCEPT !.pc = "sum", !.delta = delta, !.todo = todo]
<1>5. /\ r.id \in Payments /\ \A i \in Invoices : r.target[i] \in Nat /\ r.current[i] \in Nat
      /\ \A i \in Invoices : r.target[i] > 0 => i \in DOMAIN r.seen
  BY <1>2, <1>4 DEF SubjectInv, PaymentSteps, Allocating
<1>6. alloc[r.id] \in [Invoices -> Nat]
  BY <1>2, <1>5, RowTypes
<1>7. \A i \in Invoices : rows[i] \in Nat /\ rows[i] <= alloc[r.id][i]
  <2>1. CASE rows = alloc[r.id]
    BY <1>6, <2>1
  <2>2. CASE \E D \in SUBSET Invoices : rows = [i \in Invoices |-> IF i \in D THEN alloc[r.id][i] ELSE 0]
    BY <1>6, <2>2
  <2> QED
    BY <1>3, <2>1, <2>2 DEF DeletedRows
<1>8. Fresh(r) => rows = r.current
  <2>1. Fresh(r) => ~(r.pc = "waiting" /\ pay[r.id].batches # r.turn) /\ r.current = alloc[r.id]
    BY <1>2, <1>4 DEF PaymentInv
  <2> QED
    BY <1>3, <2>1 DEF DeletedRows
<1>9. delta \in Ints /\ \A i \in Invoices : delta[i] = r.target[i] - rows[i]
  BY <1>5, <1>7 DEF Ints
<1>10. \A i \in Invoices : alloc[r.id][i] + delta[i] >= 0
  BY <1>5, <1>6, <1>7, <1>9
<1>11. \A i \in Invoices : delta[i] = r.target[i] - r.current[i] /\ delta[i] # 0 => i \in todo
  BY <1>5, <1>9
<1>12. \A i \in todo : i \in DOMAIN r.seen \/ delta[i] <= 0
  BY <1>5, <1>7, <1>9
<1>13. Fresh(r) => \A i \in Invoices : delta[i] = r.target[i] - r.current[i]
  BY <1>8, <1>9
<1>14. \A s \in Sessions \ {t} : ~Replacing(sess[s], r.id)
  BY <1>1, <1>4 DEF MayDelete, Replacing, Inserted
<1>15. todo \in SUBSET Invoices /\ Continue(t, q)
  BY <1>3
<1> HIDE DEF todo, delta
<1> QED
  BY <1>1, <1>4, <1>9, <1>10, <1>11, <1>12, <1>13, <1>14, <1>15, InsertKept

LEMMA StartAnyAllocationKept ==
    ASSUME IInv, NEW t \in Sessions, NEW p \in Payments,
           \/ \E target \in [Invoices -> 0..MaxTarget] :
                 StartAddOrRevise(t, p, target) \/ StartReplace(t, p, target)
           \/ \E i \in Invoices : StartRemove(t, p, i)
    PROVE  IInv'
<1>1. ASSUME NEW target \in [Invoices -> 0..MaxTarget],
             StartAddOrRevise(t, p, target) \/ StartReplace(t, p, target)
      PROVE  IInv'
  <2>1. target \in [Invoices -> Nat]
    BY ConstantsAssumption
  <2>2. \/ StartAllocation(t, "read", "ADD", p, target, None)
        \/ StartAllocation(t, "current", "REPLACE", p, target, None)
    BY <1>1 DEF StartAddOrRevise, StartReplace
  <2> QED
    BY <2>1, <2>2, StartAllocationKept
<1>2. ASSUME NEW i \in Invoices, StartRemove(t, p, i)
      PROVE  IInv'
  <2>1. NoAmounts \in [Invoices -> Nat]
    BY DEF NoAmounts
  <2>2. StartAllocation(t, "remove", "REPLACE", p, NoAmounts, i)
    BY <1>2 DEF StartRemove
  <2> QED
    BY <2>1, <2>2, StartAllocationKept
<1> QED
  BY <1>1, <1>2

\* With its uncommitted rows the payment has a sum of allocations.
LEMMA SumWithDelta ==
    ASSUME TypeOK, NEW p \in Payments, NEW delta \in Ints,
           \A i \in Invoices : alloc[p][i] + delta[i] >= 0
    PROVE  /\ [i \in Invoices |-> alloc[p][i] + delta[i]] \in [Invoices -> Nat]
           /\ SumFunction([i \in Invoices |-> alloc[p][i] + delta[i]]) =
                 AllocatedOf(p) + SumFunction(delta)
           /\ AllocatedOf(p) + SumFunction(delta) \in Nat
<1> DEFINE f == alloc[p]
           h == [i \in Invoices |-> f[i] + delta[i]]
<1>1. f \in [Invoices -> Nat] /\ f \in [Invoices -> Int] /\ delta \in [Invoices -> Int]
  BY RowTypes DEF Ints
<1>2. h \in [Invoices -> Nat] /\ h \in [Invoices -> Int] /\ \A i \in Invoices : h[i] = f[i] + delta[i]
  BY <1>1
<1> HIDE DEF f, h
<1>3. SumFunction(h) = SumFunction(f) + SumFunction(delta) /\ SumFunction(h) \in Nat
  BY <1>1, <1>2, FiniteTables, SumFunctionAdd, SumFunctionNat
<1> QED
  BY <1>2, <1>3 DEF f, h, AllocatedOf

LEMMA SumAllocatedKept ==
    ASSUME IInv, NEW t \in Sessions, SumAllocated(t)
    PROVE  IInv'
<1>1. PICK r : r = sess[t]
  OBVIOUS
<1>2. /\ TypeOK /\ r \in SessionRow /\ SubjectInv(r) /\ SeenInv(r) /\ InsertedInv(r)
      /\ NewRowsInv(t, r) /\ PaymentInv(t, r) /\ CreditInv(t, r)
  BY <1>1, Mine
<1> DEFINE sum == AllocatedOf(r.id) + SumFunction(r.delta)
           q == [r EXCEPT !.pc = "payment", !.sum = sum]
<1>3. r.pc = "sum" /\ sum <= Amount[r.id] /\ Continue(t, q)
  BY <1>1 DEF SumAllocated
<1>4. r.id \in Payments /\ r.delta \in Ints /\ \A i \in Invoices : alloc[r.id][i] + r.delta[i] >= 0
  BY <1>2, <1>3 DEF SessionRow, SubjectInv, InsertedInv, PaymentSteps, Allocating, Inserted
<1>5. sum \in Nat
  BY <1>2, <1>4, SumWithDelta
<1> HIDE DEF sum
<1>6. /\ q.pc = "payment" /\ q.op = r.op /\ q.id = r.id /\ q.target = r.target /\ q.seen = r.seen
      /\ q.new = r.new /\ q.delta = r.delta /\ q.todo = r.todo /\ q.sum = sum /\ q.current = r.current
  BY <1>2 DEF SessionRow
<1>7. q \in SessionRow
  BY <1>2, <1>5 DEF SessionRow, Steps
<1> HIDE DEF q
<1>8. SubjectInv(q) /\ SeenInv(q)
  BY <1>2, <1>3, <1>6 DEF SubjectInv, SeenInv, PaymentSteps, Allocating, Checked, Inserted
<1>9. InsertedInv(q)
  BY <1>2, <1>3, <1>6 DEF InsertedInv, Inserted, Checked, Exact, Reliable
<1>10. NewRowsInv(t, q) /\ CreditInv(t, q)
  BY <1>2, <1>3, <1>6 DEF NewRowsInv, CreditInv
<1>11. PaymentInv(t, q)
  <2>1. Fresh(q) <=> Fresh(r)
    BY <1>6 DEF Fresh
  <2> QED
    BY <1>2, <1>3, <1>6, <2>1 DEF PaymentInv, Allocating, Checked, Inserted, Exact, sum
<1>12. SessInv(t, q)
  BY <1>8, <1>9, <1>10, <1>11 DEF SessInv
<1>13. \A x : Replacing(q, x) => Replacing(sess[t], x)
  BY <1>1, <1>3, <1>6 DEF Replacing, Inserted
<1> QED
  BY <1>3, <1>7, <1>12, <1>13, ContinueKept

\* The facts about rows that are not locked survive a step that only locks.
LEMMA LockingSess ==
    ASSUME UNCHANGED data, NEW q
    PROVE  /\ \A p \in Payments : AllocatedOf(p)' = AllocatedOf(p)
           /\ \A i \in Invoices : PaidOn(i)' = PaidOn(i) /\ CreditOn(i)' = CreditOn(i)
           /\ \A c \in Credits : AppliedOf(c)' = AppliedOf(c)
           /\ UNCHANGED <<pay, inv, cn, alloc, applied, misread>>
           /\ SubjectInv(q) => SubjectInv(q)'
           /\ SeenInv(q) => SeenInv(q)'
           /\ q.todo \subseteq Invoices /\ InsertedInv(q) => InsertedInv(q)'
           /\ Fresh(q)' <=> Fresh(q)
<1>1. UNCHANGED <<pay, inv, cn, alloc, applied, misread>>
  BY DEF data
<1>2. /\ \A p \in Payments : AllocatedOf(p)' = AllocatedOf(p)
      /\ \A i \in Invoices : PaidOn(i)' = PaidOn(i) /\ CreditOn(i)' = CreditOn(i)
      /\ \A c \in Credits : AppliedOf(c)' = AppliedOf(c)
  BY <1>1 DEF AllocatedOf, PaidOn, CreditOn, AppliedOf
<1>3. SubjectInv(q) => SubjectInv(q)'
  BY DEF SubjectInv
<1>4. SeenInv(q) => SeenInv(q)'
  BY <1>1 DEF SeenInv
<1>5. q.todo \subseteq Invoices /\ InsertedInv(q) => InsertedInv(q)'
  BY <1>1, <1>2 DEF InsertedInv, Exact, Reliable
<1>6. Fresh(q)' <=> Fresh(q)
  BY <1>1 DEF Fresh
<1> QED
  BY <1>1, <1>2, <1>3, <1>4, <1>5, <1>6

\* A step that locks row x.
LEMMA LockKept ==
    ASSUME IInv, UNCHANGED data, NEW t \in Sessions, NEW q \in SessionRow,
           sess' = [sess EXCEPT ![t] = q], NEW x \in Rows, Free(t, x),
           lock' = [lock EXCEPT ![x] = t], started' \in 0..MaxRequests,
           \A p : Replacing(q, p) => Replacing(sess[t], p),
           SubjectInv(q)', SeenInv(q)', InsertedInv(q)', NewRowsInv(t, q)',
           PaymentInv(t, q)', CreditInv(t, q)'
    PROVE  IInv'
<1>1. lock \in [Rows -> Sessions \cup {None}]
  BY DEF IInv, TypeOK
<1>2. lock' \in [Rows -> Sessions \cup {None}]
  BY <1>1
<1>3. \A y \in Rows : lock[y] \notin {None, t} => lock'[y] = lock[y]
  BY <1>1 DEF Free
<1>4. SessInv(t, q)'
  BY DEF SessInv
<1> QED
  BY <1>2, <1>3, <1>4, QuietKept

LEMMA UpdatePaymentKept ==
    ASSUME IInv, NEW t \in Sessions, UpdatePayment(t)
    PROVE  IInv'
<1>1. PICK r : r = sess[t]
  OBVIOUS
<1>2. /\ TypeOK /\ r \in SessionRow /\ SubjectInv(r) /\ SeenInv(r) /\ InsertedInv(r)
      /\ NewRowsInv(t, r) /\ PaymentInv(t, r) /\ CreditInv(t, r) /\ DOMAIN sess = Sessions
  BY <1>1, Mine
<1> DEFINE q == [r EXCEPT !.pc = "invoices"]
<1>3. /\ r.pc = "payment" /\ Free(t, r.id) /\ pay[r.id].version = r.seen[r.id]
      /\ lock' = [lock EXCEPT ![r.id] = t] /\ UNCHANGED data /\ UNCHANGED started
  BY <1>1 DEF UpdatePayment
<1>4. sess' = [sess EXCEPT ![t] = q]
  BY <1>1, <1>2 DEF UpdatePayment
<1>5. /\ q.pc = "invoices" /\ q.op = r.op /\ q.id = r.id /\ q.target = r.target /\ q.seen = r.seen
      /\ q.new = r.new /\ q.delta = r.delta /\ q.todo = r.todo /\ q.sum = r.sum
      /\ q.current = r.current
  BY <1>2 DEF SessionRow
<1>6. q \in SessionRow
  BY <1>2 DEF SessionRow, Steps
<1> HIDE DEF q
<1>7. r.id \in Payments /\ r.id \in Rows /\ q.todo \subseteq Invoices
  BY <1>2, <1>3, <1>6, SessionTypes DEF SubjectInv, PaymentSteps, Allocating, Inserted, Rows
<1>8. SubjectInv(q) /\ SeenInv(q) /\ InsertedInv(q)
  <2>1. SubjectInv(q) /\ SeenInv(q)
    BY <1>2, <1>3, <1>5 DEF SubjectInv, SeenInv, PaymentSteps, Allocating, Inserted, Checked
  <2>2. InsertedInv(q)
    BY <1>2, <1>3, <1>5 DEF InsertedInv, Inserted, Checked, Exact, Reliable
  <2> QED
    BY <2>1, <2>2
<1>9. (SubjectInv(q) /\ SeenInv(q) /\ InsertedInv(q))'
  BY <1>3, <1>7, <1>8, LockingSess
<1>10. NewRowsInv(t, q)' /\ CreditInv(t, q)'
  BY <1>2, <1>3, <1>5 DEF NewRowsInv, CreditInv
<1>11. PaymentInv(t, q)'
  <2>1. (Fresh(q)' => Fresh(r)) /\ AllocatedOf(r.id)' = AllocatedOf(r.id) /\ UNCHANGED pay
    <3>1. /\ Fresh(q)' <=> Fresh(q)
          /\ AllocatedOf(r.id)' = AllocatedOf(r.id) /\ UNCHANGED pay
      BY <1>3, <1>7, LockingSess
    <3> QED
      BY <1>5, <3>1 DEF Fresh
  <2>2. lock'[r.id] = t
    BY <1>2, <1>3, <1>7 DEF TypeOK
  <2> QED
    BY <1>2, <1>3, <1>5, <2>1, <2>2 DEF PaymentInv, Allocating, Checked, Inserted, Exact
<1>12. \A x : Replacing(q, x) => Replacing(sess[t], x)
  BY <1>1, <1>3, <1>5 DEF Replacing, Inserted
<1>13. started' \in 0..MaxRequests
  BY <1>2, <1>3 DEF TypeOK
<1> QED
  BY <1>3, <1>4, <1>6, <1>7, <1>9, <1>10, <1>11, <1>12, <1>13, LockKept

\* An uncommitted invoice row joins the others.
LEMMA JoinedRows ==
    ASSUME NEW f \in InvoiceRows, NEW i \in Invoices, NEW row \in InvoiceRow
    PROVE  /\ Joined(f, Only(i, row)) \in InvoiceRows
           /\ DOMAIN Joined(f, Only(i, row)) = DOMAIN f \cup {i}
           /\ \A x \in DOMAIN f : Joined(f, Only(i, row))[x] = f[x]
           /\ i \notin DOMAIN f => Joined(f, Only(i, row))[i] = row
<1>1. PICK E \in SUBSET Invoices : f \in [E -> InvoiceRow]
  BY DEF InvoiceRows
<1>2. Only(i, row) \in [{i} -> InvoiceRow] /\ Only(i, row)[i] = row
  BY DEF Only
<1>3. Joined(f, Only(i, row)) \in [E \cup {i} -> InvoiceRow] /\ E \cup {i} \in SUBSET Invoices
  BY <1>1, <1>2 DEF Joined
<1> QED
  BY <1>1, <1>2, <1>3 DEF InvoiceRows, Joined

\* The total paid on an invoice holds what each payment pays on it.
LEMMA PaidAtLeast ==
    ASSUME TypeOK, NEW p \in Payments, NEW i \in Invoices
    PROVE  alloc[p][i] <= PaidOn(i) /\ PaidOn(i) \in Nat
<1> DEFINE f == [x \in Payments |-> alloc[x][i]]
<1>1. f \in [Payments -> Nat] /\ f[p] = alloc[p][i]
  BY RowTypes
<1> HIDE DEF f
<1>2. SumFunction(f) \in Nat /\ f[p] <= SumFunction(f)
  BY <1>1, FiniteTables, SumFunctionNat
<1> QED
  BY <1>1, <1>2 DEF f, PaidOn

LEMMA RecomputeInvoiceKept ==
    ASSUME IInv, NEW t \in Sessions, NEW i \in Invoices, RecomputeInvoice(t, i)
    PROVE  IInv'
<1>1. PICK r : r = sess[t]
  OBVIOUS
<1>2. /\ TypeOK /\ RowsInv /\ r \in SessionRow /\ SubjectInv(r) /\ SeenInv(r) /\ InsertedInv(r)
      /\ NewRowsInv(t, r) /\ PaymentInv(t, r) /\ CreditInv(t, r) /\ DOMAIN sess = Sessions
  BY <1>1, Mine
<1>0. PICK row : row = Projection(i, PaidOn(i) + r.delta[i], CreditOn(i), inv[i].outcome,
                                  inv[i].version + 1)
  OBVIOUS
<1> DEFINE new == Joined(r.new, Only(i, row))
           todo == r.todo \ {i}
           q == [r EXCEPT !.todo = todo, !.new = new]
<1>3. /\ r.pc = "invoices" /\ i \in r.todo /\ Free(t, i)
      /\ i \in DOMAIN r.seen => inv[i].version = r.seen[i]
      /\ lock' = [lock EXCEPT ![i] = t] /\ UNCHANGED data /\ UNCHANGED started
  BY <1>1 DEF RecomputeInvoice
<1>4. sess' = [sess EXCEPT ![t] = q]
  BY <1>0, <1>1, <1>2 DEF RecomputeInvoice
<1>5. /\ r.id \in Payments /\ r.delta[i] \in Int /\ Total[i] \in Nat /\ i \in Rows /\ r.new \in InvoiceRows
      /\ PaidOn(i) \in Nat /\ CreditOn(i) \in Nat /\ inv[i].outcome \in Outcomes /\ inv[i].version \in Nat
      /\ r.todo \subseteq Invoices
  <2>1. r.id \in Payments
    BY <1>2, <1>3 DEF SubjectInv, PaymentSteps, Allocating, Inserted
  <2>2. r.delta[i] \in Int /\ r.new \in InvoiceRows /\ r.todo \subseteq Invoices
    BY <1>2, SessionTypes DEF SessionRow
  <2> QED
    BY <1>2, <2>1, <2>2, SumTypes, RowTypes, ConstantsAssumption DEF Rows
<1>6. row \in InvoiceRow
  <2>1. alloc[r.id][i] + r.delta[i] >= 0
    BY <1>2, <1>3 DEF InsertedInv, Inserted
  <2>2. alloc[r.id][i] <= PaidOn(i) /\ alloc[r.id][i] \in Nat
    BY <1>2, <1>5, PaidAtLeast, RowTypes
  <2>3. PaidOn(i) + r.delta[i] \in Nat /\ inv[i].version + 1 \in Nat
    BY <1>5, <2>1, <2>2
  <2> QED
    BY <1>0, <1>5, <2>3, ProjectionType
<1>7. ASSUME i \notin misread, Exact(r, i)
      PROVE  PaidOn(i) + CreditOn(i) + r.delta[i] <= Total[i]
  <2>1. CASE i \in DOMAIN r.seen
    BY <1>2, <1>3, <1>7, <2>1 DEF InsertedInv, Inserted, Reliable
  <2>2. CASE i \notin DOMAIN r.seen
    <3>1. r.delta[i] <= 0
      BY <1>2, <1>3, <2>2 DEF InsertedInv, Inserted
    <3>2. PaidOn(i) + CreditOn(i) <= Total[i]
      BY <1>2, <1>7 DEF RowsInv, InvoiceNotOverPaid, ReadRight
    <3> QED
      BY <1>5, <3>1, <3>2
  <2> QED
    BY <2>1, <2>2
<1>8. /\ new \in InvoiceRows /\ DOMAIN new = DOMAIN r.new \cup {i}
      /\ \A x \in DOMAIN r.new : new[x] = r.new[x]
      /\ i \notin DOMAIN r.new => new[i] = row
  BY <1>5, <1>6, JoinedRows
<1> HIDE DEF new
<1>9. /\ q.pc = r.pc /\ q.op = r.op /\ q.id = r.id /\ q.target = r.target /\ q.seen = r.seen
      /\ q.new = new /\ q.delta = r.delta /\ q.todo = todo /\ q.sum = r.sum /\ q.current = r.current
  BY <1>2 DEF SessionRow
<1>10. q \in SessionRow
  BY <1>2, <1>5, <1>8 DEF SessionRow
<1> HIDE DEF q
<1>11. SubjectInv(q) /\ SeenInv(q) /\ q.todo \subseteq Invoices
  BY <1>2, <1>3, <1>5, <1>9 DEF SubjectInv, SeenInv
<1>12. InsertedInv(q)
  BY <1>2, <1>3, <1>8, <1>9 DEF InsertedInv, Checked, Inserted, Exact, Reliable
<1>13. (SubjectInv(q) /\ SeenInv(q) /\ InsertedInv(q))'
  BY <1>3, <1>11, <1>12, LockingSess
<1>14. /\ \A x \in Invoices : PaidOn(x)' = PaidOn(x) /\ CreditOn(x)' = CreditOn(x)
       /\ AllocatedOf(r.id)' = AllocatedOf(r.id) /\ UNCHANGED <<pay, inv, cn, misread>>
       /\ Fresh(q)' <=> Fresh(q)
  BY <1>3, <1>5, LockingSess
<1>15. /\ \A x \in Rows : lock[x] = t => lock'[x] = t
       /\ lock'[i] = t
  BY <1>2, <1>3, <1>5 DEF TypeOK
<1>16. NewRowsInv(t, q)'
  <2>1. ASSUME NEW x \in DOMAIN new
        PROVE  /\ lock'[x] = t /\ x \in Invoices
               /\ new[x].version = inv[x].version + 1
               /\ x \notin misread =>
                     /\ new[x] = Projection(x, PaidOn(x) + r.delta[x], CreditOn(x), inv[x].outcome,
                                            inv[x].version + 1)
                     /\ Exact(r, x) => PaidOn(x) + CreditOn(x) + r.delta[x] <= Total[x]
    <3>1. CASE x \in DOMAIN r.new
      <4>1. x \in Invoices /\ x \in Rows
        BY <1>2, <3>1, SessionTypes DEF Rows
      <4> QED
        BY <1>2, <1>8, <1>15, <3>1, <4>1 DEF NewRowsInv
    <3>2. CASE x \notin DOMAIN r.new
      <4>1. x = i /\ new[x] = row /\ row.version = inv[i].version + 1
        BY <1>0, <1>8, <3>2 DEF Projection
      <4> QED
        BY <1>0, <1>7, <1>15, <4>1
    <3> QED
      BY <3>1, <3>2
  <2>2. ASSUME NEW x \in DOMAIN new, x \notin misread'
        PROVE  /\ new[x] = Projection(x, PaidOn(x)' + r.delta[x], CreditOn(x)', inv'[x].outcome,
                                      inv'[x].version + 1)
               /\ Exact(r, x) => PaidOn(x)' + CreditOn(x)' + r.delta[x] <= Total[x]
    <3>1. PaidOn(x)' = PaidOn(x) /\ CreditOn(x)' = CreditOn(x) /\ inv' = inv /\ x \notin misread
      BY <1>14, <2>1, <2>2
    <3> QED
      BY <2>1, <3>1 DEF Projection, ComputePaymentStatus
  <2>3. \A x \in DOMAIN new : lock'[x] = t /\ new[x].version = inv'[x].version + 1
    BY <1>14, <2>1
  <2>4. ASSUME NEW x \in DOMAIN q.new, x \notin misread'
        PROVE  /\ q.new[x] = Projection(x, PaidOn(x)' + q.delta[x], CreditOn(x)', inv'[x].outcome,
                                      inv'[x].version + 1)
               /\ q.delta[x] = q.target[x] - q.current[x] =>
                     PaidOn(x)' + CreditOn(x)' + q.delta[x] <= Total[x]
    BY <1>9, <2>2, <2>4 DEF Exact
  <2>5. q.pc = "invoices"
        /\ \A x \in DOMAIN q.new : lock'[x] = t /\ q.new[x].version = inv'[x].version + 1
    BY <1>3, <1>9, <2>3
  <2> QED
    BY <2>4, <2>5 DEF NewRowsInv, Exact, Projection, ComputePaymentStatus
<1>17. PaymentInv(t, q)'
  <2>1. Fresh(q) <=> Fresh(r)
    BY <1>9 DEF Fresh
  <2>2. lock'[r.id] = t
    BY <1>2, <1>3, <1>5, <1>15 DEF PaymentInv, Rows
  <2> QED
    BY <1>2, <1>3, <1>9, <1>14, <2>1, <2>2 DEF PaymentInv, Allocating, Checked, Inserted, Exact
<1>18. CreditInv(t, q)'
  BY <1>3, <1>9 DEF CreditInv
<1>19. \A x : Replacing(q, x) => Replacing(sess[t], x)
  BY <1>1, <1>3, <1>9 DEF Replacing
<1>20. started' \in 0..MaxRequests
  BY <1>2, <1>3 DEF TypeOK
<1> QED
  BY <1>3, <1>4, <1>5, <1>10, <1>13, <1>16, <1>17, <1>18, <1>19, <1>20, LockKept

-----------------------------------------------------------------------------
(* The other requests, up to their write *)

LEMMA CheckUnallocatedKept ==
    ASSUME IInv, NEW t \in Sessions, CheckUnallocated(t)
    PROVE  IInv'
<1>1. PICK r : r = sess[t]
  OBVIOUS
<1>2. /\ TypeOK /\ r \in SessionRow /\ SubjectInv(r) /\ SeenInv(r)
      /\ NewRowsInv(t, r) /\ PaymentInv(t, r) /\ CreditInv(t, r)
  BY <1>1, Mine
<1> DEFINE q == [r EXCEPT !.pc = "void"]
<1>3. r.pc = "unallocated" /\ AllocatedOf(r.id) = 0 /\ Continue(t, q)
  BY <1>1 DEF CheckUnallocated
<1>4. q.pc = "void" /\ q.id = r.id /\ q.seen = r.seen /\ q.new = r.new
  BY <1>2 DEF SessionRow
<1>5. q \in SessionRow
  BY <1>2 DEF SessionRow, Steps
<1> HIDE DEF q
<1>6. SubjectInv(q) /\ SeenInv(q)
  BY <1>2, <1>3, <1>4 DEF SubjectInv, SeenInv, PaymentSteps, Allocating, Checked, Inserted
<1>7. InsertedInv(q) /\ NewRowsInv(t, q) /\ PaymentInv(t, q) /\ CreditInv(t, q)
  BY <1>2, <1>3, <1>4 DEF InsertedInv, NewRowsInv, PaymentInv, CreditInv, Inserted, Allocating, Checked
<1>8. SessInv(t, q) /\ \A x : ~Replacing(q, x)
  BY <1>4, <1>6, <1>7 DEF SessInv, Replacing, Inserted
<1> QED
  BY <1>3, <1>5, <1>8, ContinueKept

LEMMA ReadAppliedKept ==
    ASSUME IInv, NEW t \in Sessions, ReadApplied(t)
    PROVE  IInv'
<1>1. PICK r : r = sess[t]
  OBVIOUS
<1>2. /\ TypeOK /\ r \in SessionRow /\ SubjectInv(r) /\ SeenInv(r)
      /\ NewRowsInv(t, r) /\ PaymentInv(t, r) /\ CreditInv(t, r)
  BY <1>1, Mine
<1>3. PICK sum : sum = AppliedOf(r.id)
  OBVIOUS
<1> DEFINE q == [r EXCEPT !.pc = "void_credit", !.sum = sum]
<1>4. r.pc = "applied" /\ Continue(t, q)
  BY <1>1, <1>3 DEF ReadApplied
<1>5. sum \in Nat
  BY <1>2, <1>3, <1>4, SumTypes DEF SubjectInv
<1>6. q.pc = "void_credit" /\ q.id = r.id /\ q.seen = r.seen /\ q.new = r.new
  BY <1>2 DEF SessionRow
<1>7. q \in SessionRow
  BY <1>2, <1>5 DEF SessionRow, Steps
<1> HIDE DEF q
<1>8. SubjectInv(q) /\ SeenInv(q)
  BY <1>2, <1>4, <1>6 DEF SubjectInv, SeenInv, PaymentSteps, Allocating, Checked, Inserted
<1>9. InsertedInv(q) /\ NewRowsInv(t, q) /\ PaymentInv(t, q) /\ CreditInv(t, q)
  BY <1>2, <1>4, <1>6 DEF InsertedInv, NewRowsInv, PaymentInv, CreditInv, Inserted, Allocating, Checked
<1>10. SessInv(t, q) /\ \A x : ~Replacing(q, x)
  BY <1>6, <1>8, <1>9 DEF SessInv, Replacing, Inserted
<1> QED
  BY <1>4, <1>7, <1>10, ContinueKept

LEMMA LockCreditNoteKept ==
    ASSUME IInv, NEW t \in Sessions, NEW c \in Credits, NEW i \in Invoices, LockCreditNote(t, c, i)
    PROVE  IInv'
<1> DEFINE q == [Idle EXCEPT !.pc = "credit", !.op = "APPLY", !.id = c, !.inv = i]
<1>1. /\ lock[c] = None /\ cn[c].status = "ISSUED" /\ started < MaxRequests
      /\ started' = started + 1 /\ lock' = [lock EXCEPT ![c] = t]
      /\ sess' = [sess EXCEPT ![t] = q] /\ UNCHANGED data
  BY DEF LockCreditNote
<1>2. c \in Rows /\ Free(t, c) /\ lock \in [Rows -> Sessions \cup {None}]
  BY <1>1 DEF Rows, Free, IInv, TypeOK
<1>3. started' \in 0..MaxRequests
  BY <1>1, ConstantsAssumption DEF IInv, TypeOK
<1>4. /\ q.pc = "credit" /\ q.id = c /\ q.inv = i /\ DOMAIN q.new = {} /\ DOMAIN q.seen = {}
  BY DEF Idle
<1>5. q \in SessionRow
  BY <1>2, IdleType DEF SessionRow, Steps
<1> HIDE DEF q
<1>6. SubjectInv(q)' /\ SeenInv(q)' /\ InsertedInv(q)'
  BY <1>4 DEF SubjectInv, SeenInv, InsertedInv, PaymentSteps, Allocating, Inserted, Checked
<1>7. NewRowsInv(t, q)' /\ PaymentInv(t, q)'
  BY <1>4 DEF NewRowsInv, PaymentInv, Allocating, Checked, Inserted
<1>8. CreditInv(t, q)'
  <2>1. cn' = cn /\ lock'[c] = t
    BY <1>1, <1>2 DEF data
  <2> QED
    BY <1>1, <1>4, <2>1 DEF CreditInv
<1>9. \A x : ~Replacing(q, x)
  BY <1>4 DEF Replacing, Inserted
<1> QED
  BY <1>1, <1>2, <1>3, <1>5, <1>6, <1>7, <1>8, <1>9, LockKept

LEMMA LockCreditedInvoiceKept ==
    ASSUME IInv, NEW t \in Sessions, LockCreditedInvoice(t)
    PROVE  IInv'
<1>1. PICK r : r = sess[t]
  OBVIOUS
<1>2. /\ TypeOK /\ r \in SessionRow /\ SubjectInv(r)
      /\ NewRowsInv(t, r) /\ CreditInv(t, r) /\ DOMAIN sess = Sessions
  BY <1>1, Mine
<1> DEFINE c == r.id
           i == r.inv
           left == Credit[c] - AppliedOf(c)
           outstanding == Total[i] - CreditOn(i) - PaidOn(i)
<1>3. PICK amount : amount = IF left < outstanding THEN left ELSE outstanding
  OBVIOUS
<1>4. PICK seen : seen = Only(i, inv[i].version)
  OBVIOUS
<1> DEFINE q == [r EXCEPT !.pc = "apply", !.sum = amount, !.seen = seen]
<1>5. /\ r.pc = "credit" /\ lock[i] = None /\ amount > 0
      /\ lock' = [lock EXCEPT ![i] = t] /\ UNCHANGED data /\ UNCHANGED started
  BY <1>1, <1>3 DEF LockCreditedInvoice
<1>6. sess' = [sess EXCEPT ![t] = q]
  BY <1>1, <1>2, <1>3, <1>4 DEF LockCreditedInvoice
<1>7. c \in Credits /\ i \in Invoices /\ i \in Rows /\ Free(t, i)
  BY <1>2, <1>5 DEF SubjectInv, Rows, Free
<1>8. /\ AppliedOf(c) \in Nat /\ CreditOn(i) \in Nat /\ PaidOn(i) \in Nat
      /\ Credit[c] \in Nat /\ Total[i] \in Nat /\ inv[i].version \in Nat
  BY <1>2, <1>7, SumTypes, RowTypes, ConstantsAssumption
<1>9. /\ amount \in Nat /\ AppliedOf(c) + amount <= Credit[c]
      /\ PaidOn(i) + CreditOn(i) + amount <= Total[i]
  BY <1>3, <1>5, <1>8
<1>10. seen \in Versions /\ DOMAIN seen = {i} /\ seen[i] = inv[i].version
  BY <1>4, <1>7, <1>8, OnlyRow
<1> HIDE DEF c, i
<1>11. /\ q.pc = "apply" /\ q.id = c /\ q.inv = i /\ q.seen = seen /\ q.new = r.new /\ q.sum = amount
  BY <1>2 DEF SessionRow, c, i
<1>12. q \in SessionRow
  BY <1>2, <1>9, <1>10 DEF SessionRow, Steps
<1> HIDE DEF q
<1>13. /\ AppliedOf(c)' = AppliedOf(c) /\ PaidOn(i)' = PaidOn(i) /\ CreditOn(i)' = CreditOn(i)
       /\ UNCHANGED <<pay, inv, cn>>
  BY <1>5, <1>7, LockingSess
<1>14. SubjectInv(q)' /\ InsertedInv(q)'
  BY <1>7, <1>11 DEF SubjectInv, InsertedInv, PaymentSteps, Allocating, Checked, Inserted
<1>15. SeenInv(q)'
  <2>1. i \notin Payments
    BY <1>7, ConstantsAssumption
  <2> QED
    BY <1>8, <1>10, <1>11, <1>13, <2>1 DEF SeenInv
<1>16. NewRowsInv(t, q)' /\ PaymentInv(t, q)'
  BY <1>2, <1>5, <1>11 DEF NewRowsInv, PaymentInv, Allocating, Checked, Inserted
<1>17. CreditInv(t, q)'
  <2>1. lock[c] = t /\ cn[c].status = "ISSUED" /\ c \in Rows
    BY <1>2, <1>5, <1>7 DEF CreditInv, c, Rows
  <2>2. lock'[i] = t /\ lock'[c] = t
    BY <1>2, <1>5, <1>7, <2>1 DEF TypeOK
  <2> QED
    BY <1>9, <1>11, <1>13, <2>1, <2>2 DEF CreditInv
<1>18. \A x : ~Replacing(q, x)
  BY <1>11 DEF Replacing, Inserted
<1>19. started' \in 0..MaxRequests
  BY <1>2, <1>5 DEF TypeOK
<1> QED
  BY <1>5, <1>6, <1>7, <1>12, <1>14, <1>15, <1>16, <1>17, <1>18, <1>19, LockKept

-----------------------------------------------------------------------------
(* Commits *)

\* A commit of session t: it writes rows that no other session has locked.
LEMMA PublishKept ==
    ASSUME IInv, NEW t \in Sessions, EndSession(t),
           pay' \in [Payments -> PaymentRow], inv' \in [Invoices -> InvoiceRow],
           cn' \in [Credits -> CreditRow], alloc' \in [Payments -> [Invoices -> Nat]],
           applied' \in [Credits -> [Invoices -> Nat]], RowsInv',
           misread' \subseteq Invoices, misread \subseteq misread',
           \A p \in Payments :
              \/ pay'[p] = pay[p] /\ alloc'[p] = alloc[p]
              \/ /\ Free(t, p)
                 /\ pay'[p].rewound \/ (~pay[p].rewound /\ pay'[p].version > pay[p].version),
           \A i \in Invoices :
              \/ inv'[i] = inv[i] /\ PaidOn(i)' = PaidOn(i) /\ CreditOn(i)' = CreditOn(i)
              \/ Free(t, i) /\ inv'[i].version > inv[i].version
              \/ i \in misread' /\ inv'[i] = inv[i],
           \A c \in Credits : (cn'[c] = cn[c] /\ applied'[c] = applied[c]) \/ Free(t, c),
           \A p \in Payments : \/ \A i \in Invoices : alloc'[p][i] >= alloc[p][i]
                               \/ Replacing(sess[t], p)
    PROVE  IInv'
<1>1. /\ lock' = [x \in Rows |-> IF lock[x] = t THEN None ELSE lock[x]]
      /\ sess' = [sess EXCEPT ![t] = Idle]
      /\ UNCHANGED started
  BY DEF EndSession
<1>2. lock \in [Rows -> Sessions \cup {None}] /\ started \in 0..MaxRequests
      /\ sess \in [Sessions -> SessionRow] /\ ReplaceInv
  BY DEF IInv, TypeOK, SessTypeOK
<1>3. TypeOK'
  BY <1>1, <1>2 DEF TypeOK
<1>4. SessTypeOK' /\ sess'[t] = Idle
  BY <1>1, <1>2, IdleType DEF SessTypeOK
<1>5. ReplaceInv'
  <2>1. \A p : ~Replacing(Idle, p)
    BY DEF Replacing, Idle, Inserted
  <2> QED
    BY <1>1, <2>1, ReplaceKept
<1>6. ASSUME NEW s \in Sessions \ {t}
      PROVE  sess'[s] = sess[s] /\ Respects(s, sess[s])
  <2>1. sess'[s] = sess[s]
    BY <1>1, <1>2
  <2>2. PICK r : r = sess[s]
    OBVIOUS
  <2>3. SubjectInv(r)
    BY <2>2 DEF IInv, SessInv
  <2>4. \A x : Free(t, x) => lock[x] # s
    BY ConstantsAssumption DEF Free
  <2>5. \A x \in Rows : lock[x] = s => lock'[x] = s
    BY <1>1
  <2>6. ASSUME r.pc \in Inserted, r.op = "REPLACE", NEW i \in Invoices
        PROVE  alloc'[r.id][i] >= alloc[r.id][i]
    <3>1. r.id \in Payments
      BY <2>3, <2>6 DEF SubjectInv, Inserted, PaymentSteps, Allocating
    <3>2. ~Replacing(sess[t], r.id)
      BY <1>2, <2>2, <2>6 DEF ReplaceInv, Replacing
    <3> QED
      BY <3>1, <3>2
  <2>7. Respects(s, r)
    BY <2>4, <2>5, <2>6 DEF Respects
  <2> QED
    BY <2>1, <2>2, <2>7
<1>7. SessInv(t, Idle)'
  BY IdleInv
<1> QED
  BY <1>3, <1>4, <1>5, <1>6, <1>7, StepKept

\* A commit that writes one payment row and no allocation.
LEMMA PaymentWritten ==
    ASSUME IInv, NEW t \in Sessions, EndSession(t), NEW p \in Payments, Free(t, p),
           NEW row \in PaymentRow, pay' = [pay EXCEPT ![p] = row],
           UNCHANGED <<inv, cn, alloc, applied, misread>>,
           row.rewound \/ (~pay[p].rewound /\ row.version > pay[p].version),
           row.allocated = pay[p].allocated,
           ~row.rewound /\ row.status = "VOIDED" => AllocatedOf(p) = 0
    PROVE  IInv'
<1>1. TypeOK /\ RowsInv
  BY DEF IInv
<1>2. /\ misread \subseteq Invoices
      /\ pay \in [Payments -> PaymentRow] /\ inv \in [Invoices -> InvoiceRow]
      /\ cn \in [Credits -> CreditRow] /\ alloc \in [Payments -> [Invoices -> Nat]]
      /\ applied \in [Credits -> [Invoices -> Nat]]
  BY <1>1 DEF TypeOK
<1>3. pay' \in [Payments -> PaymentRow] /\ \A x \in Payments : pay'[x] = IF x = p THEN row ELSE pay[x]
  BY <1>2
<1>4. /\ \A x \in Payments : AllocatedOf(x)' = AllocatedOf(x)
      /\ \A i \in Invoices : PaidOn(i)' = PaidOn(i) /\ CreditOn(i)' = CreditOn(i)
      /\ \A c \in Credits : AppliedOf(c)' = AppliedOf(c)
  BY DEF AllocatedOf, PaidOn, CreditOn, AppliedOf
<1>5. Versioned' \subseteq Versioned
  BY <1>3 DEF Versioned
<1>6. (PaymentNotOverAllocated /\ PaymentProjectionTrue /\ VoidedPaymentUnallocated)'
  <2> SUFFICES ASSUME NEW x \in Versioned'
               PROVE  /\ AllocatedOf(x)' <= Amount[x] /\ pay'[x].allocated = AllocatedOf(x)'
                      /\ pay'[x].status = "VOIDED" => AllocatedOf(x)' = 0
    BY DEF PaymentNotOverAllocated, PaymentProjectionTrue, VoidedPaymentUnallocated
  <2>1. x \in Payments /\ ~pay'[x].rewound /\ x \in Versioned
    BY <1>5 DEF Versioned
  <2>2. /\ AllocatedOf(x) <= Amount[x] /\ pay[x].allocated = AllocatedOf(x)
        /\ pay[x].status = "VOIDED" => AllocatedOf(x) = 0
    BY <1>1, <2>1 DEF RowsInv, PaymentNotOverAllocated, PaymentProjectionTrue, VoidedPaymentUnallocated
  <2> QED
    BY <1>3, <1>4, <2>1, <2>2
<1>7. (InvoiceNotOverPaid /\ CreditNoteNotOverApplied)'
  BY <1>1, <1>4 DEF RowsInv, InvoiceNotOverPaid, CreditNoteNotOverApplied, ReadRight
<1>8. InvoiceProjectionTrue' /\ MisreadNeedsRewind'
  <2>1. InvoiceProjectionTrue'
    BY <1>1, <1>4 DEF RowsInv, InvoiceProjectionTrue, ComputePaymentStatus, ReadRight
  <2>2. \A x \in Payments : pay[x].rewound => pay'[x].rewound
    BY <1>3
  <2> QED
    BY <1>1, <2>1, <2>2 DEF RowsInv, MisreadNeedsRewind
<1>9. RowsInv'
  BY <1>6, <1>7, <1>8 DEF RowsInv
<1>10. \A x \in Payments, i \in Invoices : alloc'[x][i] >= alloc[x][i]
  BY <1>2
<1> QED
  BY <1>2, <1>3, <1>4, <1>9, <1>10, PublishKept

LEMMA EditPaymentKept ==
    ASSUME IInv, NEW t \in Sessions, EditPayment(t)
    PROVE  IInv'
<1>1. PICK r : r = sess[t]
  OBVIOUS
<1>2. TypeOK /\ RowsInv /\ SubjectInv(r)
  BY <1>1, Mine
<1> DEFINE p == r.id
           v == pay[p].version + 1
           row == [pay[p] EXCEPT !.version = v]
<1>3. r.pc = "edit" /\ Free(t, p) /\ EndSession(t) /\ UNCHANGED <<inv, cn, alloc, applied, misread>>
  BY <1>1 DEF EditPayment
<1>4. p \in Payments
  BY <1>2, <1>3 DEF SubjectInv, PaymentSteps
<1>5. pay \in [Payments -> PaymentRow] /\ pay[p] \in PaymentRow /\ pay[p].version \in Nat
  BY <1>2, <1>4, RowTypes DEF TypeOK
<1>6. pay' = [pay EXCEPT ![p] = row]
  BY <1>1, <1>4, <1>5 DEF EditPayment
<1>7. v \in Nat /\ v > pay[p].version
  BY <1>5
<1> HIDE DEF v, p
<1>8. /\ row \in PaymentRow /\ row.version = v /\ row.rewound = pay[p].rewound
      /\ row.allocated = pay[p].allocated /\ row.status = pay[p].status
  BY <1>5, <1>7 DEF PaymentRow
<1> HIDE DEF row
<1>9. pay[p].rewound \in BOOLEAN
  BY <1>5 DEF PaymentRow
<1>10. ~row.rewound /\ row.status = "VOIDED" => AllocatedOf(p) = 0
  BY <1>2, <1>4, <1>8 DEF RowsInv, VoidedPaymentUnallocated, Versioned
<1>11. row.rewound \/ (~pay[p].rewound /\ row.version > pay[p].version)
  BY <1>7, <1>8, <1>9
<1> QED
  BY <1>3, <1>4, <1>6, <1>8, <1>10, <1>11, PaymentWritten

LEMMA VoidPaymentKept ==
    ASSUME IInv, NEW t \in Sessions, VoidPayment(t)
    PROVE  IInv'
<1>1. PICK r : r = sess[t]
  OBVIOUS
<1>2. TypeOK /\ SubjectInv(r) /\ PaymentInv(t, r)
  BY <1>1, Mine
<1> DEFINE p == r.id
           v == pay[p].version + 1
           row == [pay[p] EXCEPT !.version = v, !.status = "VOIDED"]
<1>3. /\ r.pc = "void" /\ Free(t, p) /\ EndSession(t) /\ UNCHANGED <<inv, cn, alloc, applied, misread>>
      /\ pay[p].version = r.seen[p]
  BY <1>1 DEF VoidPayment
<1>4. p \in Payments
  BY <1>2, <1>3 DEF SubjectInv, PaymentSteps
<1>5. pay \in [Payments -> PaymentRow] /\ pay[p] \in PaymentRow /\ pay[p].version \in Nat
  BY <1>2, <1>4, RowTypes DEF TypeOK
<1>6. pay' = [pay EXCEPT ![p] = row]
  BY <1>1, <1>4, <1>5 DEF VoidPayment
<1>7. v \in Nat /\ v > pay[p].version
  BY <1>5
<1> HIDE DEF v
<1>8. /\ row \in PaymentRow /\ row.version = v /\ row.rewound = pay[p].rewound
      /\ row.allocated = pay[p].allocated /\ row.status = "VOIDED"
  BY <1>5, <1>7 DEF PaymentRow
<1> HIDE DEF row
<1>9. pay[p].rewound \in BOOLEAN
  BY <1>5 DEF PaymentRow
<1>10. ~row.rewound => AllocatedOf(p) = 0
  BY <1>2, <1>3, <1>8 DEF PaymentInv, Fresh
<1>11. row.rewound \/ (~pay[p].rewound /\ row.version > pay[p].version)
  BY <1>7, <1>8, <1>9
<1> HIDE DEF p
<1> QED
  BY <1>3, <1>4, <1>6, <1>8, <1>10, <1>11, PaymentWritten

LEMMA ApplyWebhookKept ==
    ASSUME IInv, NEW t \in Sessions, ApplyWebhook(t)
    PROVE  IInv'
<1>1. PICK r : r = sess[t]
  OBVIOUS
<1>2. TypeOK /\ RowsInv /\ r \in SessionRow /\ SubjectInv(r)
  BY <1>1, Mine
<1> DEFINE p == r.id
           v == r.seen[p] + 1
           w == pay[p].rewound \/ r.seen[p] # pay[p].version
           row == [pay[p] EXCEPT !.version = v, !.rewound = w]
<1>3. /\ r.pc = "webhook" /\ Free(t, p) /\ EndSession(t) /\ UNCHANGED <<inv, cn, alloc, applied, misread>>
  BY <1>1 DEF ApplyWebhook
<1>4. p \in Payments /\ p \in DOMAIN r.seen
  BY <1>2, <1>3 DEF SubjectInv, PaymentSteps
<1>5. /\ pay \in [Payments -> PaymentRow] /\ pay[p] \in PaymentRow /\ pay[p].version \in Nat
      /\ r.seen[p] \in Nat
  BY <1>2, <1>4, RowTypes, SessionTypes DEF TypeOK
<1>6. pay' = [pay EXCEPT ![p] = row]
  BY <1>1, <1>4, <1>5 DEF ApplyWebhook
<1>7. v \in Nat /\ w \in BOOLEAN /\ (~w => ~pay[p].rewound /\ v > pay[p].version)
  BY <1>5
<1> HIDE DEF v, w
<1>8. /\ row \in PaymentRow /\ row.version = v /\ row.rewound = w
      /\ row.allocated = pay[p].allocated /\ row.status = pay[p].status
  BY <1>5, <1>7 DEF PaymentRow
<1> HIDE DEF row
<1>9. ~row.rewound /\ row.status = "VOIDED" => AllocatedOf(p) = 0
  BY <1>2, <1>4, <1>7, <1>8 DEF RowsInv, VoidedPaymentUnallocated, Versioned
<1> HIDE DEF p
<1> QED
  BY <1>3, <1>4, <1>6, <1>7, <1>8, <1>9, PaymentWritten

\* A commit that writes one invoice row, with the credit applied to it.
LEMMA InvoiceWritten ==
    ASSUME IInv, NEW t \in Sessions, EndSession(t), NEW i \in Invoices, Free(t, i),
           NEW paid, NEW credit \in Nat, NEW outcome \in Outcomes, NEW version \in Nat,
           paid = PaidOn(i),
           inv' = [inv EXCEPT ![i] = Projection(i, paid, credit, outcome, version)],
           version > inv[i].version,
           i \notin misread => paid + credit <= Total[i],
           UNCHANGED <<pay, cn, alloc, misread>>,
           applied' \in [Credits -> [Invoices -> Nat]],
           CreditOn(i)' = credit, \A x \in Invoices \ {i} : CreditOn(x)' = CreditOn(x),
           \A c \in Credits : \/ applied'[c] = applied[c]
                              \/ Free(t, c) /\ AppliedOf(c)' <= Credit[c]
    PROVE  IInv'
<1>1. TypeOK /\ RowsInv
  BY DEF IInv
<1>2. /\ misread \subseteq Invoices
      /\ pay \in [Payments -> PaymentRow] /\ inv \in [Invoices -> InvoiceRow]
      /\ cn \in [Credits -> CreditRow] /\ alloc \in [Payments -> [Invoices -> Nat]]
      /\ applied \in [Credits -> [Invoices -> Nat]]
  BY <1>1 DEF TypeOK
<1>3. /\ \A x \in Payments : AllocatedOf(x)' = AllocatedOf(x)
      /\ \A x \in Invoices : PaidOn(x)' = PaidOn(x)
      /\ paid \in Nat
  BY <1>1, SumTypes DEF AllocatedOf, PaidOn
<1>4. PICK row : row = Projection(i, paid, credit, outcome, version)
  OBVIOUS
<1>5. /\ row \in InvoiceRow /\ row.version = version /\ row.outcome = outcome /\ row.paid = paid
      /\ row.status = ComputePaymentStatus(i, paid, credit, outcome)
  BY <1>3, <1>4, ProjectionType
<1>6. /\ inv' \in [Invoices -> InvoiceRow]
      /\ \A x \in Invoices : inv'[x] = IF x = i THEN row ELSE inv[x]
  BY <1>2, <1>4, <1>5
<1>7. (PaymentNotOverAllocated /\ PaymentProjectionTrue /\ VoidedPaymentUnallocated)'
  BY <1>1, <1>3
     DEF RowsInv, PaymentNotOverAllocated, PaymentProjectionTrue, VoidedPaymentUnallocated, Versioned
<1>8. InvoiceNotOverPaid' /\ MisreadNeedsRewind'
  BY <1>1, <1>3 DEF RowsInv, InvoiceNotOverPaid, MisreadNeedsRewind, ReadRight
<1>9. CreditNoteNotOverApplied'
  <2>1. \A c \in Credits : applied'[c] = applied[c] => AppliedOf(c)' = AppliedOf(c)
    BY DEF AppliedOf
  <2> QED
    BY <1>1, <2>1 DEF RowsInv, CreditNoteNotOverApplied
<1>10. InvoiceProjectionTrue'
  <2> SUFFICES ASSUME NEW x \in Invoices, x \notin misread
               PROVE  /\ inv'[x].paid = PaidOn(x)'
                      /\ inv'[x].status =
                            ComputePaymentStatus(x, PaidOn(x)', CreditOn(x)', inv'[x].outcome)
    BY DEF InvoiceProjectionTrue, ComputePaymentStatus, ReadRight
  <2>1. CASE x = i
    <3>1. PaidOn(x)' = paid /\ CreditOn(x)' = credit /\ inv'[x] = row
      BY <1>3, <1>6, <2>1
    <3> QED
      BY <1>5, <2>1, <3>1 DEF ComputePaymentStatus
  <2>2. CASE x # i
    <3>1. PaidOn(x)' = PaidOn(x) /\ CreditOn(x)' = CreditOn(x) /\ inv'[x] = inv[x]
      BY <1>3, <1>6, <2>2
    <3>2. /\ inv[x].paid = PaidOn(x)
          /\ inv[x].status = ComputePaymentStatus(x, PaidOn(x), CreditOn(x), inv[x].outcome)
      BY <1>1 DEF RowsInv, InvoiceProjectionTrue, ReadRight
    <3> QED
      BY <3>1, <3>2 DEF ComputePaymentStatus
  <2> QED
    BY <2>1, <2>2
<1>11. RowsInv'
  BY <1>7, <1>8, <1>9, <1>10 DEF RowsInv
<1>12. \A x \in Payments, y \in Invoices : alloc'[x][y] >= alloc[x][y]
  BY <1>2
<1>13. \A x \in Invoices :
          \/ inv'[x] = inv[x] /\ PaidOn(x)' = PaidOn(x) /\ CreditOn(x)' = CreditOn(x)
          \/ Free(t, x) /\ inv'[x].version > inv[x].version
  BY <1>3, <1>5, <1>6
<1> QED
  BY <1>2, <1>6, <1>11, <1>12, <1>13, PublishKept

LEMMA RecordOutcomeKept ==
    ASSUME IInv, NEW t \in Sessions, RecordOutcome(t)
    PROVE  IInv'
<1>1. PICK r : r = sess[t]
  OBVIOUS
<1>2. TypeOK /\ RowsInv /\ SubjectInv(r)
  BY <1>1, Mine
<1>3. r.pc = "outcome" /\ Free(t, r.id) /\ EndSession(t) /\ UNCHANGED <<pay, cn, alloc, applied, misread>>
  BY <1>1 DEF RecordOutcome
<1>4. r.id \in Invoices /\ r.op \in Outcomes
  BY <1>2, <1>3 DEF SubjectInv, Outcomes
<1>5. PICK i \in Invoices : i = r.id
  BY <1>4
<1>6. PICK paid, credit, version :
         paid = PaidOn(i) /\ credit = CreditOn(i) /\ version = inv[i].version + 2
  OBVIOUS
<1>7. inv' = [inv EXCEPT ![i] = Projection(i, paid, credit, r.op, version)]
  BY <1>1, <1>5, <1>6 DEF RecordOutcome
<1>8. paid \in Nat /\ credit \in Nat /\ inv[i].version \in Nat /\ applied \in [Credits -> [Invoices -> Nat]]
  BY <1>2, <1>6, SumTypes, RowTypes DEF TypeOK
<1>9. version \in Nat /\ version > inv[i].version
  BY <1>6, <1>8
<1>10. i \notin misread => paid + credit <= Total[i]
  BY <1>2, <1>6 DEF RowsInv, InvoiceNotOverPaid, ReadRight
<1>11. \A x \in Invoices : CreditOn(x)' = CreditOn(x)
  BY <1>3 DEF CreditOn
<1>12. CreditOn(i)' = credit /\ (\A x \in Invoices \ {i} : CreditOn(x)' = CreditOn(x))
       /\ applied' \in [Credits -> [Invoices -> Nat]] /\ \A c \in Credits : applied'[c] = applied[c]
  BY <1>3, <1>6, <1>8, <1>11
<1> QED
  BY <1>3, <1>4, <1>5, <1>6, <1>7, <1>8, <1>9, <1>10, <1>12, InvoiceWritten

\* What one application adds to the sums.
LEMMA CreditApplied ==
    ASSUME TypeOK, NEW c \in Credits, NEW i \in Invoices, NEW sum \in Nat,
           applied' = [applied EXCEPT ![c][i] = @ + sum]
    PROVE  /\ applied' \in [Credits -> [Invoices -> Nat]]
           /\ \A x \in Credits \ {c} : applied'[x] = applied[x]
           /\ AppliedOf(c)' = AppliedOf(c) + sum
           /\ CreditOn(i)' = CreditOn(i) + sum
           /\ \A x \in Invoices \ {i} : CreditOn(x)' = CreditOn(x)
<1>1. applied \in [Credits -> [Invoices -> Nat]]
  BY DEF TypeOK
<1>2. /\ applied' \in [Credits -> [Invoices -> Nat]]
      /\ \A x \in Credits \ {c} : applied'[x] = applied[x]
      /\ applied'[c] = [applied[c] EXCEPT ![i] = applied[c][i] + sum]
  BY <1>1
<1>3. AppliedOf(c)' = AppliedOf(c) + sum
  <2> DEFINE f == applied[c]
             h == applied'[c]
  <2>1. f \in [Invoices -> Int] /\ h \in [Invoices -> Int] /\ (\A x \in Invoices \ {i} : h[x] = f[x])
        /\ f[i] \in Nat /\ h[i] = f[i] + sum
    BY <1>1, <1>2
  <2> HIDE DEF f, h
  <2>2. SumFunction(h) = SumFunction(f) + (h[i] - f[i]) /\ SumFunction(f) \in Int
    BY <2>1, FiniteTables, SumFunctionUpdate, SumFunctionInt
  <2>3. SumFunction(h) = SumFunction(f) + sum
    BY <2>1, <2>2
  <2> QED
    BY <2>3 DEF f, h, AppliedOf
<1>4. CreditOn(i)' = CreditOn(i) + sum
  <2> DEFINE f == [x \in Credits |-> applied[x][i]]
             h == [x \in Credits |-> applied'[x][i]]
  <2>1. f \in [Credits -> Int] /\ h \in [Credits -> Int] /\ (\A x \in Credits \ {c} : h[x] = f[x])
        /\ f[c] \in Nat /\ h[c] = f[c] + sum
    BY <1>1, <1>2
  <2> HIDE DEF f, h
  <2>2. SumFunction(h) = SumFunction(f) + (h[c] - f[c]) /\ SumFunction(f) \in Int
    BY <2>1, FiniteTables, SumFunctionUpdate, SumFunctionInt
  <2>3. SumFunction(h) = SumFunction(f) + sum
    BY <2>1, <2>2
  <2> QED
    BY <2>3 DEF f, h, CreditOn
<1>5. ASSUME NEW x \in Invoices \ {i}
      PROVE  CreditOn(x)' = CreditOn(x)
  <2>1. \A y \in Credits : applied'[y][x] = applied[y][x]
    BY <1>1, <1>2
  <2>2. [y \in Credits |-> applied'[y][x]] = [y \in Credits |-> applied[y][x]]
    BY <2>1
  <2> QED
    BY <2>2 DEF CreditOn
<1> QED
  BY <1>2, <1>3, <1>4, <1>5

LEMMA ApplyCreditNoteKept ==
    ASSUME IInv, NEW t \in Sessions, ApplyCreditNote(t)
    PROVE  IInv'
<1>1. PICK r : r = sess[t]
  OBVIOUS
<1>2. TypeOK /\ RowsInv /\ SubjectInv(r) /\ CreditInv(t, r) /\ r \in SessionRow
  BY <1>1, Mine
<1>3. /\ r.pc = "apply" /\ EndSession(t) /\ UNCHANGED <<pay, cn, alloc, misread>>
  BY <1>1 DEF ApplyCreditNote
<1>4. PICK c \in Credits, i \in Invoices, sum \in Nat : c = r.id /\ i = r.inv /\ sum = r.sum
  BY <1>2, <1>3, SessionTypes DEF SubjectInv
<1>5. applied' = [applied EXCEPT ![c][i] = @ + sum]
  BY <1>1, <1>4 DEF ApplyCreditNote
<1>6. /\ applied' \in [Credits -> [Invoices -> Nat]]
      /\ \A x \in Credits \ {c} : applied'[x] = applied[x]
      /\ AppliedOf(c)' = AppliedOf(c) + sum
      /\ CreditOn(i)' = CreditOn(i) + sum
      /\ \A x \in Invoices \ {i} : CreditOn(x)' = CreditOn(x)
  BY <1>2, <1>5, CreditApplied
<1>7. /\ lock[c] = t /\ lock[i] = t /\ AppliedOf(c) + sum <= Credit[c]
      /\ i \notin misread => PaidOn(i) + CreditOn(i) + sum <= Total[i]
  BY <1>2, <1>3, <1>4 DEF CreditInv
<1>8. PICK paid, credit, outcome, version :
         /\ paid = PaidOn(i) /\ credit = CreditOn(i) + sum
         /\ outcome = inv[i].outcome /\ version = inv[i].version + 1
  OBVIOUS
<1>9. inv' = [inv EXCEPT ![i] = Projection(i, paid, credit, outcome, version)]
  BY <1>1, <1>4, <1>8 DEF ApplyCreditNote
<1>10. /\ PaidOn(i) \in Nat /\ CreditOn(i) \in Nat /\ inv[i].version \in Nat /\ inv[i].outcome \in Outcomes
       /\ Total[i] \in Nat
  BY <1>2, SumTypes, RowTypes, ConstantsAssumption
<1>11. /\ credit \in Nat /\ outcome \in Outcomes /\ version \in Nat /\ version > inv[i].version
       /\ i \notin misread => paid + credit <= Total[i]
  BY <1>7, <1>8, <1>10
<1>12. Free(t, i) /\ Free(t, c)
  BY <1>7 DEF Free
<1>13. \A x \in Credits : applied'[x] = applied[x] \/ (Free(t, x) /\ AppliedOf(x)' <= Credit[x])
  BY <1>6, <1>7, <1>12
<1> QED
  BY <1>3, <1>6, <1>8, <1>9, <1>11, <1>12, <1>13, InvoiceWritten

LEMMA VoidCreditNoteKept ==
    ASSUME IInv, NEW t \in Sessions, VoidCreditNote(t)
    PROVE  IInv'
<1>1. PICK r : r = sess[t]
  OBVIOUS
<1>2. TypeOK /\ RowsInv /\ SubjectInv(r) /\ r \in SessionRow
  BY <1>1, Mine
<1>3. r.pc = "void_credit" /\ Free(t, r.id) /\ EndSession(t) /\ UNCHANGED <<pay, inv, alloc, applied, misread>>
  BY <1>1 DEF VoidCreditNote
<1>4. PICK c \in Credits : c = r.id
  BY <1>2, <1>3 DEF SubjectInv
<1>5. cn[c].version \in Nat /\ r.sum \in Nat
  BY <1>2, RowTypes, SessionTypes
<1>6. PICK row : row = [status |-> "VOIDED", version |-> cn[c].version + 1, reversal |-> r.sum]
  OBVIOUS
<1>7. row \in CreditRow
  BY <1>5, <1>6 DEF CreditRow
<1>8. cn' = [cn EXCEPT ![c] = row]
  BY <1>1, <1>4, <1>6 DEF VoidCreditNote
<1>9. /\ misread \subseteq Invoices
      /\ pay \in [Payments -> PaymentRow] /\ inv \in [Invoices -> InvoiceRow]
      /\ cn \in [Credits -> CreditRow] /\ alloc \in [Payments -> [Invoices -> Nat]]
      /\ applied \in [Credits -> [Invoices -> Nat]]
  BY <1>2 DEF TypeOK
<1>10. cn' \in [Credits -> CreditRow] /\ \A x \in Credits : cn'[x] = cn[x] \/ Free(t, x)
  BY <1>3, <1>4, <1>7, <1>8, <1>9
<1>11. /\ \A x \in Payments : AllocatedOf(x)' = AllocatedOf(x)
       /\ \A x \in Invoices : PaidOn(x)' = PaidOn(x) /\ CreditOn(x)' = CreditOn(x)
       /\ \A x \in Credits : AppliedOf(x)' = AppliedOf(x)
  BY <1>3 DEF AllocatedOf, PaidOn, CreditOn, AppliedOf
<1>12. (PaymentNotOverAllocated /\ PaymentProjectionTrue /\ VoidedPaymentUnallocated)'
  BY <1>2, <1>3, <1>11
     DEF RowsInv, PaymentNotOverAllocated, PaymentProjectionTrue, VoidedPaymentUnallocated, Versioned
<1>13. (InvoiceNotOverPaid /\ CreditNoteNotOverApplied /\ MisreadNeedsRewind)'
  BY <1>2, <1>3, <1>11
     DEF RowsInv, InvoiceNotOverPaid, CreditNoteNotOverApplied, MisreadNeedsRewind, ReadRight
<1>14. InvoiceProjectionTrue'
  BY <1>2, <1>3, <1>11 DEF RowsInv, InvoiceProjectionTrue, ComputePaymentStatus, ReadRight
<1>15. RowsInv'
  BY <1>12, <1>13, <1>14 DEF RowsInv
<1>16. \A x \in Payments, i \in Invoices : alloc'[x][i] >= alloc[x][i]
  BY <1>3, <1>9
<1> QED
  BY <1>3, <1>9, <1>10, <1>11, <1>15, <1>16, PublishKept

\* What the allocations of one payment add to the sums when they are committed.
LEMMA AllocationsAdded ==
    ASSUME TypeOK, NEW p \in Payments, NEW delta \in Ints,
           \A i \in Invoices : alloc[p][i] + delta[i] >= 0,
           alloc' = [alloc EXCEPT ![p] = [i \in Invoices |-> @[i] + delta[i]]]
    PROVE  /\ alloc' \in [Payments -> [Invoices -> Nat]]
           /\ \A x \in Payments \ {p} : alloc'[x] = alloc[x]
           /\ \A i \in Invoices : alloc'[p][i] = alloc[p][i] + delta[i]
           /\ AllocatedOf(p)' = AllocatedOf(p) + SumFunction(delta)
           /\ \A i \in Invoices : PaidOn(i)' = PaidOn(i) + delta[i]
<1>1. alloc \in [Payments -> [Invoices -> Nat]] /\ \A i \in Invoices : delta[i] \in Int
  BY DEF TypeOK, Ints
<1> DEFINE sum == [i \in Invoices |-> alloc[p][i] + delta[i]]
<1>2. sum \in [Invoices -> Nat] /\ SumFunction(sum) = AllocatedOf(p) + SumFunction(delta)
      /\ \A i \in Invoices : sum[i] = alloc[p][i] + delta[i]
  BY SumWithDelta
<1>3. alloc' = [alloc EXCEPT ![p] = sum]
  BY <1>1
<1> HIDE DEF sum
<1>4. /\ alloc' \in [Payments -> [Invoices -> Nat]]
      /\ \A x \in Payments \ {p} : alloc'[x] = alloc[x]
      /\ alloc'[p] = sum
  BY <1>1, <1>2, <1>3
<1>5. ASSUME NEW i \in Invoices
      PROVE  PaidOn(i)' = PaidOn(i) + delta[i]
  <2> DEFINE f == [x \in Payments |-> alloc[x][i]]
             h == [x \in Payments |-> alloc'[x][i]]
  <2>1. f \in [Payments -> Int] /\ h \in [Payments -> Int] /\ (\A x \in Payments \ {p} : h[x] = f[x])
        /\ f[p] \in Nat /\ h[p] = f[p] + delta[i]
    BY <1>1, <1>2, <1>4
  <2> HIDE DEF f, h
  <2>2. SumFunction(h) = SumFunction(f) + (h[p] - f[p]) /\ SumFunction(f) \in Int
    BY <2>1, FiniteTables, SumFunctionUpdate, SumFunctionInt
  <2>3. SumFunction(h) = SumFunction(f) + delta[i]
    BY <1>1, <2>1, <2>2
  <2> QED
    BY <2>3 DEF f, h, PaidOn
<1> QED
  BY <1>2, <1>4, <1>5 DEF AllocatedOf

LEMMA CommitAllocationsKept ==
    ASSUME IInv, NEW t \in Sessions, CommitAllocations(t)
    PROVE  IInv'
<1>1. PICK r : r = sess[t]
  OBVIOUS
<1>2. /\ TypeOK /\ RowsInv /\ r \in SessionRow /\ SubjectInv(r) /\ InsertedInv(r)
      /\ NewRowsInv(t, r) /\ PaymentInv(t, r)
  BY <1>1, Mine
<1>3. r.pc = "invoices" /\ r.todo = {} /\ EndSession(t) /\ UNCHANGED <<cn, applied>>
  BY <1>1 DEF CommitAllocations
<1>4. PICK p \in Payments, delta \in Ints : p = r.id /\ delta = r.delta /\ p \in DOMAIN r.seen
  BY <1>2, <1>3 DEF SubjectInv, PaymentSteps, Allocating, Inserted, SessionRow
<1>5. alloc' = [alloc EXCEPT ![p] = [i \in Invoices |-> @[i] + delta[i]]]
  BY <1>1, <1>4 DEF CommitAllocations
<1>6. \A i \in Invoices : alloc[p][i] + delta[i] >= 0
  BY <1>2, <1>3, <1>4 DEF InsertedInv, Inserted
<1>7. /\ alloc' \in [Payments -> [Invoices -> Nat]]
      /\ \A x \in Payments \ {p} : alloc'[x] = alloc[x]
      /\ \A i \in Invoices : alloc'[p][i] = alloc[p][i] + delta[i]
      /\ AllocatedOf(p)' = AllocatedOf(p) + SumFunction(delta)
      /\ \A i \in Invoices : PaidOn(i)' = PaidOn(i) + delta[i]
  BY <1>2, <1>5, <1>6, AllocationsAdded
<1>8. /\ \A x \in Payments \ {p} : AllocatedOf(x)' = AllocatedOf(x)
      /\ \A i \in Invoices : CreditOn(i)' = CreditOn(i)
      /\ \A c \in Credits : AppliedOf(c)' = AppliedOf(c)
  BY <1>3, <1>7 DEF AllocatedOf, CreditOn, AppliedOf
<1>9. /\ pay \in [Payments -> PaymentRow] /\ inv \in [Invoices -> InvoiceRow]
      /\ cn \in [Credits -> CreditRow] /\ applied \in [Credits -> [Invoices -> Nat]]
      /\ pay[p] \in PaymentRow /\ pay[p].version \in Nat /\ pay[p].rewound \in BOOLEAN
      /\ r.sum \in Nat /\ r.seen[p] \in Nat
  BY <1>2, <1>4, RowTypes, SessionTypes DEF TypeOK
\* The payment row
<1>10. PICK v, sum, n : v = r.seen[p] + 1 /\ sum = r.sum /\ n = pay[p].batches + 1
  OBVIOUS
<1> DEFINE row == [pay[p] EXCEPT !.version = v, !.allocated = sum, !.batches = n]
<1>11. pay' = [pay EXCEPT ![p] = row]
  BY <1>1, <1>4, <1>9, <1>10 DEF CommitAllocations
<1>12. v \in Nat /\ v > pay[p].version /\ sum \in Nat /\ n \in Nat /\ lock[p] = t /\ Free(t, p)
  <2>1. pay[p].batches \in Nat
    BY <1>9 DEF PaymentRow
  <2> QED
    BY <1>2, <1>3, <1>4, <1>9, <1>10, <2>1 DEF PaymentInv, Free
<1>13. /\ row \in PaymentRow /\ row.version = v /\ row.rewound = pay[p].rewound
       /\ row.allocated = sum /\ row.status = pay[p].status
  BY <1>9, <1>12 DEF PaymentRow
<1> HIDE DEF row
<1>14. pay' \in [Payments -> PaymentRow] /\ \A x \in Payments : pay'[x] = IF x = p THEN row ELSE pay[x]
  BY <1>9, <1>11, <1>13
<1>15. (PaymentNotOverAllocated /\ PaymentProjectionTrue /\ VoidedPaymentUnallocated)'
  <2> SUFFICES ASSUME NEW x \in Payments, ~pay'[x].rewound
               PROVE  /\ AllocatedOf(x)' <= Amount[x] /\ pay'[x].allocated = AllocatedOf(x)'
                      /\ pay'[x].status = "VOIDED" => AllocatedOf(x)' = 0
    BY DEF PaymentNotOverAllocated, PaymentProjectionTrue, VoidedPaymentUnallocated, Versioned
  <2>1. CASE x = p
    <3>1. Fresh(r)
      BY <1>2, <1>3, <1>4, <1>13, <1>14, <2>1 DEF PaymentInv, Fresh
    <3>2. r.sum = AllocatedOf(p) + SumFunction(delta) /\ r.sum <= Amount[p] /\ pay[p].status # "VOIDED"
      BY <1>2, <1>3, <1>4, <3>1 DEF PaymentInv, Allocating, Inserted
    <3> QED
      BY <1>7, <1>10, <1>13, <1>14, <2>1, <3>2
  <2>2. CASE x # p
    <3>1. pay'[x] = pay[x] /\ AllocatedOf(x)' = AllocatedOf(x)
      BY <1>8, <1>14, <2>2
    <3> QED
      BY <1>2, <3>1
         DEF RowsInv, PaymentNotOverAllocated, PaymentProjectionTrue, VoidedPaymentUnallocated, Versioned
  <2> QED
    BY <2>1, <2>2
\* The invoice rows
<1>16. \A x \in Invoices : inv'[x] = IF x \in DOMAIN r.new THEN r.new[x] ELSE inv[x]
  BY <1>1 DEF CommitAllocations
<1>17. inv' \in [Invoices -> InvoiceRow]
  <2>1. \A x \in DOMAIN r.new : r.new[x] \in InvoiceRow
    BY <1>2, SessionTypes
  <2>2. inv' = [x \in Invoices |-> IF x \in DOMAIN r.new THEN r.new[x] ELSE inv[x]]
    BY <1>1 DEF CommitAllocations
  <2> QED
    BY <1>9, <2>1, <2>2
<1>30. /\ misread' \subseteq Invoices /\ misread \subseteq misread'
       /\ \A x \in Invoices : x \notin misread' => Exact(r, x) /\ x \notin misread
       /\ \A x \in Invoices : ~Exact(r, x) => x \in misread'
  <2>1. misread' = misread \cup {x \in Invoices : r.delta[x] # r.target[x] - r.current[x]}
    BY <1>1 DEF CommitAllocations
  <2> QED
    BY <1>2, <2>1 DEF TypeOK, Exact
<1>31. MisreadNeedsRewind'
  <2>1. \A x \in Payments : pay'[x].rewound = pay[x].rewound
    BY <1>13, <1>14
  <2>2. CASE misread # {}
    BY <1>2, <2>1, <2>2 DEF RowsInv, MisreadNeedsRewind
  <2>3. CASE misread = {}
    <3>1. SUFFICES ASSUME misread' # {} PROVE pay[p].rewound
      BY <2>1 DEF MisreadNeedsRewind
    <3>2. PICK x \in Invoices : ~Exact(r, x)
      <4>1. misread' = misread \cup {x \in Invoices : r.delta[x] # r.target[x] - r.current[x]}
        BY <1>1 DEF CommitAllocations
      <4> QED
        BY <2>3, <3>1, <4>1 DEF Exact
    <3>3. ~Fresh(r)
      BY <1>2, <1>3, <3>2 DEF PaymentInv, Inserted
    <3> QED
      BY <1>2, <1>3, <1>4, <1>9, <3>3 DEF PaymentInv, Fresh
  <2> QED
    BY <2>2, <2>3
<1>18. ASSUME NEW x \in Invoices, x \notin misread'
       PROVE  /\ PaidOn(x)' + CreditOn(x)' <= Total[x]
              /\ inv'[x].paid = PaidOn(x)'
              /\ inv'[x].status = ComputePaymentStatus(x, PaidOn(x)', CreditOn(x)', inv'[x].outcome)
  <2>0. /\ PaidOn(x) \in Nat /\ CreditOn(x) \in Nat /\ inv[x].outcome \in Outcomes
        /\ inv[x].version \in Nat /\ delta[x] \in Int /\ Total[x] \in Nat
    BY <1>2, SumTypes, RowTypes, ConstantsAssumption DEF Ints
  <2>1. CASE x \in DOMAIN r.new
    <3>1. PICK paid, credit : paid = PaidOn(x)' /\ credit = CreditOn(x)'
      OBVIOUS
    <3>2. paid = PaidOn(x) + delta[x] /\ credit = CreditOn(x)
      BY <1>7, <1>8, <3>1
    <3>3. /\ lock[x] = t /\ PaidOn(x) + CreditOn(x) + delta[x] <= Total[x]
          /\ r.new[x] = Projection(x, paid, credit, inv[x].outcome, inv[x].version + 1)
      BY <1>2, <1>4, <1>18, <1>30, <2>1, <3>2 DEF NewRowsInv
    <3>4. paid \in Nat /\ credit \in Nat /\ inv[x].version + 1 \in Nat /\ paid + credit <= Total[x]
      <4>1. alloc[p][x] <= PaidOn(x) /\ alloc[p][x] \in Nat /\ alloc[p][x] + delta[x] >= 0
        BY <1>2, <1>6, PaidAtLeast, RowTypes
      <4> QED
        BY <2>0, <3>2, <3>3, <4>1
    <3>5. /\ inv'[x].version = inv[x].version + 1 /\ inv'[x].outcome = inv[x].outcome
          /\ inv'[x].paid = paid
          /\ inv'[x].status = ComputePaymentStatus(x, paid, credit, inv[x].outcome)
      <4>1. PICK outcome \in Outcomes, version \in Nat :
               outcome = inv[x].outcome /\ version = inv[x].version + 1
        BY <2>0, <3>4
      <4>2. inv'[x] = Projection(x, paid, credit, outcome, version)
        BY <1>16, <2>1, <3>3, <4>1
      <4>3. /\ inv'[x].version = version /\ inv'[x].outcome = outcome /\ inv'[x].paid = paid
            /\ inv'[x].status = ComputePaymentStatus(x, paid, credit, outcome)
        BY <3>4, <4>2, ProjectionType
      <4> QED
        BY <4>1, <4>3
    <3> QED
      BY <3>1, <3>4, <3>5 DEF ComputePaymentStatus
  <2>2. CASE x \notin DOMAIN r.new
    <3>1. delta[x] = 0
      BY <1>2, <1>3, <1>4, <1>18, <1>30, <2>2 DEF InsertedInv, Inserted
    <3>2. inv'[x] = inv[x] /\ PaidOn(x)' = PaidOn(x) /\ CreditOn(x)' = CreditOn(x)
      BY <1>7, <1>8, <1>16, <2>0, <2>2, <3>1
    <3>3. /\ inv[x].paid = PaidOn(x) /\ PaidOn(x) + CreditOn(x) <= Total[x]
          /\ inv[x].status = ComputePaymentStatus(x, PaidOn(x), CreditOn(x), inv[x].outcome)
      BY <1>2, <1>18, <1>30 DEF RowsInv, InvoiceProjectionTrue, InvoiceNotOverPaid, ReadRight
    <3> QED
      BY <3>2, <3>3 DEF ComputePaymentStatus
  <2> QED
    BY <2>1, <2>2
<1>32. ASSUME NEW x \in Invoices
       PROVE  \/ inv'[x] = inv[x] /\ PaidOn(x)' = PaidOn(x) /\ CreditOn(x)' = CreditOn(x)
              \/ Free(t, x) /\ inv'[x].version > inv[x].version
              \/ x \in misread' /\ inv'[x] = inv[x]
  <2>0. PaidOn(x) \in Nat /\ inv[x].version \in Nat /\ delta[x] \in Int
    BY <1>2, SumTypes, RowTypes DEF Ints
  <2>1. CASE x \in DOMAIN r.new
    <3>1. lock[x] = t /\ inv'[x].version = inv[x].version + 1
      BY <1>2, <1>16, <2>1 DEF NewRowsInv
    <3> QED
      BY <2>0, <3>1 DEF Free
  <2>2. CASE x \notin DOMAIN r.new
    <3>1. inv'[x] = inv[x] /\ (x \notin misread' => delta[x] = 0)
      BY <1>2, <1>3, <1>4, <1>16, <1>30, <2>2 DEF InsertedInv, Inserted
    <3> QED
      BY <1>7, <1>8, <2>0, <3>1
  <2> QED
    BY <2>1, <2>2
<1>19. InvoiceNotOverPaid'
  BY <1>18 DEF InvoiceNotOverPaid, ReadRight
<1>20. InvoiceProjectionTrue'
  BY <1>18 DEF InvoiceProjectionTrue, ComputePaymentStatus, ReadRight
<1>21. CreditNoteNotOverApplied'
  BY <1>2, <1>8 DEF RowsInv, CreditNoteNotOverApplied
<1>22. RowsInv'
  BY <1>15, <1>19, <1>20, <1>21, <1>31 DEF RowsInv
\* What the other sessions see of it
<1>23. \A x \in Payments :
          \/ pay'[x] = pay[x] /\ alloc'[x] = alloc[x]
          \/ Free(t, x) /\ (pay'[x].rewound \/ (~pay[x].rewound /\ pay'[x].version > pay[x].version))
  BY <1>7, <1>9, <1>12, <1>13, <1>14
<1>24. \A x \in Payments : \/ \A i \in Invoices : alloc'[x][i] >= alloc[x][i]
                           \/ Replacing(sess[t], x)
  <2>1. \A x \in Payments, i \in Invoices : alloc[x][i] \in Nat
    BY <1>2, RowTypes
  <2>2. CASE r.op = "ADD"
    <3>1. \A i \in Invoices : delta[i] >= 0 /\ delta[i] \in Int
      BY <1>2, <1>3, <1>4, <2>2 DEF InsertedInv, Inserted, Ints
    <3>2. \A i \in Invoices : alloc'[p][i] >= alloc[p][i]
      BY <1>7, <2>1, <3>1
    <3>3. \A x \in Payments \ {p} : \A i \in Invoices : alloc'[x][i] >= alloc[x][i]
      BY <1>7, <2>1
    <3> QED
      BY <3>2, <3>3
  <2>3. CASE r.op = "REPLACE"
    <3>1. Replacing(sess[t], p)
      BY <1>1, <1>3, <1>4, <2>3 DEF Replacing, Inserted
    <3>2. \A x \in Payments \ {p} : \A i \in Invoices : alloc'[x][i] >= alloc[x][i]
      BY <1>7, <2>1
    <3> QED
      BY <3>1, <3>2
  <2> QED
    BY <1>2, <1>3, <2>2, <2>3 DEF SubjectInv, Allocating, Inserted
<1>25. /\ cn' \in [Credits -> CreditRow] /\ applied' \in [Credits -> [Invoices -> Nat]]
       /\ \A c \in Credits : cn'[c] = cn[c] /\ applied'[c] = applied[c]
  BY <1>3, <1>9
<1> QED
  BY <1>3, <1>7, <1>14, <1>17, <1>22, <1>23, <1>24, <1>25, <1>30, <1>32, PublishKept

-----------------------------------------------------------------------------
(* The invariant, and what follows from it *)

LEMMA NextInv == IInv /\ [Next]_vars => IInv'
<1> SUFFICES ASSUME IInv, [Next]_vars PROVE IInv'
  OBVIOUS
<1>1. ASSUME NEW t \in Sessions, Begin(t) PROVE IInv'
  BY <1>1, StartAnyAllocationKept, StartEditKept, StartOutcomeKept, LockCreditNoteKept,
     StartVoidCreditNoteKept DEF Begin
<1>2. ASSUME NEW t \in Sessions, Allocate(t) PROVE IInv'
  BY <1>2, ReadRemovedKept, ReadCurrentKept, ReadInvoicesKept, CheckTotalsKept,
     InsertAllocationsKept, AwaitDeleteKept, ReplaceAllocationsKept, SumAllocatedKept,
     UpdatePaymentKept, RecomputeInvoiceKept, CommitAllocationsKept DEF Allocate
<1>3. ASSUME NEW t \in Sessions, Finish(t) PROVE IInv'
  BY <1>3, EditPaymentKept, CheckUnallocatedKept, VoidPaymentKept, ApplyWebhookKept, RecordOutcomeKept,
     LockCreditedInvoiceKept, ApplyCreditNoteKept, ReadAppliedKept, VoidCreditNoteKept DEF Finish
<1>4. CASE UNCHANGED vars
  <2>1. UNCHANGED data /\ UNCHANGED lock /\ UNCHANGED sess /\ UNCHANGED started
    BY <1>4 DEF vars, data
  <2>2. TypeOK' /\ RowsInv'
    BY <2>1, QuietRows DEF IInv, TypeOK
  <2>3. SessTypeOK' /\ ReplaceInv'
    BY <2>1 DEF IInv, SessTypeOK, ReplaceInv
  <2>4. ASSUME NEW s \in Sessions
        PROVE  SessInv(s, sess[s])'
    <3>1. PICK r : r = sess[s]
      OBVIOUS
    <3>2. r \in SessionRow /\ SessInv(s, r) /\ TypeOK
      BY <3>1 DEF IInv, SessTypeOK
    <3>3. Respects(s, r)
      BY <2>1, <3>2, QuietRespects DEF SessInv
    <3>4. SessInv(s, r)'
      BY <2>2, <3>2, <3>3, StillRelies
    <3> QED
      BY <2>1, <3>1, <3>4, SessNext
  <2> QED
    BY <2>2, <2>3, <2>4 DEF IInv
<1> QED
  BY <1>1, <1>2, <1>3, <1>4, RollbackKept DEF Next

LEMMA Invariant == Spec => []IInv
BY InitInv, NextInv, PTL DEF Spec

\* add_or_revise_allocations, replace_allocations: however the requests
\* interleave, the allocations of a payment stay within its amount, for any
\* number of sessions, payments and invoices -- unless a webhook has set the
\* payment's version back.
THEOREM PaymentKept == Spec => []PaymentNotOverAllocated
<1>1. IInv => PaymentNotOverAllocated
  BY DEF IInv, RowsInv
<1> QED
  BY <1>1, Invariant, PTL

\* allocated_amount on the row of such a payment, written by the last request
\* that changed its allocations, is their sum.
THEOREM PaymentProjected == Spec => []PaymentProjectionTrue
<1>1. IInv => PaymentProjectionTrue
  BY DEF IInv, RowsInv
<1> QED
  BY <1>1, Invariant, PTL

\* void_payment: a voided payment has no allocations, although the check and
\* the UPDATE are separate statements and nothing locks the payment between.
THEOREM VoidedIsEmpty == Spec => []VoidedPaymentUnallocated
<1>1. IInv => VoidedPaymentUnallocated
  BY DEF IInv, RowsInv
<1> QED
  BY <1>1, Invariant, PTL

\* replace_allocations deletes allocations three reads after it has read
\* them.  As long as no webhook has set a version back, what it deletes is
\* what it has read: the versioned UPDATE of the payment sees to that, also
\* for a DELETE that waited for another one.
THEOREM MisreadOnlyAfterRewind == Spec => []MisreadNeedsRewind
<1>1. IInv => MisreadNeedsRewind
  BY DEF IInv, RowsInv
<1> QED
  BY <1>1, Invariant, PTL

\* Allocations, which guard an invoice by its version, and credit
\* applications, which lock it, never settle more than its total together,
\* on every invoice from which no replacement removed other rows than the
\* ones it had read.
THEOREM InvoiceKept == Spec => []InvoiceNotOverPaid
<1>1. IInv => InvoiceNotOverPaid
  BY DEF IInv, RowsInv
<1> QED
  BY <1>1, Invariant, PTL

\* _recompute_invoice_projection: paid_amount and payment_status of every
\* such invoice are what its allocations, credit applications and outcome say.
THEOREM InvoiceProjected == Spec => []InvoiceProjectionTrue
<1>1. IInv => InvoiceProjectionTrue
  BY DEF IInv, RowsInv
<1> QED
  BY <1>1, Invariant, PTL

\* apply_credit_note_auto: the applications of a credit note stay within its
\* total_credit_amount.
THEOREM CreditNoteKept == Spec => []CreditNoteNotOverApplied
<1>1. IInv => CreditNoteNotOverApplied
  BY DEF IInv, RowsInv
<1> QED
  BY <1>1, Invariant, PTL

\* void_credit_note against apply_credit_note_auto: no step applies anything
\* from a voided credit note, also not of a request that found it ISSUED.
THEOREM VoidedStaysFrozen == Spec => VoidedCreditNoteFrozen
<1> DEFINE Frozen == \A c \in Credits : cn[c].status = "VOIDED" => applied'[c] = applied[c]
<1>1. ASSUME IInv, NEW t \in Sessions, ApplyCreditNote(t), NEW c \in Credits, cn[c].status = "VOIDED"
      PROVE  applied'[c] = applied[c]
  <2>1. sess[t].pc = "apply" /\ CreditInv(t, sess[t]) /\ SubjectInv(sess[t]) /\ TypeOK
    BY <1>1, Mine DEF ApplyCreditNote
  <2>2. sess[t].id \in Credits /\ cn[sess[t].id].status = "ISSUED"
    BY <2>1 DEF CreditInv, SubjectInv
  <2>3. c # sess[t].id
    BY <1>1, <2>2
  <2>4. applied \in [Credits -> [Invoices -> Nat]]
    BY <2>1 DEF TypeOK
  <2> QED
    BY <1>1, <2>3, <2>4 DEF ApplyCreditNote
<1>2. ASSUME IInv, [Next]_vars
      PROVE  [Frozen]_vars
  <2>1. ASSUME NEW t \in Sessions, Begin(t) PROVE UNCHANGED applied
    BY <2>1 DEF Begin, StartAddOrRevise, StartReplace, StartRemove, StartAllocation, StartEdit,
                StartVoidPayment, StartWebhook, StartOutcome, LockCreditNote, StartVoidCreditNote,
                Start, data
  <2>2. ASSUME NEW t \in Sessions, Allocate(t) PROVE UNCHANGED applied
    BY <2>2 DEF Allocate, ReadRemoved, ReadCurrent, ReadInvoices, CheckTotals, InsertAllocations,
                AwaitDelete, ReplaceAllocations, SumAllocated, UpdatePayment, RecomputeInvoice,
                CommitAllocations, Continue, data
  <2>3. ASSUME NEW t \in Sessions, Finish(t) PROVE UNCHANGED applied \/ ApplyCreditNote(t)
    BY <2>3 DEF Finish, EditPayment, CheckUnallocated, VoidPayment, ApplyWebhook, RecordOutcome,
                LockCreditedInvoice, ReadApplied, VoidCreditNote, Continue, data
  <2>4. ASSUME NEW t \in Sessions, Rollback(t) PROVE UNCHANGED applied
    BY <2>4 DEF Rollback, data
  <2>5. ASSUME NEW t \in Sessions, ApplyCreditNote(t) PROVE Frozen
    BY <1>1, <1>2, <2>5
  <2> QED
    BY <1>2, <2>1, <2>2, <2>3, <2>4, <2>5 DEF Next, vars
<1>3. Spec => [][Frozen]_vars
  BY <1>2, Invariant, PTL DEF Spec
<1> QED
  BY <1>3, PTL DEF VoidedCreditNoteFrozen
=============================================================================

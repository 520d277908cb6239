----------------------------- MODULE OrderProofs -----------------------------
(***************************************************************************)
(* Proofs about OrderPlacement, for every number of requests, repayments,  *)
(* handlers and disputes, every amount and all limits; and about Orders,   *)
(* the life of an order after it is placed.                                *)
(***************************************************************************)
EXTENDS OrderPlacement, Orders, FiniteSetTheorems, TLAPS

OrderRow == [method : Methods, draft : BOOLEAN, invoice : {"SENT", "DRAFT"},
             payment : {"DEPOSITED", None},
             gateway : Settlements \cup {"SUBMITTED", None},
             dispute : DisputeKinds \cup {None}]

RequestState == [at : {"new", "charge", "commit", "done", "failed"}, method : Methods,
                 draft : BOOLEAN]

HookState == [n : Notification, at : {"insert", "apply"}]

\* What the tables, the requests and the handlers hold.
TypeOK ==
    /\ wallet \in [exists : {TRUE}, status : {"ACTIVE", "ON_HOLD"}, limit : Limits, used : Nat]
    /\ applied \subseteq Requests \cup Repayments
    /\ DOMAIN order \subseteq Requests
    /\ order \in [DOMAIN order -> OrderRow]
    /\ req \in [Requests -> RequestState]
    /\ charge \subseteq Requests
    /\ lost \subseteq Requests
    /\ seen \subseteq Notification
    /\ hook \in [Hooks -> HookState \cup {None}]
    /\ history \in [Notification -> Nat]

\* The order of a request exists from its commit on, with its method.
OrderInv ==
    \A r \in Requests :
        /\ r \in DOMAIN order <=> req[r].at = "done"
        /\ r \in DOMAIN order => order[r].method = req[r].method

\* A request by card is charged before it commits; a request that is over
\* leaves its sale to the order, or to `lost'.
SaleInv ==
    \A r \in Requests :
        /\ r \in charge => /\ req[r].method = "CARD"
                           /\ req[r].at \in {"commit", "done", "failed"}
                           /\ req[r].at = "failed" => r \in lost
        /\ req[r].at = "charge" => req[r].method = "CARD"
        /\ req[r].method = "CARD" /\ req[r].at \in {"commit", "done"} => r \in charge
        /\ r \in lost => req[r].at = "failed"

\* The keys of the wallet's ledger are the orders on credit and repayments.
KeyInv ==
    /\ IsFiniteSet(applied)
    /\ applied \cap Requests = OrdersBy("CREDIT_ACCOUNT")
    /\ wallet.used = Amount * (Cardinality(applied \cap Requests)
                                  - Cardinality(applied \cap Repayments))

\* A handler past its insert holds the unique keys of its notification.
UniqueInv ==
    \A h \in Hooks : hook[h] # None /\ hook[h].at = "apply" =>
        /\ \A m \in seen : ~Collide(m, hook[h].n)
        /\ \A g \in Hooks \ {h} : hook[g] # None /\ hook[g].at = "apply"
                                    => ~Collide(hook[g].n, hook[h].n)

\* Notifications are about requests that are over, and agree with each other.
NewsInv ==
    /\ \A n \in seen \cup InFlight : req[n.charge].at \in {"done", "failed"}
    /\ \A n, m \in seen \cup InFlight : Consistent(n, m)

\* What was counted has been recorded, and only once.
CountInv == \A n \in Notification : history[n] = 0 \/ (history[n] = 1 /\ n \in seen)

\* A payment by card shows the settlement recorded for its sale, if any.
GatewayInv ==
    \A r \in OrdersBy("CARD") :
        /\ \A n \in seen : n.charge = r /\ n.dispute = None => order[r].gateway = n.kind
        /\ (\A n \in seen : ~(n.charge = r /\ n.dispute = None)) => order[r].gateway = "SUBMITTED"

IInv == TypeOK /\ OrderInv /\ SaleInv /\ KeyInv /\ UniqueInv /\ NewsInv /\ CountInv /\ GatewayInv

-----------------------------------------------------------------------------
LEMMA InitIInv == Init => IInv
<1> SUFFICES ASSUME Init PROVE IInv
  OBVIOUS
<1> USE OrderPlacementAssumption
<1>0. DOMAIN order = {} /\ InFlight = {} /\ OrdersBy("CARD") = {} /\ OrdersBy("CREDIT_ACCOUNT") = {}
  BY DEF Init, InFlight, OrdersBy
<1>1. TypeOK
  <2>1. order \in [DOMAIN order -> OrderRow]
    BY <1>0 DEF Init
  <2>2. req \in [Requests -> RequestState]
    BY DEF Init, NotStarted, RequestState, Methods
  <2>3. wallet \in [exists : {TRUE}, status : {"ACTIVE", "ON_HOLD"}, limit : Limits, used : Nat]
    <3>1. PICK l \in Limits : wallet = [exists |-> TRUE, status |-> "ACTIVE", limit |-> l, used |-> 0]
      BY DEF Init
    <3> QED
      BY <3>1
  <2> QED
    BY <1>0, <2>1, <2>2, <2>3 DEF Init, TypeOK
<1>2. OrderInv /\ SaleInv
  BY <1>0 DEF Init, OrderInv, SaleInv, NotStarted
<1>3. KeyInv
  <2>1. IsFiniteSet({}) /\ Cardinality({}) = 0
    BY FS_EmptySet
  <2>2. applied = {} /\ applied \cap Requests = {} /\ applied \cap Repayments = {} /\ wallet.used = 0
    BY DEF Init
  <2> QED
    BY <1>0, <2>1, <2>2 DEF KeyInv
<1>4. UniqueInv /\ NewsInv /\ CountInv /\ GatewayInv
  BY <1>0 DEF Init, UniqueInv, NewsInv, CountInv, GatewayInv
<1> QED
  BY <1>1, <1>2, <1>3, <1>4 DEF IInv

\* Collisions and contradictions between notifications are mutual.
LEMMA NotificationSymmetry ==
    ASSUME NEW n, NEW m
    PROVE  Collide(n, m) = Collide(m, n) /\ Consistent(n, m) = Consistent(m, n)
           /\ Collide(n, n) /\ Consistent(n, n)
BY DEF Collide, Consistent

\* Every notification is about the sale of a request.
LEMMA NewsTyped ==
    ASSUME TypeOK
    PROVE  /\ seen \cup InFlight \subseteq Notification
           /\ \A n \in Notification : n.charge \in Requests
<1>1. \A n \in Notification : n.charge \in Requests
  BY DEF Notification
<1>2. InFlight \subseteq Notification
  BY DEF TypeOK, InFlight, HookState
<1> QED
  BY <1>1, <1>2 DEF TypeOK

\* News stays news while no request is reopened and no handler starts.
LEMMA NewsKept ==
    ASSUME TypeOK, NewsInv, (seen \cup InFlight)' \subseteq seen \cup InFlight,
           \A r \in Requests : req[r].at \in {"done", "failed"} => req'[r] = req[r]
    PROVE  NewsInv'
<1>1. \A n \in (seen \cup InFlight)' : req'[n.charge].at \in {"done", "failed"}
  BY NewsTyped DEF NewsInv
<1>2. \A n, m \in (seen \cup InFlight)' : Consistent(n, m)
  BY DEF NewsInv
<1> QED
  BY <1>1, <1>2 DEF NewsInv, Consistent

-----------------------------------------------------------------------------
(* Requests *)

LEMMA BeginIInv ==
    ASSUME IInv, NEW r \in Requests, NEW m \in Methods, NEW d \in BOOLEAN, Begin(r, m, d)
    PROVE  IInv'
<1> USE DEF IInv
<1> DEFINE new == [at |-> IF m = "CARD" THEN "charge" ELSE "commit", method |-> m, draft |-> d]
<1>0. /\ req' = [req EXCEPT ![r] = new] /\ new \in RequestState
      /\ req[r].at = "new"
      /\ UNCHANGED <<wallet, applied, draft, order, charge, lost, seen, hook, history, deliveries>>
  BY DEF Begin, wvars, hvars, RequestState, Methods
<1>1. TypeOK'
  BY <1>0 DEF TypeOK
<1>2. OrderInv'
  BY <1>0 DEF TypeOK, OrderInv
<1>3. SaleInv'
  BY <1>0 DEF TypeOK, SaleInv, Methods
<1>4. KeyInv'
  BY <1>0 DEF KeyInv, OrdersBy
<1>5. UniqueInv'
  BY <1>0 DEF UniqueInv
<1>6. NewsInv'
  BY <1>0, NewsKept DEF TypeOK, InFlight
<1>7. CountInv' /\ GatewayInv'
  BY <1>0 DEF CountInv, GatewayInv, OrdersBy
<1> QED
  BY <1>1, <1>2, <1>3, <1>4, <1>5, <1>6, <1>7

LEMMA ChargeIInv ==
    ASSUME IInv, NEW r \in Requests, Charge(r)
    PROVE  IInv'
<1> USE DEF IInv
<1>0. /\ req' = [req EXCEPT ![r].at = "commit"]
      /\ req[r].at = "charge" /\ charge' = charge \cup {r}
      /\ UNCHANGED <<wallet, applied, draft, order, lost, seen, hook, history, deliveries>>
  BY DEF Charge, Sale, wvars, hvars
<1>1. TypeOK'
  BY <1>0 DEF TypeOK, RequestState
<1>2. OrderInv'
  BY <1>0 DEF TypeOK, RequestState, OrderInv
<1>3. SaleInv'
  BY <1>0 DEF TypeOK, RequestState, SaleInv
<1>4. KeyInv'
  BY <1>0 DEF KeyInv, OrdersBy
<1>5. UniqueInv'
  BY <1>0 DEF UniqueInv
<1>6. NewsInv'
  BY <1>0, NewsKept DEF TypeOK, InFlight
<1>7. CountInv' /\ GatewayInv'
  BY <1>0 DEF CountInv, GatewayInv, OrdersBy
<1> QED
  BY <1>1, <1>2, <1>3, <1>4, <1>5, <1>6, <1>7

LEMMA RollbackIInv ==
    ASSUME IInv, NEW r \in Requests, Rollback(r)
    PROVE  IInv'
<1> USE DEF IInv
<1>0. /\ req' = [req EXCEPT ![r].at = "failed"]
      /\ req[r].at \in {"charge", "commit"} /\ lost' = lost \cup (charge \cap {r})
      /\ UNCHANGED <<wallet, applied, draft, order, charge, seen, hook, history, deliveries>>
  BY DEF Rollback, wvars, hvars
<1>1. TypeOK'
  BY <1>0 DEF TypeOK, RequestState
<1>2. OrderInv'
  BY <1>0 DEF TypeOK, RequestState, OrderInv
<1>3. SaleInv'
  BY <1>0 DEF TypeOK, RequestState, SaleInv
<1>4. KeyInv'
  BY <1>0 DEF KeyInv, OrdersBy
<1>5. UniqueInv'
  BY <1>0 DEF UniqueInv
<1>6. NewsInv'
  BY <1>0, NewsKept DEF TypeOK, InFlight
<1>7. CountInv' /\ GatewayInv'
  BY <1>0 DEF CountInv, GatewayInv, OrdersBy
<1> QED
  BY <1>1, <1>2, <1>3, <1>4, <1>5, <1>6, <1>7

\* The order's row, and the sets of orders by method before and after.
LEMMA CommitOrders ==
    ASSUME IInv, NEW r \in Requests, Commit(r)
    PROVE  /\ r \notin DOMAIN order
           /\ DOMAIN order' = DOMAIN order \cup {r}
           /\ \A q \in DOMAIN order : order'[q] = order[q]
           /\ order'[r] = NewOrder(r) /\ NewOrder(r) \in OrderRow
           /\ NewOrder(r).method = req[r].method
           /\ \A m \in Methods :
                 OrdersBy(m)' = OrdersBy(m) \cup IF req[r].method = m THEN {r} ELSE {}
<1>0. req[r] \in RequestState /\ req[r].at = "commit"
  BY DEF IInv, TypeOK, Commit
<1>1. r \notin DOMAIN order
  BY <1>0 DEF IInv, OrderInv
<1>2. order' = [q \in DOMAIN order \cup {r} |-> IF q = r THEN NewOrder(r) ELSE order[q]]
  BY DEF Commit
<1>3. /\ DOMAIN order' = DOMAIN order \cup {r}
      /\ \A q \in DOMAIN order : order'[q] = order[q]
      /\ order'[r] = NewOrder(r)
  BY <1>1, <1>2
<1>4. NewOrder(r) \in OrderRow
  BY <1>0 DEF NewOrder, OrderRow, RequestState, Methods, Settlements, DisputeKinds
<1>5. NewOrder(r).method = req[r].method
  BY <1>0 DEF NewOrder, RequestState, Methods
<1>6. ASSUME NEW m \in Methods
      PROVE  OrdersBy(m)' = OrdersBy(m) \cup IF req[r].method = m THEN {r} ELSE {}
  BY <1>3, <1>5 DEF OrdersBy
<1> QED
  BY <1>1, <1>3, <1>4, <1>5, <1>6

\* A commit on credit consumes the amount of the order under a fresh key.
LEMMA CommitWallet ==
    ASSUME IInv, NEW r \in Requests, Commit(r)
    PROVE  \/ /\ req[r].method = "CREDIT_ACCOUNT"
              /\ r \notin applied /\ applied' = applied \cup {r}
              /\ wallet' = [wallet EXCEPT !.used = wallet.used + Amount]
           \/ /\ req[r].method # "CREDIT_ACCOUNT"
              /\ UNCHANGED <<wallet, applied>>
<1>1. r \notin applied
  BY CommitOrders DEF IInv, KeyInv, OrdersBy
<1>2. CASE req[r].method = "CREDIT_ACCOUNT"
  BY <1>1, <1>2, OrderPlacementAssumption DEF Commit, PayByCredit, ConsumeKey, Ledger!Consume, Ledger!Move
<1>3. CASE req[r].method # "CREDIT_ACCOUNT"
  BY <1>3 DEF Commit, wvars
<1> QED
  BY <1>2, <1>3

LEMMA CommitIInv ==
    ASSUME IInv, NEW r \in Requests, Commit(r)
    PROVE  IInv'
<1>a. /\ r \notin DOMAIN order
      /\ DOMAIN order' = DOMAIN order \cup {r}
      /\ \A q \in DOMAIN order : order'[q] = order[q]
      /\ order'[r] = NewOrder(r) /\ NewOrder(r) \in OrderRow
      /\ NewOrder(r).method = req[r].method
      /\ \A m \in Methods :
            OrdersBy(m)' = OrdersBy(m) \cup IF req[r].method = m THEN {r} ELSE {}
  BY CommitOrders
<1>b. \/ /\ req[r].method = "CREDIT_ACCOUNT"
         /\ r \notin applied /\ applied' = applied \cup {r}
         /\ wallet' = [wallet EXCEPT !.used = wallet.used + Amount]
      \/ /\ req[r].method # "CREDIT_ACCOUNT"
         /\ UNCHANGED <<wallet, applied>>
  BY CommitWallet
<1> USE DEF IInv
<1>0. /\ req' = [req EXCEPT ![r].at = "done"] /\ req[r].at = "commit"
      /\ UNCHANGED <<charge, lost, seen, hook, history, deliveries>>
  BY DEF Commit, hvars
<1>1. TypeOK'
  <2>1. wallet' \in [exists : {TRUE}, status : {"ACTIVE", "ON_HOLD"}, limit : Limits, used : Nat]
    <3>1. wallet.used \in Nat /\ wallet.used + Amount \in Nat
      BY OrderPlacementAssumption DEF TypeOK
    <3> QED
      BY <1>b, <3>1 DEF TypeOK
  <2>2. applied' \subseteq Requests \cup Repayments
    BY <1>b DEF TypeOK
  <2>3. DOMAIN order' \subseteq Requests /\ order' \in [DOMAIN order' -> OrderRow]
    <3>1. order' = [q \in DOMAIN order' |-> order'[q]]
      BY DEF Commit
    <3> QED
      BY <3>1, <1>a DEF TypeOK
  <2>4. req' \in [Requests -> RequestState]
    BY <1>0 DEF TypeOK, RequestState
  <2> QED
    BY <1>0, <2>1, <2>2, <2>3, <2>4 DEF TypeOK
<1>2. OrderInv'
  BY <1>0, <1>a DEF TypeOK, RequestState, OrderInv
<1>3. SaleInv'
  BY <1>0 DEF TypeOK, RequestState, SaleInv
<1>4. KeyInv'
  <2>1. CASE req[r].method # "CREDIT_ACCOUNT"
    BY <2>1, <1>b, <1>a DEF KeyInv, Methods
  <2>2. CASE req[r].method = "CREDIT_ACCOUNT"
    <3>1. /\ r \notin applied /\ applied' = applied \cup {r}
          /\ wallet'.used = wallet.used + Amount
      BY <2>2, <1>b DEF TypeOK
    <3>2. /\ IsFiniteSet(applied') /\ IsFiniteSet(applied \cap Requests)
          /\ IsFiniteSet(applied \cap Repayments)
      BY <3>1, FS_AddElement, FS_Intersection DEF KeyInv
    <3>3. /\ (applied \cap Requests)' = (applied \cap Requests) \cup {r}
          /\ (applied \cap Repayments)' = applied \cap Repayments
      BY <3>1, OrderPlacementAssumption
    <3>4. /\ Cardinality((applied \cap Requests)') = Cardinality(applied \cap Requests) + 1
          /\ Cardinality(applied \cap Requests) \in Nat
          /\ Cardinality(applied \cap Repayments) \in Nat
      BY <3>1, <3>2, <3>3, FS_AddElement, FS_CardinalityType
    <3>5. OrdersBy("CREDIT_ACCOUNT")' = OrdersBy("CREDIT_ACCOUNT") \cup {r}
      BY <2>2, <1>a DEF Methods
    <3>6. wallet'.used = Amount * ((Cardinality(applied \cap Requests) + 1)
                                      - Cardinality(applied \cap Repayments))
      BY <3>1, <3>4, OrderPlacementAssumption DEF KeyInv
    <3> QED
      BY <3>2, <3>3, <3>4, <3>5, <3>6 DEF KeyInv
  <2> QED
    BY <2>1, <2>2
<1>5. UniqueInv'
  BY <1>0 DEF UniqueInv
<1>6. NewsInv'
  BY <1>0, NewsKept DEF TypeOK, InFlight
<1>7. CountInv'
  BY <1>0 DEF CountInv
<1>8. GatewayInv'
  <2> SUFFICES ASSUME NEW q \in OrdersBy("CARD")'
               PROVE  /\ \A n \in seen : n.charge = q /\ n.dispute = None => order'[q].gateway = n.kind
                      /\ (\A n \in seen : ~(n.charge = q /\ n.dispute = None))
                            => order'[q].gateway = "SUBMITTED"
    BY <1>0 DEF GatewayInv
  <2>1. CASE q # r
    BY <2>1, <1>a DEF GatewayInv, OrdersBy
  <2>2. CASE q = r
    <3>1. \A n \in seen : n.charge # r
      BY <1>0 DEF NewsInv
    <3>2. order'[r].gateway = "SUBMITTED"
      BY <2>2, <1>a DEF OrdersBy, NewOrder, Methods
    <3> QED
      BY <2>2, <3>1, <3>2
  <2> QED
    BY <2>1, <2>2
<1> QED
  BY <1>1, <1>2, <1>3, <1>4, <1>5, <1>6, <1>7, <1>8

\* Repayments take the amount back under a fresh key; limits and statuses
\* move nothing.
LEMMA OtherWalletUseIInv ==
    ASSUME IInv, OtherWalletUse
    PROVE  IInv'
<1> USE DEF IInv
<1>0. UNCHANGED <<draft, order, req, charge, lost, seen, hook, history, deliveries>>
  BY DEF OtherWalletUse, pvars, hvars
<1>1. OrderInv' /\ SaleInv' /\ UniqueInv' /\ CountInv'
  BY <1>0 DEF OrderInv, SaleInv, UniqueInv, CountInv
<1>2. NewsInv' /\ GatewayInv'
  BY <1>0, NewsKept DEF InFlight, GatewayInv, OrdersBy
<1>3. ASSUME wallet' \in [exists : {TRUE}, status : {"ACTIVE", "ON_HOLD"}, limit : Limits, used : Nat],
             applied' \subseteq Requests \cup Repayments
      PROVE  TypeOK'
  BY <1>0, <1>3 DEF TypeOK
<1>4. ASSUME NEW k \in Repayments, Ledger!Repay(k, Amount)
      PROVE  TypeOK' /\ KeyInv'
  <2>1. /\ k \notin applied /\ applied' = applied \cup {k}
        /\ wallet' = [wallet EXCEPT !.used = wallet.used + (-Amount)]
        /\ wallet.used + (-Amount) >= 0
    BY <1>4, OrderPlacementAssumption DEF Ledger!Repay, Ledger!Move
  <2>2. wallet.used \in Nat /\ Amount \in Nat /\ wallet'.used = wallet.used - Amount /\ wallet'.used \in Nat
    BY <2>1, OrderPlacementAssumption DEF TypeOK
  <2>3. TypeOK'
    BY <1>3, <2>1, <2>2 DEF TypeOK
  <2>4. IsFiniteSet(applied') /\ IsFiniteSet(applied \cap Repayments) /\ IsFiniteSet(applied \cap Requests)
    BY <2>1, FS_AddElement, FS_Intersection DEF KeyInv
  <2>5. /\ (applied \cap Requests)' = applied \cap Requests
        /\ (applied \cap Repayments)' = (applied \cap Repayments) \cup {k}
    BY <2>1, OrderPlacementAssumption
  <2>6. /\ Cardinality((applied \cap Repayments)') = Cardinality(applied \cap Repayments) + 1
        /\ Cardinality(applied \cap Requests) \in Nat
        /\ Cardinality(applied \cap Repayments) \in Nat
    BY <2>1, <2>4, <2>5, FS_AddElement, FS_CardinalityType
  <2>7. wallet'.used = Amount * (Cardinality(applied \cap Requests)
                                    - (Cardinality(applied \cap Repayments) + 1))
    BY <2>2, <2>6 DEF KeyInv
  <2>8. KeyInv'
    BY <1>0, <2>4, <2>5, <2>6, <2>7 DEF KeyInv, OrdersBy
  <2> QED
    BY <2>3, <2>8
<1>5. ASSUME NEW l \in Limits, Ledger!SetLimit(l)
      PROVE  TypeOK' /\ KeyInv'
  <2>1. wallet' = [wallet EXCEPT !.limit = l] /\ applied' = applied
    BY <1>5 DEF Ledger!SetLimit
  <2> QED
    BY <1>0, <1>3, <2>1 DEF TypeOK, KeyInv, OrdersBy
<1>6. ASSUME NEW to \in {"ACTIVE", "ON_HOLD"}, Ledger!SetStatus(None, to)
      PROVE  TypeOK' /\ KeyInv'
  <2>1. wallet' = [wallet EXCEPT !.status = to] /\ applied' = applied
    BY <1>6 DEF Ledger!SetStatus, Ledger!Opened, TypeOK
  <2> QED
    BY <1>0, <1>3, <2>1 DEF TypeOK, KeyInv, OrdersBy
<1>7. TypeOK' /\ KeyInv'
  BY <1>4, <1>5, <1>6 DEF OtherWalletUse
<1> QED
  BY <1>1, <1>2, <1>7

LEMMA DeleteDraftIInv ==
    ASSUME IInv, DeleteDraft
    PROVE  IInv'
<1> USE DEF IInv
<1>0. UNCHANGED <<wallet, applied, order, req, charge, lost, seen, hook, history, deliveries>>
  BY DEF DeleteDraft, wvars, hvars
<1>1. TypeOK' /\ OrderInv' /\ SaleInv' /\ UniqueInv' /\ CountInv'
  BY <1>0 DEF TypeOK, OrderInv, SaleInv, UniqueInv, CountInv
<1>2. NewsInv' /\ GatewayInv' /\ KeyInv'
  BY <1>0, NewsKept DEF InFlight, GatewayInv, KeyInv, OrdersBy
<1> QED
  BY <1>1, <1>2

-----------------------------------------------------------------------------
(* Handlers of notifications *)

\* A handler that changes neither orders nor requests nor the wallet leaves
\* alone what is said about them.
LEMMA HandlerFrame ==
    ASSUME IInv, UNCHANGED <<wallet, applied, draft, order, req, charge, lost>>
    PROVE  OrderInv' /\ SaleInv' /\ KeyInv' /\ OrdersBy("CARD")' = OrdersBy("CARD")
BY DEF IInv, OrderInv, SaleInv, KeyInv, OrdersBy

LEMMA ReceiveIInv ==
    ASSUME IInv, NEW h \in Hooks, NEW n \in Notification, Receive(h, n)
    PROVE  IInv'
<1>0. /\ hook[h] = None
      /\ UNCHANGED <<wallet, applied, draft, order, req, charge, lost, seen, history>>
      /\ hook' = hook \/ hook' = [hook EXCEPT ![h] = [n |-> n, at |-> "insert"]]
      /\ req[n.charge].at \in {"done", "failed"}
      /\ \A m \in seen \cup InFlight : Consistent(n, m)
  BY DEF Receive, wvars, pvars
<1>1. OrderInv' /\ SaleInv' /\ KeyInv'
  BY <1>0, HandlerFrame
<1> USE DEF IInv
<1>2. TypeOK'
  <2>1. hook' \in [Hooks -> HookState \cup {None}]
    BY <1>0 DEF TypeOK, HookState
  <2> QED
    BY <1>0, <2>1 DEF TypeOK
<1>3. UniqueInv'
  BY <1>0 DEF TypeOK, UniqueInv
<1>4. InFlight' \subseteq InFlight \cup {n}
  BY <1>0 DEF TypeOK, InFlight
<1>5. NewsInv'
  <2>1. \A m \in (seen \cup InFlight)' : m \in seen \cup InFlight \/ m = n
    BY <1>0, <1>4
  <2>2. \A m \in (seen \cup InFlight)' : req'[m.charge].at \in {"done", "failed"}
    BY <1>0, <2>1 DEF NewsInv
  <2>3. \A m, k \in (seen \cup InFlight)' : Consistent(m, k)
    BY <1>0, <2>1, NotificationSymmetry DEF NewsInv
  <2> QED
    BY <2>2, <2>3 DEF NewsInv, Consistent
<1>6. CountInv' /\ GatewayInv'
  BY <1>0 DEF CountInv, GatewayInv, OrdersBy
<1> QED
  BY <1>1, <1>2, <1>3, <1>5, <1>6

LEMMA RecordIInv ==
    ASSUME IInv, NEW h \in Hooks, Record(h)
    PROVE  IInv'
<1>0. /\ hook[h] # None
      /\ UNCHANGED <<wallet, applied, draft, order, req, charge, lost, seen, history>>
      /\ \/ hook' = [hook EXCEPT ![h] = None]
         \/ /\ hook' = [hook EXCEPT ![h] = [hook[h] EXCEPT !.at = "apply"]]
            /\ \A m \in seen : ~Collide(m, hook[h].n)
      /\ \A g \in Hooks \ {h} : hook[g] # None /\ hook[g].at = "apply"
                                   => ~Collide(hook[g].n, hook[h].n)
  BY DEF Record, InsertEvent, wvars, pvars, IInv, TypeOK
<1>1. OrderInv' /\ SaleInv' /\ KeyInv'
  BY <1>0, HandlerFrame
<1> USE DEF IInv
<1>t. hook[h] \in HookState
  BY <1>0 DEF TypeOK
<1>2. TypeOK'
  <2>1. hook' \in [Hooks -> HookState \cup {None}]
    BY <1>0, <1>t DEF TypeOK, HookState
  <2> QED
    BY <1>0, <2>1 DEF TypeOK
<1>3. UniqueInv'
  <2>1. CASE hook' = [hook EXCEPT ![h] = None]
    BY <1>0, <2>1 DEF TypeOK, UniqueInv
  <2>2. CASE /\ hook' = [hook EXCEPT ![h] = [hook[h] EXCEPT !.at = "apply"]]
             /\ \A m \in seen : ~Collide(m, hook[h].n)
    <3>1. hook'[h].n = hook[h].n /\ \A g \in Hooks \ {h} : hook'[g] = hook[g]
      BY <1>t, <2>2 DEF TypeOK, HookState
    <3>2. \A m \in seen : ~Collide(m, hook'[h].n)
      BY <2>2, <3>1
    <3>3. ASSUME NEW g \in Hooks \ {h}, hook'[g] # None, hook'[g].at = "apply"
          PROVE  ~Collide(hook'[g].n, hook'[h].n) /\ ~Collide(hook'[h].n, hook'[g].n)
      BY <1>0, <3>1, <3>3, NotificationSymmetry
    <3>4. ASSUME NEW g \in Hooks, hook'[g] # None, hook'[g].at = "apply"
          PROVE  /\ \A m \in seen : ~Collide(m, hook'[g].n)
                 /\ \A k \in Hooks \ {g} : hook'[k] # None /\ hook'[k].at = "apply"
                                             => ~Collide(hook'[k].n, hook'[g].n)
      BY <3>1, <3>2, <3>3, <3>4 DEF UniqueInv
    <3> QED
      BY <1>0, <3>4 DEF UniqueInv, Collide
  <2> QED
    BY <1>0, <2>1, <2>2
<1>4. InFlight' \subseteq InFlight
  BY <1>0, <1>t DEF TypeOK, HookState, InFlight
<1>5. NewsInv'
  BY <1>0, <1>4, NewsKept
<1>6. CountInv' /\ GatewayInv'
  BY <1>0 DEF CountInv, GatewayInv, OrdersBy
<1> QED
  BY <1>1, <1>2, <1>3, <1>5, <1>6

LEMMA AbandonIInv ==
    ASSUME IInv, NEW h \in Hooks, Abandon(h)
    PROVE  IInv'
<1>0. /\ hook' = [hook EXCEPT ![h] = None]
      /\ UNCHANGED <<wallet, applied, draft, order, req, charge, lost, seen, history>>
  BY DEF Abandon, wvars, pvars
<1>1. OrderInv' /\ SaleInv' /\ KeyInv'
  BY <1>0, HandlerFrame
<1> USE DEF IInv
<1>2. TypeOK' /\ UniqueInv'
  BY <1>0 DEF TypeOK, UniqueInv
<1>3. InFlight' \subseteq InFlight
  BY <1>0 DEF TypeOK, InFlight
<1>4. NewsInv'
  BY <1>0, <1>3, NewsKept
<1>5. CountInv' /\ GatewayInv'
  BY <1>0 DEF CountInv, GatewayInv, OrdersBy
<1> QED
  BY <1>1, <1>2, <1>4, <1>5

\* What a notification does to the row of an order.
LEMMA NotifiedRow ==
    ASSUME NEW o \in OrderRow, NEW n \in Notification
    PROVE  /\ Notified(o, n) \in OrderRow
           /\ Notified(o, n).method = o.method
           /\ n.dispute = None => /\ n.kind \in Settlements
                                  /\ Notified(o, n).gateway = n.kind
           /\ n.dispute # None => Notified(o, n).gateway = o.gateway
<1>1. n.dispute = None => n.kind \in Settlements
  BY OrderPlacementAssumption DEF Notification
<1>2. n.dispute # None => n.kind \in DisputeKinds
  BY DEF Notification
<1>3. CASE n.dispute = None
  BY <1>1, <1>3 DEF Notified, OrderRow
<1>4. CASE n.dispute # None
  BY <1>2, <1>4 DEF Notified, OrderRow
<1> QED
  BY <1>1, <1>3, <1>4

LEMMA ApplyIInv ==
    ASSUME IInv, NEW h \in Hooks, Apply(h)
    PROVE  IInv'
<1> DEFINE n == hook[h].n
           r == n.charge
<1>0. /\ hook[h] # None /\ hook[h].at = "apply"
      /\ order' = IF r \in DOMAIN order THEN [order EXCEPT ![r] = Notified(order[r], n)] ELSE order
      /\ history' = IF r \in DOMAIN order THEN [history EXCEPT ![n] = history[n] + 1] ELSE history
      /\ seen' = seen \cup {n}
      /\ hook' = [hook EXCEPT ![h] = None]
      /\ UNCHANGED <<wallet, applied, draft, req, charge, lost>>
  BY DEF Apply, wvars
<1> USE DEF IInv
<1>t. hook[h] \in HookState /\ n \in Notification /\ n \in InFlight /\ r \in Requests
  <2>1. hook[h] \in HookState
    BY <1>0 DEF TypeOK
  <2>2. n \in Notification /\ n \in InFlight
    BY <1>0, <2>1 DEF HookState, InFlight
  <2> QED
    BY <2>1, <2>2, NewsTyped
<1>u. \A m \in seen : ~Collide(m, n)
  BY <1>0 DEF UniqueInv
<1>v. n \notin seen
  BY <1>u, NotificationSymmetry
<1> HIDE DEF n, r
<1>1. /\ DOMAIN order' = DOMAIN order
      /\ \A q \in DOMAIN order :
            /\ order'[q] \in OrderRow /\ order'[q].method = order[q].method
            /\ q # r => order'[q] = order[q]
            /\ q = r => order'[q] = Notified(order[r], n)
  BY <1>0, <1>t, NotifiedRow DEF TypeOK
<1>2. OrdersBy("CARD")' = OrdersBy("CARD") /\ OrdersBy("CREDIT_ACCOUNT")' = OrdersBy("CREDIT_ACCOUNT")
  BY <1>1 DEF OrdersBy
<1>3. TypeOK'
  <2>1. order' \in [DOMAIN order' -> OrderRow]
    <3>1. order' = [q \in DOMAIN order' |-> order'[q]]
      BY <1>0, <1>1 DEF TypeOK
    <3> QED
      BY <1>1, <3>1
  <2>2. history' \in [Notification -> Nat]
    BY <1>0, <1>t DEF TypeOK
  <2>3. hook' \in [Hooks -> HookState \cup {None}]
    BY <1>0 DEF TypeOK
  <2> QED
    BY <1>0, <1>1, <1>t, <2>1, <2>2, <2>3 DEF TypeOK
<1>4. OrderInv' /\ SaleInv' /\ KeyInv'
  BY <1>0, <1>1, <1>2 DEF OrderInv, SaleInv, KeyInv
<1>5. UniqueInv'
  <2> SUFFICES ASSUME NEW g \in Hooks, hook'[g] # None, hook'[g].at = "apply"
               PROVE  /\ \A m \in seen' : ~Collide(m, hook'[g].n)
                      /\ \A k \in Hooks \ {g} : hook'[k] # None /\ hook'[k].at = "apply"
                                                  => ~Collide(hook'[k].n, hook'[g].n)
    BY DEF UniqueInv, Collide
  <2>1. g # h /\ hook'[g] = hook[g] /\ \A k \in Hooks : hook'[k] # None => hook'[k] = hook[k]
    BY <1>0 DEF TypeOK
  <2>2. ~Collide(n, hook[g].n)
    BY <1>0, <2>1 DEF UniqueInv, n
  <2> QED
    BY <1>0, <2>1, <2>2 DEF UniqueInv
<1>6. NewsInv'
  <2>1. (seen \cup InFlight)' \subseteq seen \cup InFlight
    BY <1>0, <1>t DEF TypeOK, InFlight
  <2> QED
    BY <1>0, <2>1, NewsKept
<1>7. CountInv'
  BY <1>0, <1>t, <1>v DEF CountInv, TypeOK
<1>8. GatewayInv'
  <2> SUFFICES ASSUME NEW q \in OrdersBy("CARD")
               PROVE  /\ \A m \in seen' : m.charge = q /\ m.dispute = None => order'[q].gateway = m.kind
                      /\ (\A m \in seen' : ~(m.charge = q /\ m.dispute = None))
                            => order'[q].gateway = "SUBMITTED"
    BY <1>2 DEF GatewayInv
  <2>q. q \in DOMAIN order
    BY DEF OrdersBy
  <2>1. CASE q # r
    BY <1>0, <1>1, <2>1, <2>q DEF GatewayInv, r
  <2>2. CASE q = r /\ n.dispute # None
    <3>1. order'[q].gateway = order[q].gateway
      BY <1>1, <1>t, <2>2, <2>q, NotifiedRow DEF TypeOK
    <3> QED
      BY <1>0, <2>2, <3>1 DEF GatewayInv
  <2>3. CASE q = r /\ n.dispute = None
    <3>1. order'[q].gateway = n.kind /\ n.kind \in Settlements
      BY <1>1, <1>t, <2>3, <2>q, NotifiedRow DEF TypeOK
    <3>2. ASSUME NEW m \in seen, m.charge = q, m.dispute = None
          PROVE  m.kind = n.kind
      <4>1. m.kind \in Settlements
        BY <3>2, OrderPlacementAssumption DEF TypeOK, Notification
      <4>2. Consistent(n, m)
        BY <1>t DEF NewsInv
      <4> QED
        BY <2>3, <3>1, <3>2, <4>1, <4>2 DEF Consistent, Settlements, r
    <3> QED
      BY <1>0, <2>3, <3>1, <3>2 DEF r
  <2> QED
    BY <2>1, <2>2, <2>3
<1> QED
  BY <1>3, <1>4, <1>5, <1>6, <1>7, <1>8

-----------------------------------------------------------------------------
\* Every step keeps the inductive invariant.
LEMMA NextIInv == IInv /\ [Next]_vars => IInv'
<1> SUFFICES ASSUME IInv, [Next]_vars PROVE IInv'
  OBVIOUS
<1>1. CASE UNCHANGED vars
  <2>0. UNCHANGED <<wallet, applied, draft, order, req, charge, lost, seen, hook, history, deliveries>>
    BY <1>1 DEF vars, wvars, pvars, hvars
  <2>1. TypeOK' /\ OrderInv' /\ SaleInv' /\ UniqueInv' /\ CountInv'
    BY <2>0 DEF IInv, TypeOK, OrderInv, SaleInv, UniqueInv, CountInv
  <2>2. NewsInv' /\ GatewayInv' /\ KeyInv'
    BY <2>0, NewsKept DEF IInv, InFlight, GatewayInv, KeyInv, OrdersBy
  <2> QED
    BY <2>1, <2>2 DEF IInv
<1>2. CASE Next
  BY <1>2, BeginIInv, ChargeIInv, CommitIInv, RollbackIInv, DeleteDraftIInv, OtherWalletUseIInv,
     ReceiveIInv, RecordIInv, ApplyIInv, AbandonIInv DEF Next
<1> QED
  BY <1>1, <1>2

LEMMA Invariance == Spec => []IInv
BY InitIInv, NextIInv, PTL DEF Spec

\* However requests are interleaved, rolled back or submitted twice, the
\* wallet has been charged for exactly the committed orders on credit.
THEOREM WalletPays == Spec => []WalletPaysOrders
<1>1. IInv => WalletPaysOrders
  BY DEF IInv, KeyInv, WalletPaysOrders
<1> QED
  BY <1>1, Invariance, PTL

\* Every order by card has its sale, and every sale its order, its open
\* request, or its rolled back request.
THEOREM SalesMatch == Spec => []SalesMatchOrders
<1>1. IInv => SalesMatchOrders
  BY DEF IInv, TypeOK, OrderInv, SaleInv, OrdersBy, SalesMatchOrders
<1> QED
  BY <1>1, Invariance, PTL

\* The unique indexes and the order of insert and commit make the handler
\* idempotent: no notification changes a payment twice.
THEOREM HandlerIdempotent == Spec => []NotificationAppliedOnce
<1>1. IInv => NotificationAppliedOnce
  BY DEF IInv, CountInv, NotificationAppliedOnce
<1> QED
  BY <1>1, Invariance, PTL

\* A settlement that was recorded has reached the payment of its sale.
THEOREM SettlementIsTold == Spec => []SettlementReachesPayment
<1>1. IInv => SettlementReachesPayment
  <2> SUFFICES ASSUME IInv, NEW r \in OrdersBy("CARD")
               PROVE  order[r].gateway =
                        IF \E n \in seen : n.charge = r /\ n.dispute = None
                        THEN (CHOOSE n \in seen : n.charge = r /\ n.dispute = None).kind
                        ELSE "SUBMITTED"
    BY DEF SettlementReachesPayment
  <2>1. CASE \E n \in seen : n.charge = r /\ n.dispute = None
    <3> DEFINE c == CHOOSE n \in seen : n.charge = r /\ n.dispute = None
    <3>1. c \in seen /\ c.charge = r /\ c.dispute = None
      BY <2>1
    <3>2. order[r].gateway = c.kind
      BY <3>1 DEF IInv, GatewayInv
    <3> QED
      BY <2>1, <3>2
  <2>2. CASE ~\E n \in seen : n.charge = r /\ n.dispute = None
    BY <2>2 DEF IInv, GatewayInv
  <2> QED
    BY <2>1, <2>2
<1> QED
  BY <1>1, Invariance, PTL

-----------------------------------------------------------------------------
(* Orders, for every number of sessions, packages, stops and requests and  *)
(* every assignment of packages to stops.  First what a request is and     *)
(* what a transaction holds.                                               *)

Phases == {"idle", "list", "loaded", "cancelled", "packages_done", "stop_derived", "stops_done",
           "order_derived"}

Derived == {"stop_derived", "stops_done", "order_derived"}

AnyRequest == OrderRequests \cup DriverRequests

PackageRows == UNION {[D -> PackageStatus] : D \in SUBSET Packages}
StopRows == UNION {[D -> StopRow] : D \in SUBSET Stops}
StopWrites == UNION {[D -> StopColumnValues] : D \in SUBSET Stops}

TransactionRow ==
    [phase : Phases, req : AnyRequest \cup {Null}, pkgs : PackageRows, stops : StopRows,
     order : OrderStatus \cup {Null}, pw : PackageRows, sw : StopWrites,
     ow : OrderStatus \cup {Null}]

TablesInv ==
    /\ pkg \in [Packages -> PackageStatus]
    /\ stop \in [Stops -> StopRow]
    /\ orderStatus \in OrderStatus
    /\ sess \in [Sessions -> TransactionRow]

DriverKinds == {"pickup_scan", "master_label", "deliver", "return_leg", "missing"}

\* What the requests name and carry.
RequestOK(r) ==
    /\ r.on \subseteq Packages
    /\ r.level # "order" => \A p, q \in r.on : StopOf[p] = StopOf[q]
    /\ r.kind = "resolve" => r.arg \in ReturnResolution
    /\ r.kind \in DriverKinds =>
          r.arg \in PackageStatus \ (RETURN_IN_TRANSIT_STATUSES \cup {"CANCELLED"})

\* A request by its parts.
LEMMA RequestParts ==
    ASSUME NEW k, NEW l, NEW o \in SUBSET Packages, NEW a,
           l # "order" => \A p, q \in o : StopOf[p] = StopOf[q],
           k = "resolve" => a \in ReturnResolution,
           k \in DriverKinds => a \in PackageStatus \ (RETURN_IN_TRANSIT_STATUSES \cup {"CANCELLED"})
    PROVE  RequestOK(Request(k, l, o, a))
BY DEF Request, RequestOK

LEMMA OneStopOfStop ==
    ASSUME NEW t, NEW o \in SUBSET PackagesOf(t)
    PROVE  o \in SUBSET Packages /\ \A p, q \in o : StopOf[p] = StopOf[q]
BY DEF PackagesOf

LEMMA OneStopOfPackage ==
    ASSUME NEW p \in Packages
    PROVE  {p} \in SUBSET Packages /\ \A q, r \in {p} : StopOf[q] = StopOf[r]
OBVIOUS

\* The arguments a kind of request may carry.
ArgsOK(k, A) ==
    /\ k = "resolve" => A \subseteq ReturnResolution
    /\ k \in DriverKinds => A \subseteq PackageStatus \ (RETURN_IN_TRANSIT_STATUSES \cup {"CANCELLED"})

LEMMA StopRequestOK ==
    ASSUME NEW k, NEW A, ArgsOK(k, A), NEW r \in StopRequests(k, A) PROVE RequestOK(r)
<1>1. \E t \in Stops : \E a \in A : r = Request(k, "stop", PackagesOf(t), a)
  BY DEF StopRequests, Request
<1>2. PICK t \in Stops, a \in A : r = Request(k, "stop", PackagesOf(t), a)
  BY <1>1
<1> QED
  BY <1>2, OneStopOfStop, RequestParts DEF ArgsOK

LEMMA PackageRequestOK ==
    ASSUME NEW k, NEW A, ArgsOK(k, A), NEW r \in PackageRequests(k, A) PROVE RequestOK(r)
<1>1. \E p \in Packages : \E a \in A : r = Request(k, "package", {p}, a)
  BY DEF PackageRequests, Request
<1>2. PICK p \in Packages, a \in A : r = Request(k, "package", {p}, a)
  BY <1>1
<1> QED
  BY <1>2, OneStopOfPackage, RequestParts DEF ArgsOK

LEMMA BatchRequestOK ==
    ASSUME NEW k, NEW A, ArgsOK(k, A), NEW r \in BatchRequests(k, A) PROVE RequestOK(r)
<1>0. PICK t \in Stops : r \in {Request(k, "stop", b, a) :
              b \in {c \in SUBSET PackagesOf(t) : Cardinality(c) > 1}, a \in A}
  BY DEF BatchRequests
<1>1. \E b \in SUBSET PackagesOf(t) : \E a \in A : r = Request(k, "stop", b, a)
  BY <1>0 DEF Request
<1>2. PICK b \in SUBSET PackagesOf(t), a \in A : r = Request(k, "stop", b, a)
  BY <1>1
<1> QED
  BY <1>2, OneStopOfStop, RequestParts DEF ArgsOK

LEMMA OrderRequestOK == ASSUME NEW r \in OrderRequests PROVE RequestOK(r)
<1>1. /\ \A k \in {"cancel", "edit", "reschedule", "initiate_return", "found"} : ArgsOK(k, {Null})
      /\ ArgsOK("resolve", ReturnResolution)
  BY DEF ArgsOK, DriverKinds
<1>2. RequestOK(Request("cancel", "order", Packages, Null))
  BY RequestParts DEF DriverKinds
<1> QED
  BY <1>1, <1>2, StopRequestOK, PackageRequestOK DEF OrderRequests, StopAndPackageRequests

LEMMA DriverRequestOK == ASSUME NEW r \in DriverRequests PROVE RequestOK(r)
<1>1. /\ ArgsOK("master_label", {"LOADED_FOR_DELIVERY"})
      /\ ArgsOK("deliver", PACKAGE_DRIVER_PATCH_DELIVERY_STATUSES)
      /\ ArgsOK("return_leg", PACKAGE_DRIVER_PATCH_RETURN_STATUSES)
      /\ ArgsOK("missing", {"MISSING"})
  BY DEF ArgsOK, PackageStatus, RETURN_IN_TRANSIT_STATUSES,
         PACKAGE_DRIVER_PATCH_DELIVERY_STATUSES, PACKAGE_DRIVER_PATCH_RETURN_STATUSES
<1>2. \A b \in SUBSET Packages \ {{}} : RequestOK(Request("pickup_scan", "order", b, "LOADED_FOR_DELIVERY"))
  BY RequestParts DEF PackageStatus, RETURN_IN_TRANSIT_STATUSES
<1> QED
  BY <1>1, <1>2, StopRequestOK, PackageRequestOK, BatchRequestOK DEF DriverRequests

LEMMA AnyRequestOK == ASSUME NEW r \in AnyRequest PROVE RequestOK(r)
BY OrderRequestOK, DriverRequestOK DEF AnyRequest
-----------------------------------------------------------------------------
(* The inductive invariant of Orders.  It speaks of one transaction x and  *)
(* of the committed stops: stamps are never taken off, so that the steps   *)
(* of other sessions keep it.                                              *)

MoveKinds == {"initiate_return", "found", "resolve"}

\* What a request that derives the stop next has flushed.
MovedOK(x) ==
    /\ x.req.kind \in MoveKinds
    /\ x.req.level # "order"
    /\ DOMAIN x.pw # {} /\ DOMAIN x.pw \subseteq x.req.on
    /\ x.req.kind = "initiate_return" => \A p \in DOMAIN x.pw : x.pw[p] = "RETURN_INITIATED"
    /\ x.req.kind = "found" => \A p \in DOMAIN x.pw : x.pw[p] = "AT_WAREHOUSE"

\* A package that the transaction moves onto the return leg belongs to a stop
\* that is stamped, or that the transaction stamps, or will stamp next.
StampedBy(x, rows, p) ==
    \/ rows[StopOf[p]].return_initiated
    \/ x.phase = "packages_done" /\ x.req.kind = "initiate_return"
    \/ /\ x.phase \in Derived
       /\ StopOf[p] \in DOMAIN x.sw /\ x.sw[StopOf[p]].return_initiated

LoadedOK(x, rows) ==
    /\ x.phase # "idle" => x.req \in AnyRequest /\ DOMAIN x.stops = StopsOf(x.req)
    /\ x.phase \notin {"idle", "list"} => DOMAIN x.pkgs = x.req.on
    /\ \A t \in DOMAIN x.stops : x.stops[t].return_initiated => rows[t].return_initiated
    /\ \A p \in DOMAIN x.pkgs :
          x.pkgs[p] \in RETURN_IN_TRANSIT_STATUSES => rows[StopOf[p]].return_initiated

WritesOK(x, rows) ==
    /\ \A p \in DOMAIN x.pw : x.pw[p] \in RETURN_IN_TRANSIT_STATUSES => StampedBy(x, rows, p)
    /\ \A t \in DOMAIN x.sw : x.sw[t].status \in {"RETURN_IN_TRANSIT", "DISPOSED"}
                                => x.sw[t].return_resolution # Null
    /\ x.phase = "packages_done" => MovedOK(x)
    /\ x.phase = "cancelled" => \A p \in DOMAIN x.pw : x.pw[p] = "CANCELLED"

StampInv ==
    /\ TablesInv
    /\ InitiatedIsStamped
    /\ InTransitStopIsResolved
    /\ \A s \in Sessions : LoadedOK(sess[s], stop) /\ WritesOK(sess[s], stop)

-----------------------------------------------------------------------------
(* What holds of a transaction that no commit has overtaken.               *)

Seen(rows, writes) == [p \in Packages |-> IF p \in DOMAIN writes THEN writes[p] ELSE rows[p]]

DerivedFrom(x, rows, status) ==
    x.ow = IF ResolveOrderStatus(Seen(rows, x.pw)) = status THEN Null
           ELSE ResolveOrderStatus(Seen(rows, x.pw))

CurrentOK(x, rows, status) ==
    /\ x.phase # "idle" => x.order = status
    /\ x.phase = "order_derived" => DerivedFrom(x, rows, status)

Tracks(u) == u \in overtaken \/ CurrentOK(sess[u], pkg, orderStatus)

\* A step keeps the invariant, and every transaction current or overtaken.
StepOK ==
    /\ StampInv'
    /\ \A u \in Sessions : Tracks(u) => Tracks(u)'

-----------------------------------------------------------------------------
(* Transactions as records.                                                *)

FlushedRow(x, phase, pw, sw) ==
    [phase |-> phase, req |-> x.req, pkgs |-> x.pkgs, stops |-> x.stops, order |-> x.order,
     pw |-> pw, sw |-> sw, ow |-> x.ow]

\* A map to statuses over a part of the packages is a row of writes.
LEMMA PackageRowsOver ==
    ASSUME NEW D \in SUBSET Packages, NEW f \in [D -> PackageStatus] PROVE f \in PackageRows
BY DEF PackageRows

LEMMA StopRowsOver ==
    ASSUME NEW D \in SUBSET Stops, NEW f \in [D -> StopRow] PROVE f \in StopRows
BY DEF StopRows

LEMMA StopWritesOver ==
    ASSUME NEW D \in SUBSET Stops, NEW f \in [D -> StopColumnValues] PROVE f \in StopWrites
BY DEF StopWrites

LEMMA PackageRowsAre ==
    ASSUME NEW f \in PackageRows
    PROVE  /\ f \in [DOMAIN f -> PackageStatus]
           /\ DOMAIN f \subseteq Packages
           /\ \A p \in DOMAIN f : p \in Packages /\ f[p] \in PackageStatus
BY DEF PackageRows

LEMMA StopRowsAre ==
    ASSUME NEW f \in StopRows
    PROVE  DOMAIN f \subseteq Stops /\ \A t \in DOMAIN f : t \in Stops /\ f[t] \in StopRow
BY DEF StopRows

LEMMA StopWritesAre ==
    ASSUME NEW f \in StopWrites
    PROVE  DOMAIN f \subseteq Stops /\ \A t \in DOMAIN f : t \in Stops /\ f[t] \in StopColumnValues
BY DEF StopWrites

LEMMA NoWritesIs ==
    /\ NoWrites \in PackageRows /\ NoWrites \in StopRows /\ NoWrites \in StopWrites
    /\ DOMAIN NoWrites = {}
<1>1. /\ NoWrites \in [{} -> PackageStatus] /\ NoWrites \in [{} -> StopRow]
      /\ NoWrites \in [{} -> StopColumnValues] /\ DOMAIN NoWrites = {}
  BY DEF NoWrites
<1> QED
  BY <1>1, PackageRowsOver, StopRowsOver, StopWritesOver

LEMMA SetStatusIs ==
    ASSUME NEW D \in SUBSET Packages, NEW v \in PackageStatus
    PROVE  /\ SetStatus(D, v) \in PackageRows
           /\ DOMAIN SetStatus(D, v) = D
           /\ \A p \in D : SetStatus(D, v)[p] = v
<1>1. SetStatus(D, v) \in [D -> PackageStatus]
  BY DEF SetStatus
<1> QED
  BY <1>1, PackageRowsOver DEF SetStatus

LEMMA FlushedParts ==
    ASSUME NEW x, NEW phase, NEW pw, NEW sw
    PROVE  LET y == FlushedRow(x, phase, pw, sw)
           IN  /\ y.phase = phase /\ y.req = x.req /\ y.pkgs = x.pkgs /\ y.stops = x.stops
               /\ y.order = x.order /\ y.pw = pw /\ y.sw = sw /\ y.ow = x.ow
BY DEF FlushedRow

LEMMA TransactionParts ==
    ASSUME NEW x \in TransactionRow
    PROVE  /\ x.phase \in Phases /\ x.req \in AnyRequest \cup {Null} /\ x.pkgs \in PackageRows
           /\ x.stops \in StopRows /\ x.order \in OrderStatus \cup {Null} /\ x.pw \in PackageRows
           /\ x.sw \in StopWrites /\ x.ow \in OrderStatus \cup {Null}
BY DEF TransactionRow

LEMMA FlushedType ==
    ASSUME NEW x \in TransactionRow, NEW phase \in Phases, NEW pw \in PackageRows, NEW sw \in StopWrites
    PROVE  FlushedRow(x, phase, pw, sw) \in TransactionRow
BY TransactionParts DEF FlushedRow, TransactionRow

\* A transaction by its columns.
LEMMA TransactionIs ==
    ASSUME NEW x \in TransactionRow
    PROVE  x = [phase |-> x.phase, req |-> x.req, pkgs |-> x.pkgs, stops |-> x.stops,
                order |-> x.order, pw |-> x.pw, sw |-> x.sw, ow |-> x.ow]
BY DEF TransactionRow

FlushOf(x, phase, pw, sw) == [x EXCEPT !.phase = phase, !.pw = pw, !.sw = sw]
DeriveOf(x, phase, sw) == [x EXCEPT !.phase = phase, !.sw = sw]

LEMMA FlushedIs ==
    ASSUME NEW x \in TransactionRow, NEW phase \in Phases, NEW pw \in PackageRows, NEW sw \in StopWrites
    PROVE  FlushOf(x, phase, pw, sw) = FlushedRow(x, phase, pw, sw)
<1> DEFINE y == [x EXCEPT !.phase = phase, !.pw = pw, !.sw = sw]
<1>1. y \in TransactionRow
  BY DEF TransactionRow
<1>2. /\ y.phase = phase /\ y.req = x.req /\ y.pkgs = x.pkgs /\ y.stops = x.stops
      /\ y.order = x.order /\ y.pw = pw /\ y.sw = sw /\ y.ow = x.ow
  BY DEF TransactionRow
<1> HIDE DEF y
<1>3. y = [phase |-> y.phase, req |-> y.req, pkgs |-> y.pkgs, stops |-> y.stops,
           order |-> y.order, pw |-> y.pw, sw |-> y.sw, ow |-> y.ow]
  BY <1>1, TransactionIs
<1> QED
  BY <1>2, <1>3 DEF FlushedRow, FlushOf, y

LEMMA DerivedIs ==
    ASSUME NEW x \in TransactionRow, NEW phase \in Phases, NEW sw \in StopWrites
    PROVE  DeriveOf(x, phase, sw) = FlushedRow(x, phase, x.pw, sw)
<1> DEFINE y == [x EXCEPT !.phase = phase, !.sw = sw]
<1>1. y \in TransactionRow
  BY DEF TransactionRow
<1>2. /\ y.phase = phase /\ y.req = x.req /\ y.pkgs = x.pkgs /\ y.stops = x.stops
      /\ y.order = x.order /\ y.pw = x.pw /\ y.sw = sw /\ y.ow = x.ow
  BY DEF TransactionRow
<1> HIDE DEF y
<1>3. y = [phase |-> y.phase, req |-> y.req, pkgs |-> y.pkgs, stops |-> y.stops,
           order |-> y.order, pw |-> y.pw, sw |-> y.sw, ow |-> y.ow]
  BY <1>1, TransactionIs
<1> QED
  BY <1>2, <1>3 DEF FlushedRow, DeriveOf, y

-----------------------------------------------------------------------------
(* How a step is shown to keep the invariant.                              *)

\* A step of one session that changes no committed row.
LEMMA OwnStep ==
    ASSUME StampInv, NEW s \in Sessions, NEW y \in TransactionRow,
           sess' = [sess EXCEPT ![s] = y], UNCHANGED <<pkg, stop, orderStatus>>,
           LoadedOK(y, stop), WritesOK(y, stop),
           CurrentOK(sess[s], pkg, orderStatus) => CurrentOK(y, pkg, orderStatus),
           overtaken' = overtaken \/ (CurrentOK(y, pkg, orderStatus) /\ overtaken' = overtaken \ {s})
    PROVE  StepOK
<1>1. TablesInv' /\ InitiatedIsStamped' /\ InTransitStopIsResolved'
  BY DEF StampInv, TablesInv, InitiatedIsStamped, InTransitStopIsResolved
<1>2. \A u \in Sessions : sess'[u] = IF u = s THEN y ELSE sess[u]
  BY DEF StampInv, TablesInv
<1>3. \A u \in Sessions : LoadedOK(sess'[u], stop) /\ WritesOK(sess'[u], stop)
  BY <1>2 DEF StampInv
<1>4. stop' = stop /\ pkg' = pkg /\ orderStatus' = orderStatus /\ sess'[s] = y
  BY <1>2
<1>5. StampInv'
  BY <1>1, <1>3, <1>4 DEF StampInv
<1>6. \A u \in Sessions : Tracks(u) => Tracks(u)'
  BY <1>2, <1>4 DEF Tracks
<1> QED
  BY <1>5, <1>6 DEF StepOK

\* A flush of the rows a request has loaded.
LEMMA FlushStep ==
    ASSUME StampInv, NEW s \in Sessions, NEW x, x = sess[s], x.phase \notin {"idle", "list"},
           NEW phase \in Phases \ {"idle", "list", "order_derived"},
           NEW pw \in PackageRows, NEW sw \in StopWrites,
           sess' = [sess EXCEPT ![s] = FlushedRow(x, phase, pw, sw)],
           UNCHANGED <<pkg, stop, orderStatus, overtaken>>,
           WritesOK(FlushedRow(x, phase, pw, sw), stop)
    PROVE  StepOK
<1>1. x \in TransactionRow /\ LoadedOK(x, stop)
  BY DEF StampInv, TablesInv
<1>2. FlushedRow(x, phase, pw, sw) \in TransactionRow
  BY <1>1, FlushedType
<1>3. LoadedOK(FlushedRow(x, phase, pw, sw), stop)
  BY <1>1, FlushedParts DEF LoadedOK
<1>4. CurrentOK(x, pkg, orderStatus) => CurrentOK(FlushedRow(x, phase, pw, sw), pkg, orderStatus)
  BY FlushedParts DEF CurrentOK
<1> QED
  BY <1>2, <1>3, <1>4, OwnStep

-----------------------------------------------------------------------------
(* The requests of OrderService.                                           *)

\* What the session of a request in hand holds.
LEMMA InHand ==
    ASSUME StampInv, NEW s \in Sessions, NEW x, x = sess[s], x.phase \notin {"idle", "list"}
    PROVE  /\ x \in TransactionRow /\ LoadedOK(x, stop) /\ WritesOK(x, stop)
           /\ x.req \in AnyRequest /\ RequestOK(x.req) /\ x.req.on \subseteq Packages
           /\ DOMAIN x.pkgs = x.req.on /\ DOMAIN x.stops = StopsOf(x.req)
           /\ StopsOf(x.req) \subseteq Stops
           /\ \A p \in x.req.on : x.pkgs[p] \in PackageStatus
           /\ \A t \in StopsOf(x.req) : x.stops[t] \in StopRow
<1>1. x \in TransactionRow /\ LoadedOK(x, stop) /\ WritesOK(x, stop)
  BY DEF StampInv, TablesInv
<1>2. x.req \in AnyRequest /\ DOMAIN x.pkgs = x.req.on /\ DOMAIN x.stops = StopsOf(x.req)
  BY <1>1 DEF LoadedOK
<1>3. RequestOK(x.req)
  BY <1>2, AnyRequestOK
<1>4. x.pkgs \in PackageRows /\ x.stops \in StopRows
  BY <1>1, TransactionParts
<1> QED
  BY <1>1, <1>2, <1>3, <1>4, PackageRowsAre, StopRowsAre DEF RequestOK

LEMMA ColumnsAre ==
    ASSUME NEW st \in DeliveryStopStatus \cup {Null}, NEW re \in ReturnResolution \cup {Null},
           NEW b \in BOOLEAN
    PROVE  /\ Columns(st, re, b) \in StopColumnValues
           /\ Columns(st, re, b).status = st /\ Columns(st, re, b).return_resolution = re
           /\ Columns(st, re, b).return_initiated = b
BY DEF Columns, StopColumnValues

LEMMA FlushKeeps ==
    ASSUME StampInv, NEW s \in Sessions, sess[s].phase \notin {"idle", "list"},
           NEW phase \in Phases \ {"idle", "list", "order_derived"},
           NEW pw \in PackageRows, NEW sw \in StopWrites,
           Flush(s, phase, pw, sw),
           WritesOK(FlushedRow(sess[s], phase, pw, sw), stop)
    PROVE  StepOK
<1>1. sess' = [sess EXCEPT ![s] = FlushedRow(sess[s], phase, pw, sw)]
  <2>1. sess' = [sess EXCEPT ![s] = FlushOf(sess[s], phase, pw, sw)]
    BY DEF Flush, FlushOf, StampInv, TablesInv
  <2>2. PICK x \in TransactionRow : x = sess[s]
    BY DEF StampInv, TablesInv
  <2>3. phase \in Phases /\ x \in TransactionRow
    BY <2>2
  <2>4. FlushOf(x, phase, pw, sw) = FlushedRow(x, phase, pw, sw)
    BY <2>3, FlushedIs, Zenon
  <2> QED
    BY <2>1, <2>2, <2>4, Zenon
<1>2. UNCHANGED <<pkg, stop, orderStatus, overtaken>>
  BY DEF Flush
<1> QED
  BY <1>1, <1>2, FlushStep

LEMMA CancelKeeps ==
    ASSUME StampInv, NEW s \in Sessions, sess[s].phase = "loaded", ApplyPackageCancellations(s)
    PROVE  StepOK
<1> PICK x : x = sess[s]
  OBVIOUS
<1> DEFINE todo == Eligible(s, PackageStatus \ {"CANCELLED"})
<1>0. "CANCELLED" \in PackageStatus /\ "CANCELLED" \notin RETURN_IN_TRANSIT_STATUSES
  BY DEF PackageStatus, RETURN_IN_TRANSIT_STATUSES
<1>1. todo \in SUBSET Packages
  BY InHand DEF Eligible
<1>2. Flush(s, "cancelled", SetStatus(todo, "CANCELLED"), NoWrites)
  BY DEF ApplyPackageCancellations
<1>3. SetStatus(todo, "CANCELLED") \in PackageRows /\ DOMAIN SetStatus(todo, "CANCELLED") = todo
      /\ \A p \in todo : SetStatus(todo, "CANCELLED")[p] = "CANCELLED"
  BY <1>0, <1>1, SetStatusIs
<1> PICK pw : pw = SetStatus(todo, "CANCELLED")
  OBVIOUS
<1> HIDE DEF todo
<1>4. WritesOK(FlushedRow(x, "cancelled", pw, NoWrites), stop)
  BY <1>0, <1>3, NoWritesIs, FlushedParts DEF WritesOK
<1> QED
  BY <1>2, <1>3, <1>4, NoWritesIs, FlushKeeps DEF Phases

LEMMA MarkCancelledKeeps ==
    ASSUME StampInv, NEW s \in Sessions, MarkDeliveryStopCancelled(s)
    PROVE  StepOK
<1> PICK x : x = sess[s]
  OBVIOUS
<1>p. x.phase = "cancelled"
  BY DEF MarkDeliveryStopCancelled
<1> DEFINE todo == {t \in StopsOf(x.req) : x.stops[t].status # "CANCELLED"}
           sw == [t \in todo |-> Columns("CANCELLED", Null, FALSE)]
<1>0. "CANCELLED" \in DeliveryStopStatus /\ "CANCELLED" \notin RETURN_IN_TRANSIT_STATUSES
  BY DEF DeliveryStopStatus, RETURN_IN_TRANSIT_STATUSES
<1>1. todo \in SUBSET Stops
  BY <1>p, InHand
<1>2. Flush(s, "stops_done", x.pw, sw)
  BY DEF MarkDeliveryStopCancelled
<1>3. sw \in [todo -> StopColumnValues] /\ \A t \in todo : sw[t].status = "CANCELLED"
  BY <1>0, ColumnsAre
<1>4. DOMAIN sw = todo
  OBVIOUS
<1> HIDE DEF todo, sw
<1>5. sw \in StopWrites
  BY <1>1, <1>3, StopWritesOver
<1>6. x.pw \in PackageRows /\ \A p \in DOMAIN x.pw : x.pw[p] = "CANCELLED"
  BY <1>p, InHand, TransactionParts DEF WritesOK
<1>7. WritesOK(FlushedRow(x, "stops_done", x.pw, sw), stop)
  BY <1>0, <1>3, <1>4, <1>6, FlushedParts DEF WritesOK
<1> QED
  BY <1>p, <1>2, <1>5, <1>6, <1>7, FlushKeeps DEF Phases

LEMMA RescheduleKeeps ==
    ASSUME StampInv, NEW s \in Sessions, sess[s].phase = "loaded", Reschedule(s)
    PROVE  StepOK
<1> PICK x : x = sess[s]
  OBVIOUS
<1> DEFINE todo == Eligible(s, RESCHEDULABLE_PACKAGE_STATUSES)
           moved == {t \in StopsOf(x.req) : x.stops[t].status # "DELIVERY_SCHEDULED"}
           sw == [t \in moved |-> Columns("DELIVERY_SCHEDULED", Null, FALSE)]
<1>0. /\ "AT_WAREHOUSE" \in PackageStatus /\ "AT_WAREHOUSE" \notin RETURN_IN_TRANSIT_STATUSES
      /\ "DELIVERY_SCHEDULED" \in DeliveryStopStatus
  BY DEF PackageStatus, RETURN_IN_TRANSIT_STATUSES, DeliveryStopStatus
<1>1. todo \in SUBSET Packages /\ moved \in SUBSET Stops
  BY InHand DEF Eligible
<1>2. Flush(s, "stops_done", SetStatus(todo, "AT_WAREHOUSE"), sw)
  BY DEF Reschedule
<1>3. SetStatus(todo, "AT_WAREHOUSE") \in PackageRows /\ DOMAIN SetStatus(todo, "AT_WAREHOUSE") = todo
      /\ \A p \in todo : SetStatus(todo, "AT_WAREHOUSE")[p] = "AT_WAREHOUSE"
  BY <1>0, <1>1, SetStatusIs
<1>4. sw \in [moved -> StopColumnValues] /\ \A t \in moved : sw[t].status = "DELIVERY_SCHEDULED"
  BY <1>0, ColumnsAre
<1>5. DOMAIN sw = moved
  OBVIOUS
<1> PICK pw : pw = SetStatus(todo, "AT_WAREHOUSE")
  OBVIOUS
<1> HIDE DEF todo, moved, sw
<1>6. sw \in StopWrites
  BY <1>1, <1>4, StopWritesOver
<1>7. WritesOK(FlushedRow(x, "stops_done", pw, sw), stop)
  BY <1>0, <1>3, <1>4, <1>5, FlushedParts DEF WritesOK
<1> QED
  BY <1>2, <1>3, <1>6, <1>7, FlushKeeps DEF Phases

\* The moves of the return: what is set is stamped, or will be.
LEMMA MoveKeeps ==
    ASSUME StampInv, NEW s \in Sessions, sess[s].phase = "loaded", NEW eligible,
           NEW v \in PackageStatus \ {"CANCELLED"}, MovePackages(s, eligible, v),
           sess[s].req.kind \in MoveKinds, sess[s].req.level # "order",
           sess[s].req.kind = "initiate_return" => v = "RETURN_INITIATED",
           sess[s].req.kind = "found" => v = "AT_WAREHOUSE",
           sess[s].req.kind = "resolve" => eligible = RESOLVABLE_RETURN_PACKAGE_STATUSES
    PROVE  StepOK
<1> PICK x : x = sess[s]
  OBVIOUS
<1> DEFINE todo == Eligible(s, eligible)
<1>1. todo \in SUBSET Packages /\ todo \subseteq x.req.on
  BY InHand DEF Eligible
<1>2. Flush(s, "packages_done", SetStatus(todo, v), NoWrites) /\ todo # {}
  BY DEF MovePackages
<1>3. SetStatus(todo, v) \in PackageRows /\ DOMAIN SetStatus(todo, v) = todo
      /\ \A p \in todo : SetStatus(todo, v)[p] = v
  BY <1>1, SetStatusIs
<1>4. ASSUME NEW p \in todo, v \in RETURN_IN_TRANSIT_STATUSES
      PROVE  stop[StopOf[p]].return_initiated \/ x.req.kind = "initiate_return"
  <2>1. x.pkgs[p] \in eligible /\ p \in x.req.on
    BY DEF Eligible
  <2>2. CASE x.req.kind = "resolve"
    <3>1. x.pkgs[p] \in RETURN_IN_TRANSIT_STATUSES
      BY <2>1, <2>2 DEF RESOLVABLE_RETURN_PACKAGE_STATUSES, RETURN_IN_TRANSIT_STATUSES
    <3> QED
      BY <2>1, <3>1, InHand DEF LoadedOK
  <2>3. CASE x.req.kind = "found"
    BY <1>4, <2>3 DEF RETURN_IN_TRANSIT_STATUSES
  <2> QED
    BY <2>2, <2>3 DEF MoveKinds
<1> PICK pw : pw = SetStatus(todo, v)
  OBVIOUS
<1> HIDE DEF todo
<1> DEFINE y == FlushedRow(x, "packages_done", pw, NoWrites)
<1>5. /\ y.phase = "packages_done" /\ y.req = x.req /\ y.pw = pw /\ DOMAIN y.sw = {}
  BY FlushedParts, NoWritesIs
<1> HIDE DEF y
<1>6. \A p \in DOMAIN y.pw : y.pw[p] \in RETURN_IN_TRANSIT_STATUSES => StampedBy(y, stop, p)
  BY <1>3, <1>4, <1>5 DEF StampedBy
<1>7. MovedOK(y)
  BY <1>1, <1>2, <1>3, <1>5 DEF MovedOK
<1>8. WritesOK(y, stop)
  BY <1>5, <1>6, <1>7 DEF WritesOK
<1> QED
  BY <1>2, <1>3, <1>8, NoWritesIs, FlushKeeps DEF Phases, y

LEMMA ResolveStopKeeps ==
    ASSUME StampInv, NEW s \in Sessions, ResolveStopReturn(s)
    PROVE  StepOK
<1> PICK x : x = sess[s]
  OBVIOUS
<1>p. x.phase = "loaded" /\ x.req.kind = "resolve"
  BY DEF ResolveStopReturn, Handles
<1> DEFINE todo == Eligible(s, RESOLVABLE_RETURN_PACKAGE_STATUSES)
           v == ResolvedPackageStatus(x.req.arg)
           sw == [t \in StopsOf(x.req) |->
                    Columns(IF x.stops[t].status = v THEN Null ELSE v, x.req.arg, FALSE)]
<1>0. v \in PackageStatus /\ v \in DeliveryStopStatus /\ x.req.arg \in ReturnResolution
      /\ x.req.arg # Null
  <2>1. x.req.arg \in ReturnResolution
    BY <1>p, InHand DEF RequestOK
  <2> QED
    BY <2>1, NullAssumption
       DEF ResolvedPackageStatus, PackageStatus, DeliveryStopStatus
<1>1. todo \in SUBSET Packages /\ StopsOf(x.req) \in SUBSET Stops
  BY <1>p, InHand DEF Eligible
<1>2. Flush(s, "stops_done", SetStatus(todo, v), sw)
  BY DEF ResolveStopReturn
<1>3. SetStatus(todo, v) \in PackageRows /\ DOMAIN SetStatus(todo, v) = todo
      /\ \A p \in todo : SetStatus(todo, v)[p] = v
  BY <1>0, <1>1, SetStatusIs
<1>4. sw \in [StopsOf(x.req) -> StopColumnValues] /\ DOMAIN sw = StopsOf(x.req)
      /\ \A t \in StopsOf(x.req) : sw[t].return_resolution = x.req.arg
  <2> DEFINE st(t) == IF x.stops[t].status = v THEN Null ELSE v
  <2>1. \A t \in StopsOf(x.req) : st(t) \in DeliveryStopStatus \cup {Null}
    BY <1>0
  <2>2. sw = [t \in StopsOf(x.req) |-> Columns(st(t), x.req.arg, FALSE)]
    OBVIOUS
  <2> HIDE DEF v, st, sw
  <2>3. \A t \in StopsOf(x.req) : /\ Columns(st(t), x.req.arg, FALSE) \in StopColumnValues
                                   /\ Columns(st(t), x.req.arg, FALSE).return_resolution = x.req.arg
    <3> TAKE t \in StopsOf(x.req)
    <3>1. st(t) \in DeliveryStopStatus \cup {Null} /\ x.req.arg \in ReturnResolution \cup {Null}
          /\ FALSE \in BOOLEAN
      BY <1>0, <2>1
    <3> QED
      BY <3>1, ColumnsAre
  <2> QED
    BY <2>2, <2>3
<1>5. \A p \in todo : stop[StopOf[p]].return_initiated
  <2> TAKE p \in todo
  <2>1. x.pkgs[p] \in RETURN_IN_TRANSIT_STATUSES /\ p \in x.req.on
    BY DEF Eligible, RESOLVABLE_RETURN_PACKAGE_STATUSES, RETURN_IN_TRANSIT_STATUSES
  <2> QED
    BY <1>p, <2>1, InHand DEF LoadedOK
<1> PICK pw : pw = SetStatus(todo, v)
  OBVIOUS
<1> HIDE DEF todo, v, sw
<1>6. sw \in StopWrites
  BY <1>1, <1>4, StopWritesOver
<1>7. WritesOK(FlushedRow(x, "stops_done", pw, sw), stop)
  BY <1>0, <1>3, <1>4, <1>5, FlushedParts DEF WritesOK, StampedBy
<1> QED
  BY <1>p, <1>2, <1>3, <1>6, <1>7, FlushKeeps DEF Phases

LEMMA EditKeeps ==
    ASSUME StampInv, NEW s \in Sessions, UpdateStopPackages(s)
    PROVE  StepOK
<1>1. sess[s].phase = "loaded" /\ Flush(s, "stops_done", NoWrites, NoWrites)
  BY DEF UpdateStopPackages, Handles
<1>2. WritesOK(FlushedRow(sess[s], "stops_done", NoWrites, NoWrites), stop)
  BY NoWritesIs, FlushedParts DEF WritesOK
<1> QED
  BY <1>1, <1>2, NoWritesIs, FlushKeeps DEF Phases

LEMMA FlushStopKeeps ==
    ASSUME StampInv, NEW s \in Sessions, FlushStop(s)
    PROVE  StepOK
<1> PICK x : x = sess[s]
  OBVIOUS
<1>1. x.phase = "stop_derived" /\ Flush(s, "stops_done", x.pw, x.sw)
  BY DEF FlushStop
<1>2. x.pw \in PackageRows /\ x.sw \in StopWrites /\ WritesOK(x, stop)
  BY <1>1, InHand, TransactionParts
<1>3. WritesOK(FlushedRow(x, "stops_done", x.pw, x.sw), stop)
  BY <1>1, <1>2, FlushedParts DEF WritesOK, StampedBy, Derived
<1> QED
  BY <1>1, <1>2, <1>3, FlushKeeps DEF Phases

-----------------------------------------------------------------------------
(* The derivation of the stop.                                             *)

LEMMA StopStatusRange ==
    ASSUME NEW view, NEW t, NEW active
    PROVE  ResolveStopStatus(view, t, active) \in DeliveryStopStatus \cup {Null, active}
BY DEF ResolveStopStatus, DeliveryStopStatus

\* Two disjoint parts with as many members as the whole are the whole.
LEMMA PartsMakeWhole ==
    ASSUME NEW S, IsFiniteSet(S), NEW A, NEW B, A \subseteq S, B \subseteq S, A \cap B = {},
           Cardinality(A) + Cardinality(B) = Cardinality(S)
    PROVE  S = A \cup B
<1>1. IsFiniteSet(A) /\ IsFiniteSet(B) /\ IsFiniteSet(A \cup B)
  BY FS_Subset, FS_Union
<1>2. Cardinality(A \cup B) = Cardinality(A) + Cardinality(B) - Cardinality(A \cap B)
  BY <1>1, FS_Union
<1>3. Cardinality(A \cap B) = 0 /\ Cardinality(A) \in Nat /\ Cardinality(B) \in Nat
  BY <1>1, FS_EmptySet, FS_CardinalityType
<1>4. Cardinality(A \cup B) = Cardinality(S)
  BY <1>2, <1>3
<1> QED
  BY <1>4, FS_Subset

LEMMA WholePart ==
    ASSUME NEW S, IsFiniteSet(S), NEW A, A \subseteq S, Cardinality(A) = Cardinality(S)
    PROVE  S = A
BY FS_Subset

\* The counts call a stop in transit or disposed of only if nothing on it waits.
LEMMA ReturnedStop ==
    ASSUME NEW view, NEW t, NEW active,
           ResolveStopStatus(view, t, active) \in {"RETURN_IN_TRANSIT", "DISPOSED"},
           ResolveStopStatus(view, t, active) # active
    PROVE  \A p \in PackagesOf(t) : view[p] \in {"RETURN_IN_TRANSIT", "RETURNED", "DISPOSED"}
<1> DEFINE set(S) == {p \in PackagesOf(t) : view[p] \in S}
<1>0. IsFiniteSet(PackagesOf(t))
  BY OrderHasPackages, FS_Subset DEF PackagesOf
<1>1. \/ Cardinality(set({"DISPOSED"})) = Cardinality(PackagesOf(t))
      \/ Cardinality(set({"RETURN_IN_TRANSIT"})) + Cardinality(set({"RETURNED", "DISPOSED"}))
           = Cardinality(PackagesOf(t))
  BY NullAssumption DEF ResolveStopStatus, DeliveryStopStatus
<1>2. CASE Cardinality(set({"DISPOSED"})) = Cardinality(PackagesOf(t))
  <2>1. PackagesOf(t) = set({"DISPOSED"})
    BY <1>0, <1>2, WholePart
  <2> QED
    BY <2>1
<1>3. CASE Cardinality(set({"RETURN_IN_TRANSIT"})) + Cardinality(set({"RETURNED", "DISPOSED"}))
             = Cardinality(PackagesOf(t))
  <2>1. PackagesOf(t) = set({"RETURN_IN_TRANSIT"}) \cup set({"RETURNED", "DISPOSED"})
    <3>1. set({"RETURN_IN_TRANSIT"}) \cap set({"RETURNED", "DISPOSED"}) = {}
      OBVIOUS
    <3> QED
      BY <1>0, <1>3, <3>1, PartsMakeWhole
  <2> QED
    BY <2>1
<1> QED
  BY <1>1, <1>2, <1>3

LEMMA SeenType ==
    ASSUME NEW rows \in [Packages -> PackageStatus], NEW w \in PackageRows
    PROVE  Seen(rows, w) \in [Packages -> PackageStatus]
BY PackageRowsAre DEF Seen

LEMMA RecomputeStopKeeps ==
    ASSUME StampInv, NEW s \in Sessions, RecomputeStop(s)
    PROVE  StepOK
<1> PICK x : x = sess[s]
  OBVIOUS
<1>p. x.phase = "packages_done"
  BY DEF RecomputeStop
<1>m. MovedOK(x) /\ WritesOK(x, stop)
  BY <1>p, InHand DEF WritesOK
<1>h. /\ x.req \in AnyRequest /\ RequestOK(x.req) /\ x.req.on \subseteq Packages
      /\ DOMAIN x.stops = StopsOf(x.req) /\ StopsOf(x.req) \subseteq Stops
      /\ \A t \in StopsOf(x.req) : x.stops[t] \in StopRow
      /\ x \in TransactionRow /\ LoadedOK(x, stop)
  BY <1>p, InHand
<1>v. View(s) = Seen(pkg, x.pw)
  BY DEF View, Seen
<1> PICK view : view = View(s)
  OBVIOUS
<1> DEFINE touched == {t \in StopsOf(x.req) : StopColumns(s, t) # NoColumns}
           sw == [t \in touched |-> StopColumns(s, t)]
<1>1. ASSUME NEW t \in StopsOf(x.req)
      PROVE  /\ StatusColumn(s, t) \in DeliveryStopStatus \cup {Null}
             /\ ResolutionColumn(s, t) \in ReturnResolution \cup {Null}
             /\ StampColumn(s, t) \in BOOLEAN
  <2>1. x.stops[t].status \in DeliveryStopStatus
    BY <1>h DEF StopRow
  <2>2. StatusColumn(s, t) \in DeliveryStopStatus \cup {Null}
    <3> DEFINE active == IF x.req.kind = "initiate_return" THEN "RETURN_INITIATED" ELSE x.stops[t].status
    <3>1. active \in DeliveryStopStatus
      BY <2>1 DEF DeliveryStopStatus
    <3>2. ResolveStopStatus(view, t, active) \in DeliveryStopStatus \cup {Null, active}
      BY StopStatusRange
    <3> QED
      BY <3>1, <3>2 DEF StatusColumn
  <2>3. ResolutionColumn(s, t) \in ReturnResolution \cup {Null}
    BY <1>h DEF ResolutionColumn, RequestOK
  <2> QED
    BY <2>2, <2>3 DEF StampColumn
<1>2. \A t \in StopsOf(x.req) :
        /\ StopColumns(s, t) \in StopColumnValues
        /\ StopColumns(s, t).status = StatusColumn(s, t)
        /\ StopColumns(s, t).return_resolution = ResolutionColumn(s, t)
        /\ StopColumns(s, t).return_initiated = StampColumn(s, t)
  <2> TAKE t \in StopsOf(x.req)
  <2>1. /\ StatusColumn(s, t) \in DeliveryStopStatus \cup {Null}
        /\ ResolutionColumn(s, t) \in ReturnResolution \cup {Null}
        /\ StampColumn(s, t) \in BOOLEAN
    BY <1>1
  <2> QED
    BY <2>1, ColumnsAre DEF StopColumns
<1>3. ASSUME NEW t \in StopsOf(x.req), StatusColumn(s, t) \in {"RETURN_IN_TRANSIT", "DISPOSED"}
      PROVE  ResolutionColumn(s, t) # Null
  <2> DEFINE active == IF x.req.kind = "initiate_return" THEN "RETURN_INITIATED" ELSE x.stops[t].status
  <2>1. /\ ResolveStopStatus(view, t, active) \in {"RETURN_IN_TRANSIT", "DISPOSED"}
        /\ ResolveStopStatus(view, t, active) # active
    <3>1. /\ ResolveStopStatus(view, t, active) = StatusColumn(s, t)
          /\ StatusColumn(s, t) # x.stops[t].status
      BY <1>3, NullAssumption DEF StatusColumn, DeliveryStopStatus
    <3> QED
      BY <1>3, <3>1
  <2>2. \A p \in PackagesOf(t) : view[p] \in {"RETURN_IN_TRANSIT", "RETURNED", "DISPOSED"}
    <3> HIDE DEF active
    <3> QED
      BY <2>1, ReturnedStop
  <2>3. PICK p \in DOMAIN x.pw : TRUE
    BY <1>m DEF MovedOK
  <2>4. p \in x.req.on /\ p \in PackagesOf(t) /\ view[p] = x.pw[p]
    <3>1. p \in x.req.on /\ p \in Packages
      BY <1>m, <1>h, <2>3 DEF MovedOK
    <3>2. StopOf[p] = t
      <4>1. PICK q \in x.req.on : t = StopOf[q]
        BY DEF StopsOf
      <4> QED
        BY <1>m, <1>h, <3>1, <4>1 DEF MovedOK, RequestOK
    <3> QED
      BY <1>v, <2>3, <3>1, <3>2 DEF PackagesOf, Seen
  <2>5. x.req.kind = "resolve"
    BY <1>m, <2>2, <2>3, <2>4 DEF MovedOK, MoveKinds
  <2>6. x.req.arg \in ReturnResolution
    BY <1>h, <2>5 DEF RequestOK
  <2>7. \A q \in PackagesOf(t) : View(s)[q] # "RETURN_INITIATED"
    BY <2>2
  <2> QED
    BY <2>5, <2>6, <2>7, NullAssumption DEF ResolutionColumn
<1>4. ASSUME NEW p \in DOMAIN x.pw, x.pw[p] \in RETURN_IN_TRANSIT_STATUSES
      PROVE  \/ stop[StopOf[p]].return_initiated
             \/ StopOf[p] \in touched /\ StopColumns(s, StopOf[p]).return_initiated
  <2>1. p \in x.req.on /\ StopOf[p] \in StopsOf(x.req)
    BY <1>m DEF MovedOK, StopsOf
  <2>2. CASE x.req.kind = "initiate_return"
    <3>1. CASE x.stops[StopOf[p]].return_initiated
      BY <1>h, <2>1, <3>1 DEF LoadedOK
    <3>2. CASE ~x.stops[StopOf[p]].return_initiated
      <4>1. StampColumn(s, StopOf[p]) = TRUE
        BY <2>2, <3>2 DEF StampColumn
      <4>2. StopColumns(s, StopOf[p]).return_initiated = TRUE
        BY <1>2, <2>1, <4>1
      <4>3. NoColumns.return_initiated = FALSE
        BY DEF NoColumns, Columns
      <4> QED
        BY <2>1, <4>2, <4>3
    <3> QED
      BY <3>1, <3>2
  <2>3. CASE x.req.kind # "initiate_return"
    BY <1>m, <1>p, <1>4, <2>3 DEF WritesOK, StampedBy, Derived
  <2> QED
    BY <2>2, <2>3
<1>5. sess' = [sess EXCEPT ![s].phase = "stop_derived", ![s].sw = sw]
      /\ UNCHANGED <<pkg, stop, orderStatus, overtaken>>
  BY DEF RecomputeStop
<1>6. sw \in [touched -> StopColumnValues] /\ touched \in SUBSET Stops
  BY <1>2, <1>h
<1>7. DOMAIN sw = touched /\ \A t \in touched : sw[t] = StopColumns(s, t) /\ t \in StopsOf(x.req)
  OBVIOUS
<1> HIDE DEF touched, sw
<1>8. sw \in StopWrites /\ x.pw \in PackageRows
  BY <1>6, <1>h, StopWritesOver, TransactionParts
<1> DEFINE y == FlushedRow(x, "stop_derived", x.pw, sw)
<1>9. sess' = [sess EXCEPT ![s] = y]
  <2>1. sess' = [sess EXCEPT ![s] = DeriveOf(sess[s], "stop_derived", sw)]
    BY <1>5 DEF DeriveOf, StampInv, TablesInv
  <2>2. DeriveOf(x, "stop_derived", sw) = y
    BY <1>h, <1>8, DerivedIs DEF Phases
  <2> QED
    BY <2>1, <2>2, Zenon
<1>10. y.phase = "stop_derived" /\ y.req = x.req /\ y.pw = x.pw /\ y.sw = sw
  BY FlushedParts
<1>11. WritesOK(y, stop)
  <2> HIDE DEF y
  <2>1. \A p \in DOMAIN y.pw : y.pw[p] \in RETURN_IN_TRANSIT_STATUSES => StampedBy(y, stop, p)
    BY <1>4, <1>7, <1>10 DEF StampedBy, Derived
  <2>2. \A t \in DOMAIN y.sw : y.sw[t].status \in {"RETURN_IN_TRANSIT", "DISPOSED"}
                                => y.sw[t].return_resolution # Null
    BY <1>2, <1>3, <1>7, <1>10
  <2> QED
    BY <1>10, <2>1, <2>2 DEF WritesOK
<1> QED
  BY <1>p, <1>5, <1>8, <1>9, <1>11, FlushStep DEF Phases

-----------------------------------------------------------------------------
(* Loading, committing, and the driver.                                    *)

LEMMA IdleOK ==
    ASSUME NEW rows
    PROVE  Idle \in TransactionRow /\ Idle.phase = "idle" /\ LoadedOK(Idle, rows) /\ WritesOK(Idle, rows)
<1>1. /\ Idle.phase = "idle" /\ Idle.pkgs = NoWrites /\ Idle.stops = NoWrites
      /\ Idle.pw = NoWrites /\ Idle.sw = NoWrites
  BY DEF Idle, Loaded
<1>2. Idle \in TransactionRow
  BY NoWritesIs DEF Idle, Loaded, TransactionRow, Phases
<1> QED
  BY <1>1, <1>2, NoWritesIs DEF LoadedOK, WritesOK

LEMMA IdleCurrent ==
    ASSUME NEW rows, NEW status
    PROVE  CurrentOK(Idle, rows, status)
<1>1. Idle.phase = "idle"
  BY DEF Idle, Loaded
<1> QED
  BY <1>1 DEF CurrentOK

LEMMA StopsOfAre ==
    ASSUME NEW r, r.on \subseteq Packages
    PROVE  StopsOf(r) \subseteq Stops
BY StopOfAssumption DEF StopsOf

LEMMA StartKeeps ==
    ASSUME StampInv, NEW s \in Sessions, NEW r \in AnyRequest, StartRequest(s, r)
    PROVE  StepOK
<1>0. r.on \subseteq Packages /\ StopsOf(r) \subseteq Stops
  BY AnyRequestOK, StopsOfAre DEF RequestOK
<1> DEFINE rows == [t \in StopsOf(r) |-> stop[t]]
           split == r.level = "stop" /\ r.kind \in {"reschedule", "initiate_return", "found", "resolve"}
           packages == IF split THEN NoWrites ELSE [p \in r.on |-> pkg[p]]
           y == Loaded(r, IF split THEN "list" ELSE "loaded", packages, rows, orderStatus)
<1>1. sess' = [sess EXCEPT ![s] = y] /\ UNCHANGED <<pkg, stop, orderStatus, overtaken>>
  BY DEF StartRequest
<1>2. rows \in [StopsOf(r) -> StopRow] /\ DOMAIN rows = StopsOf(r)
  BY <1>0 DEF StampInv, TablesInv
<1>3. \A t \in DOMAIN rows : rows[t].return_initiated => stop[t].return_initiated
  OBVIOUS
<1>4. /\ packages \in PackageRows
      /\ \A p \in DOMAIN packages : packages[p] \in RETURN_IN_TRANSIT_STATUSES
                                      => stop[StopOf[p]].return_initiated
      /\ split \/ DOMAIN packages = r.on
      /\ \A p \in DOMAIN packages : packages[p] = pkg[p]
  <2>1. CASE split
    BY <2>1, NoWritesIs
  <2>2. CASE ~split
    <3>1. packages = [p \in r.on |-> pkg[p]]
      BY <2>2
    <3>2. packages \in [r.on -> PackageStatus] /\ DOMAIN packages = r.on
          /\ \A p \in r.on : packages[p] = pkg[p]
      <4> HIDE DEF packages
      <4> QED
        BY <1>0, <3>1 DEF StampInv, TablesInv
    <3> HIDE DEF packages
    <3>3. packages \in PackageRows
      BY <1>0, <3>2, PackageRowsOver
    <3> QED
      BY <1>0, <3>2, <3>3 DEF StampInv, InitiatedIsStamped
  <2> QED
    BY <2>1, <2>2
<1>5. rows \in StopRows
  BY <1>0, <1>2, StopRowsOver
<1>6. /\ y.phase = (IF split THEN "list" ELSE "loaded") /\ y.req = r /\ y.pkgs = packages
      /\ y.stops = rows /\ y.pw = NoWrites /\ y.sw = NoWrites /\ y.order = orderStatus
  BY DEF Loaded
<1>7. y \in TransactionRow
  <2>1. (IF split THEN "list" ELSE "loaded") \in Phases /\ orderStatus \in OrderStatus
    BY DEF Phases, StampInv, TablesInv
  <2> HIDE DEF packages, rows, split
  <2> QED
    BY <1>4, <1>5, <2>1, NoWritesIs DEF Loaded, TransactionRow
<1>8. LoadedOK(y, stop) /\ WritesOK(y, stop)
  <2> HIDE DEF y, packages, rows, split
  <2> QED
    BY <1>2, <1>3, <1>4, <1>6, NoWritesIs DEF LoadedOK, WritesOK
<1>9. CurrentOK(y, pkg, orderStatus)
  <2> HIDE DEF y, packages, rows, split
  <2> QED
    BY <1>6 DEF CurrentOK
<1> QED
  <2> HIDE DEF y
  <2> QED
    BY <1>1, <1>7, <1>8, <1>9, OwnStep

ListOf(x, phase, packages) == [x EXCEPT !.phase = phase, !.pkgs = packages]

LEMMA ListedIs ==
    ASSUME NEW x \in TransactionRow, NEW phase \in Phases, NEW f \in PackageRows
    PROVE  /\ ListOf(x, phase, f) \in TransactionRow
           /\ LET y == ListOf(x, phase, f)
              IN  /\ y.phase = phase /\ y.req = x.req /\ y.pkgs = f /\ y.stops = x.stops
                  /\ y.pw = x.pw /\ y.sw = x.sw /\ y.order = x.order /\ y.ow = x.ow
BY DEF ListOf, TransactionRow

LEMMA ListKeeps ==
    ASSUME StampInv, NEW s \in Sessions, ListPackages(s)
    PROVE  StepOK
<1> PICK x : x = sess[s]
  OBVIOUS
<1> DEFINE f == [p \in x.req.on |-> pkg[p]]
<1>1. x \in TransactionRow /\ LoadedOK(x, stop) /\ WritesOK(x, stop)
  BY DEF StampInv, TablesInv
<1>2. x.phase = "list" /\ x.req \in AnyRequest
  BY <1>1 DEF ListPackages, LoadedOK
<1>3. x.req.on \subseteq Packages
  BY <1>2, AnyRequestOK DEF RequestOK
<1>4. sess' = [sess EXCEPT ![s] = ListOf(x, "loaded", f)] /\ UNCHANGED <<pkg, stop, orderStatus, overtaken>>
  BY DEF ListPackages, ListOf, StampInv, TablesInv
<1>5. f \in [x.req.on -> PackageStatus] /\ DOMAIN f = x.req.on
  BY <1>3 DEF StampInv, TablesInv
<1>6. \A p \in DOMAIN f : f[p] \in RETURN_IN_TRANSIT_STATUSES => stop[StopOf[p]].return_initiated
  BY <1>3 DEF StampInv, InitiatedIsStamped
<1> HIDE DEF f
<1>7. f \in PackageRows
  BY <1>3, <1>5, PackageRowsOver
<1> DEFINE y == ListOf(x, "loaded", f)
<1>8. y \in TransactionRow /\ y.phase = "loaded" /\ y.req = x.req /\ y.pkgs = f /\ y.stops = x.stops
      /\ y.pw = x.pw /\ y.sw = x.sw /\ y.order = x.order
  <2>1. "loaded" \in Phases
    BY DEF Phases
  <2> QED
    BY <1>1, <1>7, <2>1, ListedIs, SMT
<1> HIDE DEF y
<1>9. LoadedOK(y, stop)
  BY <1>1, <1>2, <1>5, <1>6, <1>8 DEF LoadedOK
<1>10. WritesOK(y, stop)
  BY <1>1, <1>2, <1>8 DEF WritesOK, StampedBy, Derived
<1>11. ASSUME CurrentOK(x, pkg, orderStatus)
       PROVE  CurrentOK(y, pkg, orderStatus)
  BY <1>2, <1>8, <1>11 DEF CurrentOK
<1> QED
  BY <1>4, <1>8, <1>9, <1>10, <1>11, OwnStep DEF y

OrderOf(x, phase, status) == [x EXCEPT !.phase = phase, !.ow = status]

LEMMA OrderedIs ==
    ASSUME NEW x \in TransactionRow, NEW phase \in Phases, NEW v \in OrderStatus \cup {Null}
    PROVE  /\ OrderOf(x, phase, v) \in TransactionRow
           /\ LET y == OrderOf(x, phase, v)
              IN  /\ y.phase = phase /\ y.req = x.req /\ y.pkgs = x.pkgs /\ y.stops = x.stops
                  /\ y.pw = x.pw /\ y.sw = x.sw /\ y.order = x.order /\ y.ow = v
BY DEF OrderOf, TransactionRow

LEMMA OrderStatusRange ==
    ASSUME NEW view
    PROVE  ResolveOrderStatus(view) \in OrderStatus \cup {Null}
BY DEF ResolveOrderStatus, OrderStatus

LEMMA RecomputeOrderIs ==
    ASSUME StampInv, NEW s \in Sessions, RecomputeOrderStatus(s), NEW x, x = sess[s]
    PROVE  LET new == ResolveOrderStatus(View(s))
               v == IF new = x.order THEN Null ELSE new
           IN  /\ x.phase = "stops_done"
               /\ v \in OrderStatus \cup {Null}
               /\ sess' = [sess EXCEPT ![s] = OrderOf(x, "order_derived", v)]
               /\ UNCHANGED <<pkg, stop, orderStatus, overtaken>>
<1> PICK new : new = ResolveOrderStatus(View(s))
  OBVIOUS
<1>1. new \in OrderStatus \cup {Null}
  BY OrderStatusRange
<1>2. sess' = [sess EXCEPT ![s] = OrderOf(x, "order_derived", IF new = x.order THEN Null ELSE new)]
  BY DEF RecomputeOrderStatus, OrderOf, StampInv, TablesInv
<1> QED
  BY <1>1, <1>2 DEF RecomputeOrderStatus

LEMMA RecomputeOrderKeeps ==
    ASSUME StampInv, NEW s \in Sessions, RecomputeOrderStatus(s)
    PROVE  StepOK
<1> PICK x : x = sess[s]
  OBVIOUS
<1> PICK v : v = IF ResolveOrderStatus(View(s)) = x.order THEN Null ELSE ResolveOrderStatus(View(s))
  OBVIOUS
<1>1. /\ x.phase = "stops_done" /\ v \in OrderStatus \cup {Null}
      /\ sess' = [sess EXCEPT ![s] = OrderOf(x, "order_derived", v)]
      /\ UNCHANGED <<pkg, stop, orderStatus, overtaken>>
  BY RecomputeOrderIs
<1> DEFINE y == OrderOf(x, "order_derived", v)
<1>2. x \in TransactionRow /\ LoadedOK(x, stop) /\ WritesOK(x, stop)
  BY DEF StampInv, TablesInv
<1>3. y \in TransactionRow /\ y.phase = "order_derived" /\ y.req = x.req /\ y.pkgs = x.pkgs
      /\ y.stops = x.stops /\ y.pw = x.pw /\ y.sw = x.sw /\ y.order = x.order /\ y.ow = v
  <2>1. "order_derived" \in Phases
    BY DEF Phases
  <2> QED
    BY <1>1, <1>2, <2>1, OrderedIs, SMT
<1> HIDE DEF y
<1>4. LoadedOK(y, stop)
  BY <1>1, <1>2, <1>3 DEF LoadedOK
<1>5. WritesOK(y, stop)
  BY <1>1, <1>2, <1>3 DEF WritesOK, StampedBy, Derived
<1>6. ASSUME CurrentOK(x, pkg, orderStatus)
      PROVE  CurrentOK(y, pkg, orderStatus)
  <2>1. View(s) = Seen(pkg, x.pw)
    BY DEF View, Seen
  <2>2. x.order = orderStatus
    BY <1>1, <1>6 DEF CurrentOK
  <2>3. DerivedFrom(y, pkg, orderStatus)
    BY <1>3, <2>1, <2>2 DEF DerivedFrom
  <2> QED
    BY <1>3, <2>2, <2>3 DEF CurrentOK
<1> QED
  BY <1>1, <1>3, <1>4, <1>5, <1>6, OwnStep DEF y

LEMMA RollbackKeeps ==
    ASSUME StampInv, NEW s \in Sessions, RollbackRequest(s)
    PROVE  StepOK
<1>1. /\ sess' = [sess EXCEPT ![s] = Idle] /\ UNCHANGED <<pkg, stop, orderStatus>>
      /\ overtaken' = overtaken \ {s}
  BY DEF RollbackRequest
<1> QED
  BY <1>1, IdleOK, IdleCurrent, OwnStep

\* More stamps, and nothing else, keep what a transaction relies on.
LEMMA StampsGrow ==
    ASSUME NEW x \in TransactionRow, NEW a, NEW b,
           \A t \in Stops : a[t].return_initiated => b[t].return_initiated,
           LoadedOK(x, a), WritesOK(x, a)
    PROVE  LoadedOK(x, b) /\ WritesOK(x, b)
<1>1. DOMAIN x.stops \subseteq Stops /\ DOMAIN x.pkgs \subseteq Packages /\ DOMAIN x.pw \subseteq Packages
  BY TransactionParts, PackageRowsAre, StopRowsAre
<1>2. \A p \in Packages : StopOf[p] \in Stops
  BY StopOfAssumption
<1>3. LoadedOK(x, b)
  BY <1>1, <1>2 DEF LoadedOK
<1>4. \A p \in DOMAIN x.pw : StampedBy(x, a, p) => StampedBy(x, b, p)
  BY <1>1, <1>2 DEF StampedBy
<1> QED
  BY <1>3, <1>4 DEF WritesOK

LEMMA UpdatedIs ==
    ASSUME NEW row \in StopRow, NEW c \in StopColumnValues
    PROVE  /\ Updated(row, c) \in StopRow
           /\ Updated(row, c).return_initiated = (row.return_initiated \/ c.return_initiated)
           /\ Updated(row, c).status = IF c.status = Null THEN row.status ELSE c.status
           /\ Updated(row, c).return_resolution = IF c.return_resolution = Null
                                                  THEN row.return_resolution ELSE c.return_resolution
BY DEF Updated, StopRow, StopColumnValues

\* The end of a request leaves every other one current, or overtakes it.
LEMMA OthersTrack ==
    ASSUME NEW s \in Sessions, sess \in [Sessions -> TransactionRow],
           sess' = [sess EXCEPT ![s] = Idle], overtaken' = Overtaken(s)
    PROVE  \A u \in Sessions : Tracks(u) => Tracks(u)'
<1> SUFFICES ASSUME NEW u \in Sessions, Tracks(u), u \notin overtaken'
             PROVE  CurrentOK(sess'[u], pkg', orderStatus')
  BY DEF Tracks
<1>1. CASE u = s
  BY <1>1, IdleCurrent
<1>2. CASE u # s
  <2>1. sess'[u] = sess[u] /\ u \notin overtaken
        /\ (sess[u].phase # "idle" => orderStatus' = orderStatus)
        /\ (sess[u].phase = "order_derived" => pkg' = pkg)
    BY <1>2 DEF Overtaken
  <2>2. CurrentOK(sess[u], pkg, orderStatus)
    BY <2>1 DEF Tracks
  <2> QED
    BY <2>1, <2>2 DEF CurrentOK
<1> QED
  BY <1>1, <1>2

LEMMA CommitKeeps ==
    ASSUME StampInv, NEW s \in Sessions, CommitRequest(s)
    PROVE  StepOK
<1> PICK x : x = sess[s]
  OBVIOUS
<1>1. x.phase = "order_derived" /\ x \in TransactionRow /\ WritesOK(x, stop)
  BY InHand DEF CommitRequest
<1>2. x.pw \in PackageRows /\ x.sw \in StopWrites /\ x.ow \in OrderStatus \cup {Null}
  BY <1>1, TransactionParts
<1>3. pkg' = Seen(pkg, x.pw) /\ sess' = [sess EXCEPT ![s] = Idle]
  BY DEF CommitRequest, View, Seen
<1>4. stop' = [t \in Stops |-> IF t \in DOMAIN x.sw THEN Updated(stop[t], x.sw[t]) ELSE stop[t]]
  BY DEF CommitRequest
<1>5. \A t \in Stops : /\ stop[t] \in StopRow
                       /\ t \in DOMAIN x.sw => x.sw[t] \in StopColumnValues
  BY <1>2, StopWritesAre DEF StampInv, TablesInv
<1>6. \A t \in Stops : t \in DOMAIN x.sw =>
        /\ stop'[t] \in StopRow
        /\ stop'[t].return_initiated = (stop[t].return_initiated \/ x.sw[t].return_initiated)
        /\ stop'[t].status = IF x.sw[t].status = Null THEN stop[t].status ELSE x.sw[t].status
        /\ stop'[t].return_resolution = IF x.sw[t].return_resolution = Null
                                        THEN stop[t].return_resolution ELSE x.sw[t].return_resolution
  BY <1>4, <1>5, UpdatedIs
<1>7. \A t \in Stops : t \notin DOMAIN x.sw => stop'[t] = stop[t]
  BY <1>4
<1>8. TablesInv'
  <2>1. pkg' \in [Packages -> PackageStatus]
    BY <1>2, <1>3, SeenType DEF StampInv, TablesInv
  <2>2. stop' \in [Stops -> StopRow]
    BY <1>4, <1>5, <1>6, <1>7
  <2>3. orderStatus' \in OrderStatus
    BY <1>2 DEF CommitRequest, StampInv, TablesInv
  <2>4. sess' \in [Sessions -> TransactionRow]
    BY <1>3, IdleOK DEF StampInv, TablesInv
  <2> QED
    BY <2>1, <2>2, <2>3, <2>4 DEF TablesInv
<1>9. \A t \in Stops : stop[t].return_initiated => stop'[t].return_initiated
  BY <1>6, <1>7
<1>10. InitiatedIsStamped'
  <2> SUFFICES ASSUME NEW p \in Packages, pkg'[p] \in RETURN_IN_TRANSIT_STATUSES
               PROVE  stop'[StopOf[p]].return_initiated
    BY DEF InitiatedIsStamped
  <2>1. StopOf[p] \in Stops
    BY StopOfAssumption
  <2>2. CASE p \in DOMAIN x.pw
    <3>1. x.pw[p] \in RETURN_IN_TRANSIT_STATUSES
      BY <1>3, <2>2 DEF Seen
    <3>2. StampedBy(x, stop, p)
      BY <1>1, <2>2, <3>1 DEF WritesOK
    <3> QED
      BY <1>1, <1>6, <1>9, <2>1, <3>2 DEF StampedBy
  <2>3. CASE p \notin DOMAIN x.pw
    BY <1>3, <1>9, <2>1, <2>3 DEF Seen, StampInv, InitiatedIsStamped
  <2> QED
    BY <2>2, <2>3
<1>11. InTransitStopIsResolved'
  <2> SUFFICES ASSUME NEW t \in Stops, stop'[t].status \in {"RETURN_IN_TRANSIT", "DISPOSED"}
               PROVE  stop'[t].return_resolution # Null
    BY DEF InTransitStopIsResolved
  <2>1. CASE t \in DOMAIN x.sw
    BY <1>1, <1>6, <2>1 DEF WritesOK, StampInv, InTransitStopIsResolved
  <2>2. CASE t \notin DOMAIN x.sw
    BY <1>7, <2>2 DEF StampInv, InTransitStopIsResolved
  <2> QED
    BY <2>1, <2>2
<1>12. \A u \in Sessions : LoadedOK(sess'[u], stop') /\ WritesOK(sess'[u], stop')
  <2> PICK b : b = stop'
    OBVIOUS
  <2> TAKE u \in Sessions
  <2>1. CASE u = s
    BY <1>3, <2>1, IdleOK DEF StampInv, TablesInv
  <2>2. CASE u # s
    <3>1. sess'[u] = sess[u] /\ sess[u] \in TransactionRow
          /\ LoadedOK(sess[u], stop) /\ WritesOK(sess[u], stop)
      BY <1>3, <2>2 DEF StampInv, TablesInv
    <3>2. LoadedOK(sess[u], b) /\ WritesOK(sess[u], b)
      BY <1>9, <3>1, StampsGrow
    <3> QED
      BY <3>1, <3>2
  <2> QED
    BY <2>1, <2>2
<1>13. StampInv'
  BY <1>8, <1>10, <1>11, <1>12 DEF StampInv
<1>14. \A u \in Sessions : Tracks(u) => Tracks(u)'
  BY <1>3, OthersTrack DEF CommitRequest, StampInv, TablesInv
<1> QED
  BY <1>13, <1>14 DEF StepOK

LEMMA DriverKeeps ==
    ASSUME StampInv, NEW s \in Sessions, NEW todo, sess[s].phase = "loaded",
           sess[s].req.kind \in DriverKinds, UpdatePackageStatus(s, todo)
    PROVE  StepOK
<1> PICK x : x = sess[s]
  OBVIOUS
<1>1. x.req.arg \in PackageStatus \ (RETURN_IN_TRANSIT_STATUSES \cup {"CANCELLED"})
  BY InHand DEF RequestOK
<1>2. /\ \A p \in Packages : pkg'[p] = pkg[p] \/ pkg'[p] = x.req.arg
      /\ DOMAIN pkg' = Packages /\ pkg' = [p \in Packages |-> pkg'[p]]
      /\ UNCHANGED <<stop, orderStatus>> /\ sess' = [sess EXCEPT ![s] = Idle]
  BY DEF UpdatePackageStatus
<1>3. pkg' \in [Packages -> PackageStatus]
  BY <1>1, <1>2 DEF StampInv, TablesInv
<1>4. sess' \in [Sessions -> TransactionRow]
  BY <1>2, IdleOK DEF StampInv, TablesInv
<1>5. TablesInv'
  BY <1>2, <1>3, <1>4 DEF StampInv, TablesInv
<1>6. InitiatedIsStamped' /\ InTransitStopIsResolved'
  BY <1>1, <1>2 DEF StampInv, InitiatedIsStamped, InTransitStopIsResolved
<1>7. \A u \in Sessions : LoadedOK(sess'[u], stop) /\ WritesOK(sess'[u], stop)
  <2> TAKE u \in Sessions
  <2>1. sess'[u] = Idle \/ sess'[u] = sess[u]
    BY <1>2 DEF StampInv, TablesInv
  <2> QED
    BY <2>1, IdleOK DEF StampInv
<1>8. StampInv'
  BY <1>2, <1>5, <1>6, <1>7 DEF StampInv
<1>9. \A u \in Sessions : Tracks(u) => Tracks(u)'
  BY <1>2, OthersTrack DEF UpdatePackageStatus, StampInv, TablesInv
<1> QED
  BY <1>8, <1>9 DEF StepOK

-----------------------------------------------------------------------------
(* Every step of the system.                                               *)

LEMMA OrdersInitHolds == OrdersInit => StampInv
<1> SUFFICES ASSUME OrdersInit PROVE StampInv
  OBVIOUS
<1>0. Reported \subseteq PackageStatus \ RETURN_IN_TRANSIT_STATUSES
  BY ReportedAssumption
     DEF PackageStatus, RETURN_IN_TRANSIT_STATUSES, PACKAGE_DRIVER_PATCH_DELIVERY_STATUSES
<1>1. TablesInv
  BY <1>0, IdleOK DEF OrdersInit, TablesInv, OrderStatus, StopRow, DeliveryStopStatus
<1>2. InitiatedIsStamped /\ InTransitStopIsResolved
  BY <1>0 DEF OrdersInit, InitiatedIsStamped, InTransitStopIsResolved, RETURN_IN_TRANSIT_STATUSES
<1>3. \A s \in Sessions : LoadedOK(sess[s], stop) /\ WritesOK(sess[s], stop)
  BY IdleOK DEF OrdersInit
<1> QED
  BY <1>1, <1>2, <1>3 DEF StampInv

\* The driver's steps are updates of packages by a request of the driver.
DriverUpdate(s) ==
    /\ sess[s].phase = "loaded" /\ sess[s].req.kind \in DriverKinds
    /\ \E todo \in SUBSET Packages : UpdatePackageStatus(s, todo)

LEMMA DriverStepIs ==
    ASSUME StampInv, NEW s \in Sessions, DriverStep(s)
    PROVE  DriverUpdate(s)
<1>1. sess[s].phase = "loaded" /\ sess[s].req.kind \in DriverKinds
  BY DEF DriverStep, PickupScan, ScanMasterLabel, SetDeliveryStatus, SetReturnStatus,
         SetReturnStatusBatch, ReportMissing, Handles, DriverKinds
<1>2. sess[s].req.on \in SUBSET Packages /\ Eligible(s, {"PENDING_PICKUP"}) \in SUBSET Packages
  BY <1>1, InHand DEF Eligible
<1>3. \/ UpdatePackageStatus(s, sess[s].req.on)
      \/ UpdatePackageStatus(s, Eligible(s, {"PENDING_PICKUP"}))
  BY DEF DriverStep, PickupScan, ScanMasterLabel, SetDeliveryStatus, SetReturnStatus,
         SetReturnStatusBatch, ReportMissing
<1> QED
  BY <1>1, <1>2, <1>3 DEF DriverUpdate

\* The moves by the request that makes them.
MoveStep(s) ==
    \/ InitiateStopReturn(s) \/ InitiatePackageReturn(s)
    \/ MarkStopAsFound(s) \/ MarkPackageAsFound(s) \/ ResolvePackageReturn(s)

LEMMA MoveStepIs ==
    ASSUME StampInv, NEW s \in Sessions, MoveStep(s)
    PROVE  /\ sess[s].phase = "loaded" /\ sess[s].req.kind \in MoveKinds /\ sess[s].req.level # "order"
           /\ \/ /\ sess[s].req.kind = "initiate_return"
                 /\ MovePackages(s, RETURNABLE_PACKAGE_STATUSES, "RETURN_INITIATED")
              \/ /\ sess[s].req.kind = "found"
                 /\ MovePackages(s, {"MISSING"}, "AT_WAREHOUSE")
              \/ /\ sess[s].req.kind = "resolve"
                 /\ MovePackages(s, RESOLVABLE_RETURN_PACKAGE_STATUSES,
                                 ResolvedPackageStatus(sess[s].req.arg))
BY DEF MoveStep, InitiateStopReturn, InitiatePackageReturn, MarkStopAsFound, MarkPackageAsFound,
       ResolvePackageReturn, Handles, MoveKinds

LEMMA ResolvedStatusType ==
    ASSUME NEW a
    PROVE  ResolvedPackageStatus(a) \in PackageStatus \ {"CANCELLED"}
BY DEF ResolvedPackageStatus, PackageStatus

LEMMA MoveStepKeeps ==
    ASSUME StampInv, NEW s \in Sessions, MoveStep(s)
    PROVE  StepOK
<1>1. /\ "RETURN_INITIATED" \in PackageStatus \ {"CANCELLED"}
      /\ "AT_WAREHOUSE" \in PackageStatus \ {"CANCELLED"}
      /\ ResolvedPackageStatus(sess[s].req.arg) \in PackageStatus \ {"CANCELLED"}
  BY ResolvedStatusType DEF PackageStatus
<1>2. CASE sess[s].req.kind = "initiate_return"
  BY <1>1, <1>2, MoveStepIs, MoveKeeps
<1>3. CASE sess[s].req.kind = "found"
  BY <1>1, <1>3, MoveStepIs, MoveKeeps
<1>4. CASE sess[s].req.kind = "resolve"
  BY <1>1, <1>4, MoveStepIs, MoveKeeps
<1> QED
  BY <1>2, <1>3, <1>4, MoveStepIs DEF MoveKinds

LEMMA OrderStepKeeps ==
    ASSUME StampInv, NEW s \in Sessions, OrderStep(s)
    PROVE  StepOK
<1>1. CASE CancelOrder(s) \/ CancelDeliveryStop(s)
  BY <1>1, CancelKeeps DEF CancelOrder, CancelDeliveryStop, Handles
<1>2. CASE RescheduleStop(s) \/ ReschedulePackage(s)
  BY <1>2, RescheduleKeeps DEF RescheduleStop, ReschedulePackage, Handles
<1>3. CASE MoveStep(s)
  BY <1>3, MoveStepKeeps
<1> QED
  BY <1>1, <1>2, <1>3, MarkCancelledKeeps, ResolveStopKeeps, EditKeeps, RecomputeStopKeeps,
     FlushStopKeeps, RecomputeOrderKeeps, CommitKeeps DEF OrderStep, MoveStep

LEMMA OrdersNextOK ==
    ASSUME StampInv, OrdersNext
    PROVE  StepOK
<1> PICK s \in Sessions :
      \/ \E r \in AnyRequest : StartRequest(s, r)
      \/ ListPackages(s) \/ OrderStep(s) \/ DriverStep(s) \/ RollbackRequest(s)
  BY DEF OrdersNext, AnyRequest
<1>1. CASE DriverStep(s)
  <2>1. PICK todo : UpdatePackageStatus(s, todo)
    BY <1>1, DriverStepIs DEF DriverUpdate
  <2> QED
    BY <1>1, <2>1, DriverStepIs, DriverKeeps DEF DriverUpdate
<1> QED
  BY <1>1, StartKeeps, ListKeeps, OrderStepKeeps, RollbackKeeps

LEMMA OrdersNextKeeps == StampInv /\ [OrdersNext]_ordersVars => StampInv'
<1> SUFFICES ASSUME StampInv, [OrdersNext]_ordersVars PROVE StampInv'
  OBVIOUS
<1>1. CASE UNCHANGED ordersVars
  BY <1>1 DEF ordersVars, StampInv, TablesInv, InitiatedIsStamped, InTransitStopIsResolved
<1>2. CASE OrdersNext
  BY <1>2, OrdersNextOK DEF StepOK
<1> QED
  BY <1>1, <1>2

\* The inductive invariant behind the stamps of stops, whatever requests overlap.
THEOREM StampInvariant == OrdersSpec => []StampInv
BY OrdersInitHolds, OrdersNextKeeps, PTL DEF OrdersSpec

\* A package on its way back is on a stop that is stamped, whatever requests overlap.
THEOREM ReturnsAreStamped == OrdersSpec => []InitiatedIsStamped
<1>1. StampInv => InitiatedIsStamped
  BY DEF StampInv
<1> QED
  BY <1>1, StampInvariant, PTL

\* A stop in transit or disposed of is resolved, whatever requests overlap.
THEOREM ReturnsAreResolved == OrdersSpec => []InTransitStopIsResolved
<1>1. StampInv => InTransitStopIsResolved
  BY DEF StampInv
<1> QED
  BY <1>1, StampInvariant, PTL

-----------------------------------------------------------------------------
(* The status of the order.                                                *)

TrackInv == StampInv /\ \A u \in Sessions : Tracks(u)

LEMMA TrackInit == OrdersInit => TrackInv
BY OrdersInitHolds, IdleCurrent DEF OrdersInit, TrackInv, Tracks

LEMMA TrackKeeps == TrackInv /\ [OrdersNext]_ordersVars => TrackInv'
<1> SUFFICES ASSUME TrackInv, [OrdersNext]_ordersVars PROVE TrackInv'
  OBVIOUS
<1>1. CASE UNCHANGED ordersVars
  <2>1. StampInv'
    BY OrdersNextKeeps DEF TrackInv
  <2> QED
    BY <1>1, <2>1 DEF ordersVars, TrackInv, Tracks
<1>2. CASE OrdersNext
  BY <1>2, OrdersNextOK DEF TrackInv, StepOK
<1> QED
  BY <1>1, <1>2

LEMMA TrackInvariant == OrdersSpec => []TrackInv
BY TrackInit, TrackKeeps, PTL DEF OrdersSpec

\* What a step that ends a request is.
LEMMA EndOfRequest ==
    ASSUME TrackInv, OrdersNext, pkg' # pkg, NEW u \in Sessions,
           sess[u].phase = "order_derived", sess'[u].phase = "idle"
    PROVE  CommitRequest(u)
<1> PICK s \in Sessions :
      \/ \E r \in AnyRequest : StartRequest(s, r)
      \/ ListPackages(s) \/ OrderStep(s) \/ DriverStep(s) \/ RollbackRequest(s)
  BY DEF OrdersNext, AnyRequest
<1>1. CASE OrderStep(s) /\ ~CommitRequest(s)
  BY <1>1 DEF OrderStep, CancelOrder, CancelDeliveryStop, ApplyPackageCancellations,
     MarkDeliveryStopCancelled, RescheduleStop, ReschedulePackage, Reschedule,
     InitiateStopReturn, InitiatePackageReturn, MarkStopAsFound, MarkPackageAsFound,
     ResolveStopReturn, ResolvePackageReturn, MovePackages, UpdateStopPackages,
     RecomputeStop, FlushStop, RecomputeOrderStatus, Flush
<1>2. CASE DriverStep(s)
  <2>1. PICK todo : UpdatePackageStatus(s, todo)
    BY <1>2, DriverStepIs DEF DriverUpdate, TrackInv
  <2>2. sess[s].phase = "loaded"
    BY <1>2, DriverStepIs DEF DriverUpdate, TrackInv
  <2>3. sess' = [sess EXCEPT ![s] = Idle]
    BY <2>1 DEF UpdatePackageStatus
  <2> QED
    BY <2>2, <2>3 DEF TrackInv, StampInv, TablesInv
<1>3. CASE CommitRequest(s)
  <2>1. sess' = [sess EXCEPT ![s] = Idle]
    BY <1>3 DEF CommitRequest
  <2>2. u = s
    BY <2>1 DEF TrackInv, StampInv, TablesInv
  <2> QED
    BY <1>3, <2>2
<1> QED
  BY <1>1, <1>2, <1>3 DEF StartRequest, ListPackages, RollbackRequest

\* Whatever requests overlap, one that is not overtaken leaves the order as its
\* packages say: it derives the status from a count that is still true at its
\* commit and compares it with a status of the order that is still the stored one.
THEOREM OrderFollowsPackages == OrdersSpec => OrderReflectsPackages
<1> DEFINE Good == \A s \in Sessions \ overtaken :
                     /\ sess[s].phase = "order_derived" /\ sess'[s].phase = "idle"
                     /\ pkg' # pkg
                     => ResolveOrderStatus(pkg') \in {Null, orderStatus'}
<1>1. TrackInv /\ [OrdersNext]_ordersVars => [Good]_ordersVars
  <2> SUFFICES ASSUME TrackInv, OrdersNext, pkg' # pkg, NEW s \in Sessions \ overtaken,
                      sess[s].phase = "order_derived", sess'[s].phase = "idle"
               PROVE  ResolveOrderStatus(pkg') \in {Null, orderStatus'}
    BY DEF ordersVars
  <2>1. CommitRequest(s)
    BY EndOfRequest
  <2> PICK x : x = sess[s]
    OBVIOUS
  <2> PICK new : new = ResolveOrderStatus(Seen(pkg, x.pw))
    OBVIOUS
  <2>2. x.ow = IF new = orderStatus THEN Null ELSE new
    BY DEF TrackInv, Tracks, CurrentOK, DerivedFrom
  <2>3. pkg' = Seen(pkg, x.pw) /\ orderStatus' = IF x.ow = Null THEN orderStatus ELSE x.ow
    BY <2>1 DEF CommitRequest, View, Seen
  <2>4. ResolveOrderStatus(pkg') = new
    BY <2>3
  <2> QED
    BY <2>2, <2>3, <2>4
<1> QED
  BY <1>1, TrackInvariant, PTL DEF OrdersSpec, OrderReflectsPackages
=============================================================================

------------------------------- MODULE Orders -------------------------------
(***************************************************************************)
(* The life of one order after it is placed: its packages, the delivery    *)
(* stops they go to and the status of the order, under the operations of   *)
(* OrderService (cancel, reschedule, return, found, resolve) and of the    *)
(* driver app (scan, set status, report missing).                          *)
(*                                                                         *)
(* Nothing here is locked or versioned by the code.  A request loads the   *)
(* rows it works on, checks the loaded values, flushes package updates,    *)
(* counts the packages per status with a fresh query, derives the status   *)
(* of the stop and then of the order from the counts, and commits.  An     *)
(* UPDATE holds its row until the commit; a flush writes only the columns  *)
(* that differ from the loaded ones.                                       *)
(*                                                                         *)
(* Data: DELIVERED_TO_CUSTOMER stands for LEFT_AT_SAFE_PLACE too,          *)
(* REFUSED_BY_CUSTOMER for DAMAGED and PENDING_PICKUP for the other        *)
(* statuses before the pickup, which belong to the same sets.  No          *)
(* automation rule is configured; without one, nothing but these           *)
(* operations changes a status.                                            *)
(***************************************************************************)
EXTENDS Naturals, FiniteSets

CONSTANTS
    Sessions,       \* requests in progress at the same time
    Packages,
    Stops,
    StopOf,         \* the delivery stop of a package
    Kinds,          \* the operations of a run
    Reported,       \* what drivers have reported before the behaviour begins
    MaxRequests,    \* bound: requests per behaviour
    Null

ASSUME StopOfAssumption == StopOf \in [Packages -> Stops]
ASSUME OrderHasPackages == Packages # {} /\ IsFiniteSet(Packages)
ASSUME MaxRequestsAssumption == MaxRequests \in Nat

VARIABLES
    pkg,            \* committed status of each package
    stop,           \* committed columns of each stop
    orderStatus,    \* committed status of the order
    lock,           \* the session that has updated a package or stop row
    sess,           \* the open transactions
    overtaken,      \* history: the transactions behind another one's commit
    requests        \* requests started so far

ordersVars == <<pkg, stop, orderStatus, lock, sess, overtaken, requests>>

-----------------------------------------------------------------------------
PackageStatus ==
    {"PENDING_PICKUP", "AT_WAREHOUSE", "LOADED_FOR_DELIVERY",
     "DELIVERED_TO_CUSTOMER", "CUSTOMER_NOT_HOME", "REFUSED_BY_CUSTOMER",
     "MISSING", "RETURN_INITIATED", "RETURN_IN_TRANSIT", "RETURNED",
     "CANCELLED", "DISPOSED"}

OrderStatus ==
    {"PENDING_PICKUP", "PARTIALLY_DELIVERED", "DELIVERED", "FAILED",
     "RETURN_IN_PROGRESS", "RETURNED", "CANCELLED"}

DeliveryStopStatus ==
    {"PENDING_PICKUP", "DELIVERY_SCHEDULED", "DELIVERED", "PARTIALLY_DELIVERED",
     "FAILED", "CANCELLED", "RETURN_INITIATED", "RETURN_IN_TRANSIT",
     "RETURNED", "DISPOSED"}

ReturnResolution == {"RETURN_TO_SENDER", "DISPOSE"}

FAILED_PACKAGE_STATUSES ==
    {"CUSTOMER_NOT_HOME", "REFUSED_BY_CUSTOMER", "MISSING", "CANCELLED"}
RETURN_IN_TRANSIT_STATUSES == {"RETURN_INITIATED", "RETURN_IN_TRANSIT"}
RESCHEDULABLE_PACKAGE_STATUSES == {"CUSTOMER_NOT_HOME"}
RETURNABLE_PACKAGE_STATUSES ==
    {"CUSTOMER_NOT_HOME", "REFUSED_BY_CUSTOMER", "MISSING"}
RESOLVABLE_RETURN_PACKAGE_STATUSES == {"RETURN_INITIATED"}
PACKAGE_STATUSES_BLOCKING_CANCELLATION ==
    {"DELIVERED_TO_CUSTOMER", "RETURNED", "DISPOSED"}
        \cup RETURN_IN_TRANSIT_STATUSES
PACKAGE_STOP_RETURN_HUB_COMPLETE_STATUSES ==
    {"RETURNED", "DISPOSED", "CANCELLED", "CUSTOMER_NOT_HOME"}
PACKAGE_DRIVER_PATCH_DELIVERY_STATUSES ==
    {"DELIVERED_TO_CUSTOMER", "CUSTOMER_NOT_HOME", "REFUSED_BY_CUSTOMER"}
PACKAGE_DRIVER_PATCH_RETURN_STATUSES ==
    {"RETURNED", "DISPOSED", "CUSTOMER_NOT_HOME"}

StopRow == [status: DeliveryStopStatus,
            return_resolution: ReturnResolution \cup {Null},
            return_initiated: BOOLEAN]      \* return_initiated_at is set

\* The columns of a stop that an UPDATE sets: NULL or FALSE stand for a column
\* it leaves alone, because no UPDATE sets one of them back.
StopColumnValues == [status: DeliveryStopStatus \cup {Null},
                     return_resolution: ReturnResolution \cup {Null},
                     return_initiated: BOOLEAN]

\* PENDING_PICKUP stands for no report; a driver's report changes no stop and
\* no order.
ASSUME ReportedAssumption ==
    Reported \subseteq {"PENDING_PICKUP", "MISSING"} \cup PACKAGE_DRIVER_PATCH_DELIVERY_STATUSES

ASSUME NullAssumption ==
    Null \notin PackageStatus \cup OrderStatus \cup DeliveryStopStatus \cup ReturnResolution

PackagesOf(t) == {p \in Packages : StopOf[p] = t}

-----------------------------------------------------------------------------
(* The two derivations of a status from the packages.  `view' is what the  *)
(* GROUP BY query of the session sees.  FAILED_PACKAGE_STATUSES contains   *)
(* CANCELLED, and the sums count cancelled packages a second time.         *)

ResolveOrderStatus(view) ==
    LET count(S)  == Cardinality({p \in Packages : view[p] \in S})
        total     == Cardinality(Packages)
        delivered == count({"DELIVERED_TO_CUSTOMER"})
        cancelled == count({"CANCELLED"})
        returned  == count({"RETURNED", "DISPOSED"})
        inFlight  == count(RETURN_IN_TRANSIT_STATUSES)
        failed    == count(FAILED_PACKAGE_STATUSES)
    IN  IF returned = total THEN "RETURNED"
        ELSE IF cancelled = total THEN "CANCELLED"
        ELSE IF delivered = total THEN "DELIVERED"
        ELSE IF inFlight > 0 /\ inFlight + returned = total
             THEN "RETURN_IN_PROGRESS"
        ELSE IF /\ delivered > 0
                /\ delivered + failed + cancelled + returned + inFlight = total
             THEN "PARTIALLY_DELIVERED"
        ELSE IF failed = total THEN "FAILED"
        ELSE Null

ResolveStopStatus(view, t, active) ==
    LET count(S)  == Cardinality({p \in PackagesOf(t) : view[p] \in S})
        total     == Cardinality(PackagesOf(t))
        delivered == count({"DELIVERED_TO_CUSTOMER"})
        cancelled == count({"CANCELLED"})
        ended     == count({"RETURNED", "DISPOSED"})
        inTransit == count({"RETURN_IN_TRANSIT"})
        initiated == count({"RETURN_INITIATED"})
        failed    == count(FAILED_PACKAGE_STATUSES)
    IN  IF total = 0 THEN Null
        ELSE IF count({"RETURNED"}) = total THEN "RETURNED"
        ELSE IF count({"DISPOSED"}) = total THEN "DISPOSED"
        ELSE IF cancelled = total THEN "CANCELLED"
        ELSE IF delivered = total THEN "DELIVERED"
        ELSE IF inTransit > 0 /\ inTransit + ended = total
             THEN "RETURN_IN_TRANSIT"
        ELSE IF initiated > 0 /\ initiated + ended + inTransit = total
             THEN "RETURN_INITIATED"
        ELSE IF /\ delivered > 0
                /\ delivered + failed + cancelled + ended + inTransit
                     + initiated = total
             THEN "PARTIALLY_DELIVERED"
        ELSE active     \* every caller passes an active status

-----------------------------------------------------------------------------
(* Requests.  `on' are the packages a request names, directly or through   *)
(* their stop or order; `level' tells the three kinds of endpoint apart.   *)

Request(kind, level, on, arg) ==
    [kind |-> kind, level |-> level, on |-> on, arg |-> arg]

StopRequests(kind, args) ==
    {Request(kind, "stop", PackagesOf(t), a) : t \in Stops, a \in args}

PackageRequests(kind, args) ==
    {Request(kind, "package", {p}, a) : p \in Packages, a \in args}

StopAndPackageRequests(kind, args) ==
    StopRequests(kind, args) \cup PackageRequests(kind, args)

\* Several packages of one stop.
BatchRequests(kind, args) ==
    UNION {{Request(kind, "stop", b, a) :
              b \in {c \in SUBSET PackagesOf(t) : Cardinality(c) > 1}, a \in args}
           : t \in Stops}

OrderRequests ==
    {Request("cancel", "order", Packages, Null)}
        \cup StopRequests("cancel", {Null})
        \cup StopAndPackageRequests("reschedule", {Null})
        \cup StopAndPackageRequests("initiate_return", {Null})
        \cup StopAndPackageRequests("found", {Null})
        \cup StopAndPackageRequests("resolve", ReturnResolution)
        \cup StopRequests("edit", {Null})

DriverRequests ==
    {Request("pickup_scan", "order", b, "LOADED_FOR_DELIVERY") : b \in SUBSET Packages \ {{}}}
        \cup StopRequests("master_label", {"LOADED_FOR_DELIVERY"})
        \cup PackageRequests("deliver", PACKAGE_DRIVER_PATCH_DELIVERY_STATUSES)
        \cup PackageRequests("return_leg", PACKAGE_DRIVER_PATCH_RETURN_STATUSES)
        \cup BatchRequests("return_leg", PACKAGE_DRIVER_PATCH_RETURN_STATUSES)
        \cup PackageRequests("missing", {"MISSING"})

StopsOf(r) == {StopOf[p] : p \in r.on}

NoWrites == [x \in {} |-> Null]

(* A transaction: the loaded rows, the flushed package and stop columns    *)
(* (pw, sw) and the derived status of the order.                           *)
Loaded(r, phase, packages, stops, status) ==
    [phase |-> phase, req |-> r, pkgs |-> packages, stops |-> stops,
     order |-> status, pw |-> NoWrites, sw |-> NoWrites, ow |-> Null]

Idle == Loaded(Null, "idle", NoWrites, NoWrites, Null)

OrdersInit ==
    /\ pkg \in [Packages -> Reported]
    /\ stop = [t \in Stops |-> [status |-> "PENDING_PICKUP", return_resolution |-> Null,
                                return_initiated |-> FALSE]]
    /\ orderStatus = "PENDING_PICKUP"
    /\ lock = [x \in Packages \cup Stops |-> Null]
    /\ sess = [s \in Sessions |-> Idle]
    /\ overtaken = {}
    /\ requests = 0

-----------------------------------------------------------------------------
(* What session s reads: committed rows and its own updates.               *)
View(s) == [p \in Packages |-> IF p \in DOMAIN sess[s].pw THEN sess[s].pw[p] ELSE pkg[p]]

Free(s, rows) == \A x \in rows : lock[x] \in {Null, s}

Lock(s, rows) == [x \in DOMAIN lock |-> IF x \in rows THEN s ELSE lock[x]]

Unlock(s) == [x \in DOMAIN lock |-> IF lock[x] = s THEN Null ELSE lock[x]]

(* Most endpoints load everything in one statement; the stop endpoints of  *)
(* reschedule, return and found load the stop and its order first and the  *)
(* packages next.                                                          *)
StartRequest(s, r) ==
    LET rows == [t \in StopsOf(r) |-> stop[t]]
        split == r.level = "stop" /\ r.kind \in
                     {"reschedule", "initiate_return", "found", "resolve"}
        packages == IF split THEN NoWrites ELSE [p \in r.on |-> pkg[p]]
    IN  /\ sess[s].phase = "idle"
        /\ requests < MaxRequests
        /\ requests' = requests + 1
        /\ sess' = [sess EXCEPT ![s] =
              Loaded(r, IF split THEN "list" ELSE "loaded", packages, rows, orderStatus)]
        /\ UNCHANGED <<pkg, stop, orderStatus, lock, overtaken>>

ListPackages(s) ==
    /\ sess[s].phase = "list"
    /\ sess' = [sess EXCEPT ![s].phase = "loaded",
                            ![s].pkgs = [p \in sess[s].req.on |-> pkg[p]]]
    /\ UNCHANGED <<pkg, stop, orderStatus, lock, overtaken, requests>>

(* A commit of s overtakes the transactions that have loaded the order, if *)
(* it changes its status, and those that have counted the packages, if it  *)
(* changes one of them.                                                    *)
Overtaken(s) ==
    {u \in Sessions \ {s} :
       \/ u \in overtaken
       \/ sess[u].phase # "idle" /\ orderStatus' # orderStatus
       \/ sess[u].phase = "order_derived" /\ pkg' # pkg}

(* The packages of a request whose loaded status is one of S.              *)
Eligible(s, S) == {p \in sess[s].req.on : sess[s].pkgs[p] \in S}

(* The flush: it waits for the rows it updates and holds them.             *)
Flush(s, phase, pw, sw) ==
    /\ Free(s, DOMAIN pw \cup DOMAIN sw)
    /\ lock' = Lock(s, DOMAIN pw \cup DOMAIN sw)
    /\ sess' = [sess EXCEPT ![s].phase = phase, ![s].pw = pw, ![s].sw = sw]
    /\ UNCHANGED <<pkg, stop, orderStatus, overtaken, requests>>

SetStatus(packages, status) == [p \in packages |-> status]

(* An UPDATE of one or more columns of a stop.                             *)
Columns(status, resolution, initiated) ==
    [status |-> status, return_resolution |-> resolution, return_initiated |-> initiated]

NoColumns == Columns(Null, Null, FALSE)

Updated(row, columns) ==
    [status |-> IF columns.status = Null THEN row.status ELSE columns.status,
     return_resolution |-> IF columns.return_resolution = Null THEN row.return_resolution
                           ELSE columns.return_resolution,
     return_initiated |-> row.return_initiated \/ columns.return_initiated]

-----------------------------------------------------------------------------
(* OrderService, from the loaded rows to the flushed packages.             *)

Handles(s, kind, level) ==
    /\ sess[s].phase = "loaded"
    /\ sess[s].req.kind = kind
    /\ sess[s].req.level = level

ApplyPackageCancellations(s) ==
    LET todo == Eligible(s, PackageStatus \ {"CANCELLED"})
    IN  /\ Eligible(s, PACKAGE_STATUSES_BLOCKING_CANCELLATION) = {}
        /\ Flush(s, "cancelled", SetStatus(todo, "CANCELLED"), NoWrites)

CancelOrder(s) ==
    /\ Handles(s, "cancel", "order")
    /\ sess[s].order # "CANCELLED"
    /\ ApplyPackageCancellations(s)

(* A stop that is cancelled with all its packages is left as it is.        *)
CancelDeliveryStop(s) ==
    /\ Handles(s, "cancel", "stop")
    /\ \/ Eligible(s, PackageStatus \ {"CANCELLED"}) # {}
       \/ \E t \in StopsOf(sess[s].req) : sess[s].stops[t].status # "CANCELLED"
    /\ ApplyPackageCancellations(s)

MarkDeliveryStopCancelled(s) ==
    LET todo == {t \in StopsOf(sess[s].req) :
                    sess[s].stops[t].status # "CANCELLED"}
    IN  /\ sess[s].phase = "cancelled"
        /\ Flush(s, "stops_done", sess[s].pw,
                 [t \in todo |-> Columns("CANCELLED", Null, FALSE)])

(* Reschedule sets the stop in the same flush.  The column is written only *)
(* if it differs from the loaded one.                                      *)
Reschedule(s) ==
    LET todo == Eligible(s, RESCHEDULABLE_PACKAGE_STATUSES)
        moved == {t \in StopsOf(sess[s].req) :
                    sess[s].stops[t].status # "DELIVERY_SCHEDULED"}
    IN  /\ todo # {}
        /\ Flush(s, "stops_done", SetStatus(todo, "AT_WAREHOUSE"),
                 [t \in moved |-> Columns("DELIVERY_SCHEDULED", Null, FALSE)])

RescheduleStop(s) == Handles(s, "reschedule", "stop") /\ Reschedule(s)

ReschedulePackage(s) == Handles(s, "reschedule", "package") /\ Reschedule(s)

(* The eligible packages get a new status; the stop is derived after that. *)
MovePackages(s, eligible, status) ==
    LET todo == Eligible(s, eligible)
    IN  /\ todo # {}
        /\ Flush(s, "packages_done", SetStatus(todo, status), NoWrites)

InitiateStopReturn(s) ==
    /\ Handles(s, "initiate_return", "stop")
    /\ MovePackages(s, RETURNABLE_PACKAGE_STATUSES, "RETURN_INITIATED")

InitiatePackageReturn(s) ==
    /\ Handles(s, "initiate_return", "package")
    /\ MovePackages(s, RETURNABLE_PACKAGE_STATUSES, "RETURN_INITIATED")

MarkStopAsFound(s) ==
    /\ Handles(s, "found", "stop")
    /\ MovePackages(s, {"MISSING"}, "AT_WAREHOUSE")

MarkPackageAsFound(s) ==
    /\ Handles(s, "found", "package")
    /\ MovePackages(s, {"MISSING"}, "AT_WAREHOUSE")

ResolvedPackageStatus(resolution) ==
    IF resolution = "RETURN_TO_SENDER" THEN "RETURN_IN_TRANSIT" ELSE "DISPOSED"

NotResolvedYet(s) ==
    \A t \in StopsOf(sess[s].req) : sess[s].stops[t].return_resolution = Null

(* The whole stop: its status and the resolution go with the packages.     *)
ResolveStopReturn(s) ==
    LET r == sess[s].req
        todo == Eligible(s, RESOLVABLE_RETURN_PACKAGE_STATUSES)
        new == ResolvedPackageStatus(r.arg)
        columns(t) == Columns(IF sess[s].stops[t].status = new THEN Null ELSE new,
                              r.arg, FALSE)
    IN  /\ Handles(s, "resolve", "stop")
        /\ todo # {}
        /\ NotResolvedYet(s)
        /\ Flush(s, "stops_done", SetStatus(todo, new),
                 [t \in StopsOf(r) |-> columns(t)])

ResolvePackageReturn(s) ==
    /\ Handles(s, "resolve", "package")
    /\ NotResolvedYet(s)
    /\ MovePackages(s, RESOLVABLE_RETURN_PACKAGE_STATUSES,
                    ResolvedPackageStatus(sess[s].req.arg))

(* update_stop_packages: new sizes and prices, which are left out, then    *)
(* the status of the order.  The order row is updated only if a price      *)
(* changes, so that the model does not hold it.                            *)
UpdateStopPackages(s) ==
    /\ Handles(s, "edit", "stop")
    /\ sess[s].order = "PENDING_PICKUP"
    /\ Flush(s, "stops_done", NoWrites, NoWrites)

-----------------------------------------------------------------------------
(* From the flushed packages to the commit.                                *)

(* The columns of stop t that the request changes, each compared with the  *)
(* loaded one; the status and what remains come from the same fresh count. *)

StatusColumn(s, t) ==
    LET old == sess[s].stops[t].status
        active == IF sess[s].req.kind = "initiate_return"
                  THEN "RETURN_INITIATED" ELSE old
        new == ResolveStopStatus(View(s), t, active)
    IN  IF new = old THEN Null ELSE new

(* Mutant: initiate_package_return does not stamp the stop.                *)
StampColumnByStopOnly(s, t) ==
    /\ sess[s].req.kind = "initiate_return" /\ sess[s].req.level = "stop"
    /\ ~sess[s].stops[t].return_initiated

StampColumn(s, t) ==
    sess[s].req.kind = "initiate_return" /\ ~sess[s].stops[t].return_initiated

(* Mutant: the remaining packages are counted before the flush.            *)
ResolutionCountedEarly(s, t) ==
    IF /\ sess[s].req.kind = "resolve"
       /\ \A p \in PackagesOf(t) : pkg[p] # "RETURN_INITIATED"
    THEN sess[s].req.arg ELSE Null

ResolutionColumn(s, t) ==
    IF /\ sess[s].req.kind = "resolve"
       /\ \A p \in PackagesOf(t) : View(s)[p] # "RETURN_INITIATED"
    THEN sess[s].req.arg ELSE Null

StopColumns(s, t) ==
    Columns(StatusColumn(s, t), ResolutionColumn(s, t), StampColumn(s, t))

RecomputeStop(s) ==
    LET touched == {t \in StopsOf(sess[s].req) : StopColumns(s, t) # NoColumns}
    IN  /\ sess[s].phase = "packages_done"
        /\ sess' = [sess EXCEPT ![s].phase = "stop_derived",
                                ![s].sw = [t \in touched |-> StopColumns(s, t)]]
        /\ UNCHANGED <<pkg, stop, orderStatus, lock, overtaken, requests>>

FlushStop(s) ==
    /\ sess[s].phase = "stop_derived"
    /\ Flush(s, "stops_done", sess[s].pw, sess[s].sw)

(* Mutant: the order is derived from the loaded packages.                  *)
RecomputeOrderFromLoaded(s) ==
    LET new == ResolveOrderStatus([p \in Packages |->
                  IF p \in DOMAIN sess[s].pkgs THEN sess[s].pkgs[p] ELSE pkg[p]])
    IN  /\ sess[s].phase = "stops_done"
        /\ sess' = [sess EXCEPT ![s].phase = "order_derived",
                                ![s].ow = IF new = sess[s].order THEN Null ELSE new]
        /\ UNCHANGED <<pkg, stop, orderStatus, lock, overtaken, requests>>

RecomputeOrderStatus(s) ==
    LET new == ResolveOrderStatus(View(s))
    IN  /\ sess[s].phase = "stops_done"
        /\ sess' = [sess EXCEPT ![s].phase = "order_derived",
                                ![s].ow = IF new = sess[s].order THEN Null ELSE new]
        /\ UNCHANGED <<pkg, stop, orderStatus, lock, overtaken, requests>>

CommitRequest(s) ==
    /\ sess[s].phase = "order_derived"
    /\ pkg' = View(s)
    /\ stop' = [t \in Stops |-> IF t \in DOMAIN sess[s].sw
                                THEN Updated(stop[t], sess[s].sw[t]) ELSE stop[t]]
    /\ orderStatus' = IF sess[s].ow = Null THEN orderStatus ELSE sess[s].ow
    /\ lock' = Unlock(s)
    /\ sess' = [sess EXCEPT ![s] = Idle]
    /\ overtaken' = Overtaken(s)
    /\ UNCHANGED requests

(* Any refused check, unique violation or lost connection.                 *)
RollbackRequest(s) ==
    /\ sess[s].phase # "idle"
    /\ lock' = Unlock(s)
    /\ sess' = [sess EXCEPT ![s] = Idle]
    /\ overtaken' = overtaken \ {s}
    /\ UNCHANGED <<pkg, stop, orderStatus, requests>>

-----------------------------------------------------------------------------
(* DriverService: the loaded packages are checked, flushed and committed;  *)
(* neither the stop nor the order is derived again.                        *)

UpdatePackageStatus(s, packages) ==
    LET todo == {p \in packages : sess[s].pkgs[p] # sess[s].req.arg}
    IN  /\ Free(s, todo)
        /\ pkg' = [p \in Packages |-> IF p \in todo THEN sess[s].req.arg ELSE pkg[p]]
        /\ sess' = [sess EXCEPT ![s] = Idle]
        /\ UNCHANGED <<stop, orderStatus, lock, requests>>
        /\ overtaken' = Overtaken(s)

PickupScan(s) ==
    /\ Handles(s, "pickup_scan", "order")
    /\ UpdatePackageStatus(s, sess[s].req.on)

ScanMasterLabel(s) ==
    /\ Handles(s, "master_label", "stop")
    /\ UpdatePackageStatus(s, Eligible(s, {"PENDING_PICKUP"}))

SetDeliveryStatus(s) ==
    /\ Handles(s, "deliver", "package")
    /\ UpdatePackageStatus(s, sess[s].req.on)

NoOtherReturnOutcome(s) ==
    Eligible(s, PACKAGE_STOP_RETURN_HUB_COMPLETE_STATUSES \ {sess[s].req.arg}) = {}

SetReturnStatus(s) ==
    /\ Handles(s, "return_leg", "package")
    /\ NoOtherReturnOutcome(s)
    /\ UpdatePackageStatus(s, sess[s].req.on)

(* All packages of the batch are checked before the first is updated.      *)
SetReturnStatusBatch(s) ==
    /\ Handles(s, "return_leg", "stop")
    /\ NoOtherReturnOutcome(s)
    /\ UpdatePackageStatus(s, sess[s].req.on)

ReportMissing(s) ==
    /\ Handles(s, "missing", "package")
    /\ UpdatePackageStatus(s, sess[s].req.on)

-----------------------------------------------------------------------------
OrderStep(s) ==
    \/ CancelOrder(s) \/ CancelDeliveryStop(s) \/ MarkDeliveryStopCancelled(s)
    \/ RescheduleStop(s) \/ ReschedulePackage(s)
    \/ InitiateStopReturn(s) \/ InitiatePackageReturn(s)
    \/ MarkStopAsFound(s) \/ MarkPackageAsFound(s)
    \/ ResolveStopReturn(s) \/ ResolvePackageReturn(s)
    \/ UpdateStopPackages(s)
    \/ RecomputeStop(s) \/ FlushStop(s) \/ RecomputeOrderStatus(s)
    \/ CommitRequest(s)

DriverStep(s) ==
    \/ PickupScan(s) \/ ScanMasterLabel(s) \/ SetDeliveryStatus(s)
    \/ SetReturnStatus(s) \/ SetReturnStatusBatch(s) \/ ReportMissing(s)

OrdersNext ==
    \E s \in Sessions :
        \/ \E r \in OrderRequests \cup DriverRequests :
              r.kind \in Kinds /\ StartRequest(s, r)
        \/ ListPackages(s)
        \/ OrderStep(s)
        \/ DriverStep(s)
        \/ RollbackRequest(s)

OrdersSpec == OrdersInit /\ [][OrdersNext]_ordersVars

-----------------------------------------------------------------------------
(* Every committed and every loaded status is one of the enums.            *)
OrdersTypeOK ==
    /\ pkg \in [Packages -> PackageStatus]
    /\ stop \in [Stops -> StopRow]
    /\ orderStatus \in OrderStatus
    /\ lock \in [Packages \cup Stops -> Sessions \cup {Null}]
    /\ overtaken \subseteq Sessions
    /\ requests \in 0..MaxRequests
    /\ \A s \in Sessions : sess[s].phase # "idle" =>
          /\ sess[s].req \in OrderRequests \cup DriverRequests
          /\ \A p \in DOMAIN sess[s].pw : sess[s].pw[p] \in PackageStatus
          /\ sess[s].ow \in OrderStatus \cup {Null}

(* A package on its way back belongs to a stop that says when and by whom  *)
(* the return was initiated (return_initiated_at), whatever requests       *)
(* overlap: both are committed together and the stamp is never taken off.  *)
InitiatedIsStamped ==
    \A p \in Packages :
        pkg[p] \in RETURN_IN_TRANSIT_STATUSES => stop[StopOf[p]].return_initiated

(* An OrderService request leaves the order in the status that its         *)
(* packages, its own and those of the requests it overlaps with, stand for *)
(* (_recompute_order_status), unless it is overtaken: the fresh count      *)
(* makes up for every commit before it, however stale the loaded packages. *)
OrderReflectsPackages ==
    [][\A s \in Sessions \ overtaken :
         /\ sess[s].phase = "order_derived" /\ sess'[s].phase = "idle"
         /\ pkg' # pkg
         => ResolveOrderStatus(pkg') \in {Null, orderStatus'}]_ordersVars

(* The same of every request.                                              *)
OrderAlwaysReflects ==
    [][\A s \in Sessions :
         /\ sess[s].phase = "order_derived" /\ sess'[s].phase = "idle"
         /\ pkg' # pkg
         => ResolveOrderStatus(pkg') \in {Null, orderStatus'}]_ordersVars

(* Cancelling "fails if any package is already delivered, in return, or    *)
(* otherwise in a final state" (v1/docs.py): no step takes a package from  *)
(* such a status to CANCELLED.                                             *)
DeliveredNotCancelled ==
    [][\A p \in Packages :
         pkg[p] \in PACKAGE_STATUSES_BLOCKING_CANCELLATION
           => pkg'[p] # "CANCELLED"]_ordersVars

(* "Stop-level return metadata and return_resolved_at are set when the     *)
(* last RETURN_INITIATED package on that stop is resolved" (v1/docs.py).   *)
MetadataWithLastResolve ==
    [][\A t \in Stops :
         /\ \E p \in PackagesOf(t) : /\ pkg[p] = "RETURN_INITIATED"
                                     /\ pkg'[p] = "RETURN_IN_TRANSIT"
         /\ \A p \in PackagesOf(t) : pkg'[p] # "RETURN_INITIATED"
         => stop'[t].return_resolution # Null]_ordersVars

(* A stop that is on its way back or disposed of as a whole says how it    *)
(* was resolved: status and resolution come from the same count of its     *)
(* packages, so that overlapping requests cannot separate them.            *)
InTransitStopIsResolved ==
    \A t \in Stops :
        stop[t].status \in {"RETURN_IN_TRANSIT", "DISPOSED"}
          => stop[t].return_resolution # Null

(* resolve-return is there for "when a stop has multiple packages and each *)
(* is resolved separately" (v1/docs.py): a package that awaits its         *)
(* resolution is on a stop that still accepts one.                         *)
AwaitingCanBeResolved ==
    \A p \in Packages :
        pkg[p] = "RETURN_INITIATED" => stop[StopOf[p]].return_resolution = Null

=============================================================================

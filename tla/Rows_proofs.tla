---------------------------- MODULE Rows_proofs ----------------------------
(***************************************************************************)
(* Theorems about what the columns of one row say together: the history of *)
(* a task, the load and status of a point, the driver and status of a      *)
(* vehicle.  The last two are promises of the operations the HTTP server   *)
(* routes; UpdateVehicleStatus and UpdatePointStatus set a status alone.   *)
(***************************************************************************)
EXTENDS Dispatch_proofs

-----------------------------------------------------------------------------
(* The history of a task. *)

\* What a task row tells can have happened by the time now.
Tells(row, now) ==
    /\ row.status \in {"scheduled", "cancelled"} <=> row.startedAt = NotStarted
    /\ row.status = "failed" <=> row.reason # ""
    /\ row.kg # 0 => row.status = "completed"
    /\ row.startedAt <= now

\* Every legal operation adds to the history what it did.
LEMMA LegalTells ==
    ASSUME NEW old \in TaskRow, NEW new, LegalTask(old, new), Tells(old, clock), clock \in Nat
    PROVE  Tells(new, clock)
<1>1. CASE Atomic!Starts(old, new)
  <2>1. /\ new = NextVersion(StartRow(old, new.startedAt)) /\ new.startedAt \in 0 .. clock
        /\ old.status = "scheduled"
    BY <1>1, SharedDomain DEF Atomic!Starts, TaskCanTransitionTo, TaskTransitions
  <2>2. new.status = "in_progress" /\ new.reason = old.reason /\ new.kg = old.kg
    BY <2>1 DEF NextVersion, StartRow, TaskRow
  <2>3. ~(old.reason # "") /\ ~(old.kg # 0)
    BY <2>1 DEF Tells
  <2>4. new.startedAt # NotStarted /\ new.startedAt <= clock
    BY <2>1 DEF NotStarted
  <2> QED
    BY <2>2, <2>3, <2>4 DEF Tells
<1>2. CASE Atomic!Completes(old, new)
  <2>1. new = NextVersion(CompleteRow(old, new.kg)) /\ old.status = "in_progress"
    BY <1>2, SharedDomain DEF Atomic!Completes, TaskCanTransitionTo, TaskTransitions
  <2>2. new.status = "completed" /\ new.reason = old.reason /\ new.startedAt = old.startedAt
    BY <2>1 DEF NextVersion, CompleteRow, TaskRow
  <2> QED
    BY <2>1, <2>2 DEF Tells
<1>3. CASE Atomic!Fails(old, new) \/ Atomic!Recovers(old, new)
  <2>1. PICK reason \in {"reported", "auto-recovery"} : new = NextVersion(FailRow(old, reason))
    BY <1>3, SharedDomain DEF Atomic!Fails, Atomic!Recovers
  <2>2. old.status = "in_progress"
    BY <1>3, SharedDomain DEF Atomic!Fails, Atomic!Recovers, TaskCanTransitionTo,
       TaskTransitions, StaleRow
  <2>3. /\ new.status = "failed" /\ new.reason = reason
        /\ new.kg = old.kg /\ new.startedAt = old.startedAt
    BY <2>1 DEF NextVersion, FailRow, TaskRow
  <2> QED
    BY <2>1, <2>2, <2>3 DEF Tells
<1>4. CASE Atomic!Cancels(old, new)
  <2>1. new = NextVersion(CancelRow(old)) /\ old.status = "scheduled"
    BY <1>4, SharedDomain DEF Atomic!Cancels, TaskCanTransitionTo, TaskTransitions
  <2>2. /\ new.status = "cancelled" /\ new.reason = old.reason
        /\ new.kg = old.kg /\ new.startedAt = old.startedAt
    BY <2>1 DEF NextVersion, CancelRow, TaskRow
  <2> QED
    BY <2>1, <2>2 DEF Tells
<1> QED
  BY <1>1, <1>2, <1>3, <1>4 DEF LegalTask

LEMMA InsertedTells ==
    ASSUME NEW p, NEW v, clock \in Nat
    PROVE  Tells(InsertedTask(p, v), clock)
  BY DEF Tells, InsertedTask, NoTask, NotStarted

LEMMA HistoryStep ==
    ASSUME IInv, HistoryConsistent, [Next]_vars
    PROVE  HistoryConsistent'
<1>1. ASSUME NEW t \in Tasks, tasks'[t].live PROVE Tells(tasks'[t], clock)
  <2>1. clock \in Nat /\ tasks[t] \in TaskRow
    BY DEF IInv, TypeOK
  <2>2. tasks[t].live => Tells(tasks[t], clock)
    BY DEF HistoryConsistent, Tells
  <2>3. CASE tasks'[t] = tasks[t]
    BY <1>1, <2>2, <2>3
  <2>4. ASSUME NEW u \in Tasks, TaskChanged(u) PROVE tasks'[t] = tasks[t] \/ u = t
    BY <2>4 DEF TaskChanged, IInv, TypeOK
  <2>5. CASE TaskChanged(t)
    BY <2>1, <2>2, <2>5, LegalTells DEF TaskChanged
  <2>6. ASSUME NEW u \in Tasks, NEW p \in Points, NEW v \in Vehicles, TaskInserted(u, p, v)
        PROVE  tasks'[t] = tasks[t] \/ Tells(tasks'[t], clock)
    <3>1. tasks'[u] = InsertedTask(p, v) /\ \A o \in Tasks \ {u} : tasks'[o] = tasks[o]
      BY <2>6 DEF TaskInserted, IInv, TypeOK
    <3> QED
      BY <2>1, <3>1, InsertedTells
  <2> QED
    BY <2>3, <2>4, <2>5, <2>6, TaskSteps
<1>2. clock <= clock' /\ clock \in Nat /\ clock' \in Nat
  BY StepAdvances, InvStep DEF Advance, IInv, TypeOK
<1>3. ASSUME NEW t \in Tasks, tasks'[t].live PROVE Tells(tasks'[t], clock')
  <2>1. tasks'[t].startedAt \in Int
    BY <1>3, InvStep DEF IInv, TypeOK, TaskRow, Times, NotStarted
  <2>2. tasks'[t].startedAt <= clock
    BY <1>1, <1>3 DEF Tells
  <2>3. tasks'[t].startedAt <= clock'
    BY <1>2, <2>1, <2>2
  <2> QED
    BY <1>1, <1>3, <2>3 DEF Tells
<1> QED
  BY <1>3 DEF HistoryConsistent, Tells

LEMMA HistoryInit == Init => HistoryConsistent
  BY EmptyTaskAbsent DEF Init, HistoryConsistent

\* The history a task row tells can have happened: an outcome and its trace
\* exclude each other, and no task was started in the future, whatever
\* operations on the task overlap and wherever they fail.
THEOREM HistoryTrue == Spec => []HistoryConsistent
  BY HistoryInit, HistoryStep, InvHolds, PTL DEF Spec

-----------------------------------------------------------------------------
(***************************************************************************)
(* The load and the status of a point.  Every load is written together     *)
(* with the status UpdateStatus derives from it; the row a request holds   *)
(* is one more such row.                                                   *)
(***************************************************************************)
Matches(row, capacity) ==
    row.status = IF IsFull(row.load, capacity) THEN "full" ELSE "active"

HeldPointMatches(q) ==
    q.pc \in {"savePoint", "saveCollected"} => Matches(q.p, Capacity[q.point])

LoadInv == StatusMatchesLoad /\ \A r \in Requests : HeldPointMatches(req[r])

LEMMA LoadedMatches ==
    ASSUME NEW row \in PointRow, NEW load \in Nat, NEW c, Matches(row, c)
    PROVE  Matches(LoadRow(row, load, c), c)
<1> DEFINE loaded == [row EXCEPT !.load = load]
           status == IF IsFull(load, c) THEN "full" ELSE "active"
<1>1. loaded.load = load /\ loaded.status = row.status /\ loaded \in PointRow
  BY DEF PointRow
<1>2. loaded.status \notin {"suspended", "closed"}
  BY <1>1 DEF Matches
<1>3. LoadRow(row, load, c) = [loaded EXCEPT !.status = status]
  BY <1>1, <1>2 DEF LoadRow, UpdateStatus
<1> HIDE DEF loaded
<1>4. [loaded EXCEPT !.status = status].status = status
      /\ [loaded EXCEPT !.status = status].load = load
  BY <1>1 DEF PointRow
<1> QED
  BY <1>3, <1>4 DEF Matches

\* Who may be about to write a point: those who were, a load reading, and a
\* completion that has read its point.
LEMMA PointHolders ==
    ASSUME TypeOK, [Next]_vars, Ops \subseteq RoutedOps, NEW r \in Requests,
           req'[r].pc \in {"savePoint", "saveCollected"}
    PROVE  \/ req'[r] = req[r]
           \/ \E p \in Points : UpdateLoad(r, p)
           \/ GetCollected(r)
<1>1. ~Crash
  BY DEF Crash, NoRequest
<1>2. ~TaskCall(r)
  BY CallStatements
<1>3. ~VehicleCall(r)
  BY CallStatements
<1>4. PointCall(r) => \E p \in Points : UpdateLoad(r, p)
  BY DEF PointCall, UpdatePointStatus, HoldPoint, Called, RoutedOps
<1>5. ASSUME Proceed(r) \/ Abandon(r) PROVE GetCollected(r)
  <2>1. ~Return(r)
    BY DEF Return, NoRequest, TypeOK
  <2>2. ASSUME NEW pc \in {"getCollected", "insertTask"}, req' = [req EXCEPT ![r].pc = pc]
        PROVE  FALSE
    <3>1. req[r] \in Request /\ req'[r] = [req[r] EXCEPT !.pc = pc]
      BY <2>2 DEF TypeOK
    <3>2. req'[r].pc = pc
      BY <3>1 DEF Request
    <3> QED
      BY <2>2, <3>2
  <2> QED
    BY <1>5, <2>1, <2>2 DEF Proceed, SaveTask, SaveCompleted, SaveCollected, GetTaskVehicle,
       InsertTask, SaveVehicle, SavePoint, Abandon
<1> QED
  BY <1>1, <1>2, <1>3, <1>4, <1>5, OthersUntouched

LEMMA PointHolderMatches ==
    ASSUME IInv, LoadInv, [Next]_vars, Ops \subseteq RoutedOps, NEW r \in Requests
    PROVE  HeldPointMatches(req'[r])
<1> SUFFICES ASSUME req'[r].pc \in {"savePoint", "saveCollected"}
             PROVE  Matches(req'[r].p, Capacity[req'[r].point])
  BY DEF HeldPointMatches
<1>1. CASE req'[r] = req[r]
  BY <1>1 DEF LoadInv, HeldPointMatches
<1>2. ASSUME NEW p \in Points, points[p].live
      PROVE  points[p] \in PointRow /\ Matches(points[p], Capacity[p])
  BY <1>2 DEF LoadInv, StatusMatchesLoad, Matches, IInv, TypeOK
<1>3. ASSUME NEW p \in Points, UpdateLoad(r, p)
      PROVE  Matches(req'[r].p, Capacity[req'[r].point])
  <2>1. PICK load \in Kgs : HoldPoint(r, "UpdateLoad", p, LoadRow(points[p], load, Capacity[p]))
    BY <1>3 DEF UpdateLoad
  <2>2. points[p].live /\ load \in Nat
    BY <2>1, KgsAssumption DEF HoldPoint
  <2>3. req'[r].p = LoadRow(points[p], load, Capacity[p]) /\ req'[r].point = p
    BY <2>1 DEF HoldPoint, Called, NoRequest, IInv, TypeOK
  <2> QED
    BY <1>2, <2>2, <2>3, LoadedMatches
<1>4. CASE GetCollected(r)
  <2> DEFINE p == req[r].t.point
             load == IF req[r].t.kg > points[p].load THEN 0
                     ELSE points[p].load - req[r].t.kg
  <2>1. p \in Points /\ points[p] \in PointRow /\ req[r].t.kg \in Nat
    BY <1>4 DEF GetCollected, IInv, TypeOK, NamesRows, Refers, Request, TaskRow
  <2>2. load \in Nat
    BY <2>1 DEF PointRow
  <2>3. points[p].live
    BY <1>4 DEF GetCollected, NoRequest, IInv, TypeOK
  <2>4. /\ req'[r].p = CollectRow(points[p], req[r].t.kg, Capacity[p])
        /\ req'[r].point = p
    BY <1>4, <2>3 DEF GetCollected, IInv, TypeOK, Request
  <2>5. req'[r].p = LoadRow(points[p], load, Capacity[p])
    BY <2>4 DEF CollectRow
  <2> HIDE DEF load
  <2> QED
    BY <1>2, <2>1, <2>2, <2>3, <2>4, <2>5, LoadedMatches
<1> QED
  BY <1>1, <1>3, <1>4, PointHolders DEF IInv

\* A point changes as a whole row that a request held, by INSERT or by DELETE.
LEMMA PointSources ==
    ASSUME IInv, [Next]_vars
    PROVE  \/ UNCHANGED points
           \/ \E r \in Requests :
                 /\ req[r].pc \in {"savePoint", "saveCollected"}
                 /\ points' = [points EXCEPT ![req[r].point] = NextVersion(req[r].p)]
           \/ \E p \in Points : CreatePoint(p) \/ DeletePoint(p)
<1>1. ASSUME NEW r \in Requests, TaskCall(r) \/ VehicleCall(r) \/ PointCall(r)
      PROVE  UNCHANGED points
  BY <1>1, CallsOnlyHold DEF Called, db
<1>2. ASSUME NEW r \in Requests,
             \/ SaveTask(r) \/ SaveCompleted(r) \/ GetCollected(r) \/ SaveVehicle(r)
             \/ GetTaskVehicle(r) \/ InsertTask(r) \/ Abandon(r)
      PROVE  UNCHANGED points
  BY <1>2 DEF SaveTask, SaveCompleted, GetCollected, SaveVehicle, GetTaskVehicle,
              InsertTask, Abandon, db
<1>3. ASSUME NEW r \in Requests, SavePoint(r) \/ SaveCollected(r)
      PROVE  /\ req[r].pc \in {"savePoint", "saveCollected"}
             /\ \/ UNCHANGED points
                \/ points' = [points EXCEPT ![req[r].point] = NextVersion(req[r].p)]
  BY <1>3 DEF SavePoint, SaveCollected, WritePoint
<1>4. ASSUME \/ \E v \in Vehicles : CreateVehicle(v) \/ DeleteVehicle(v)
             \/ ListStale \/ Tick \/ Crash \/ UNCHANGED vars
             \/ \E t \in Tasks : SkipStale(t) \/ RecoverTask(t)
      PROVE  UNCHANGED points
  BY <1>4 DEF CreateVehicle, DeleteVehicle, ListStale, Tick, Crash, SkipStale, RecoverTask,
              vars, db
<1> QED
  BY <1>1, <1>2, <1>3, <1>4 DEF Next, Proceed, Recovery

LEMMA StoredPointMatches ==
    ASSUME IInv, LoadInv, [Next]_vars, NEW p \in Points, points'[p].live
    PROVE  Matches(points'[p], Capacity[p])
<1>1. points[p].live => Matches(points[p], Capacity[p])
  BY DEF LoadInv, StatusMatchesLoad, Matches
<1>2. CASE points'[p] = points[p]
  BY <1>1, <1>2
<1>3. ASSUME NEW r \in Requests, req[r].pc \in {"savePoint", "saveCollected"},
             points' = [points EXCEPT ![req[r].point] = NextVersion(req[r].p)],
             points'[p] # points[p]
      PROVE  Matches(points'[p], Capacity[p])
  <2>1. req[r].point = p /\ points'[p] = NextVersion(req[r].p) /\ req[r].p \in PointRow
    BY <1>3 DEF IInv, TypeOK, Request
  <2>2. /\ NextVersion(req[r].p).status = req[r].p.status
        /\ NextVersion(req[r].p).load = req[r].p.load
    BY <2>1 DEF NextVersion, PointRow
  <2>3. Matches(req[r].p, Capacity[p])
    BY <1>3, <2>1 DEF LoadInv, HeldPointMatches
  <2> QED
    BY <2>1, <2>2, <2>3 DEF Matches
<1>4. ASSUME NEW q \in Points, CreatePoint(q), points'[p] # points[p]
      PROVE  Matches(points'[p], Capacity[p])
  <2>1. points'[p] = InsertedPoint
    BY <1>4 DEF CreatePoint, IInv, TypeOK
  <2>2. InsertedPoint.status = "active" /\ InsertedPoint.load = 0
    BY DEF InsertedPoint, NoPoint
  <2>3. ~IsFull(0, Capacity[p])
    BY CapacityAssumption DEF IsFull
  <2> QED
    BY <2>1, <2>2, <2>3 DEF Matches
<1>5. ASSUME NEW q \in Points, DeletePoint(q) PROVE points'[p] = points[p]
  <2>1. points'[q] = Deleted(points[q]) /\ \A o \in Points \ {q} : points'[o] = points[o]
    BY <1>5 DEF DeletePoint, IInv, TypeOK
  <2>2. ~Deleted(points[q]).live
    BY DEF Deleted, IInv, TypeOK, PointRow
  <2> QED
    BY <2>1, <2>2
<1> QED
  BY <1>2, <1>3, <1>4, <1>5, PointSources

LEMMA LoadStep ==
    ASSUME IInv, LoadInv, [Next]_vars, Ops \subseteq RoutedOps
    PROVE  LoadInv'
<1>1. StatusMatchesLoad'
  BY StoredPointMatches DEF StatusMatchesLoad, Matches
<1>2. \A r \in Requests : HeldPointMatches(req'[r])
  BY PointHolderMatches
<1> QED
  BY <1>1, <1>2 DEF LoadInv, HeldPointMatches

LEMMA LoadInit == Init => LoadInv
  BY DEF Init, LoadInv, StatusMatchesLoad, HeldPointMatches, NoPoint, NoRequest

\* Among the operations the HTTP server routes, load readings and collections
\* keep a point's status what its load says: PointService.UpdateLoad and
\* CompleteTask write both columns from one row, and only over that row.
THEOREM StatusFollowsLoad == Ops \subseteq RoutedOps => (Spec => []StatusMatchesLoad)
<1> SUFFICES ASSUME Ops \subseteq RoutedOps PROVE Spec => []StatusMatchesLoad
  OBVIOUS
<1>1. IInv /\ LoadInv /\ [Next]_vars => LoadInv'
  BY LoadStep
<1>2. LoadInv => StatusMatchesLoad
  BY DEF LoadInv
<1> QED
  BY <1>1, <1>2, LoadInit, InvHolds, PTL DEF Spec

-----------------------------------------------------------------------------
(* The driver and the status of a vehicle. *)

Driven(row) ==
    /\ row.status \in {"idle", "dispatched"}
    /\ row.status = "dispatched" <=> row.driver # ""

HeldVehicleDriven(q) == q.pc = "saveVehicle" => Driven(q.v)

DriverInv == DriverMatchesStatus /\ \A r \in Requests : HeldVehicleDriven(req[r])

LEMMA AssignedDriven ==
    ASSUME NEW row \in VehicleRow, NEW d \in Drivers
    PROVE  Driven(AssignRow(row, d))
<1>1. AssignRow(row, d).status = "dispatched" /\ AssignRow(row, d).driver = d
  BY DEF AssignRow, VehicleRow
<1>2. d # ""
  BY DriversAssumption
<1> QED
  BY <1>1, <1>2 DEF Driven

LEMMA ReleasedDriven ==
    ASSUME NEW row \in VehicleRow
    PROVE  Driven(ReleaseRow(row))
<1>1. ReleaseRow(row).status = "idle" /\ ReleaseRow(row).driver = ""
  BY DEF ReleaseRow, VehicleRow
<1> QED
  BY <1>1 DEF Driven

\* Who may be about to write a vehicle: those who were, an assignment, a release.
LEMMA VehicleHolderDriven ==
    ASSUME IInv, DriverInv, [Next]_vars, Ops \subseteq RoutedOps, NEW r \in Requests
    PROVE  HeldVehicleDriven(req'[r])
<1> SUFFICES ASSUME req'[r].pc = "saveVehicle" PROVE Driven(req'[r].v)
  BY DEF HeldVehicleDriven
<1>1. CASE req'[r] = req[r]
  BY <1>1 DEF DriverInv, HeldVehicleDriven
<1>2. ~Crash /\ TypeOK
  BY DEF Crash, NoRequest, IInv
<1>3. ~TaskCall(r) /\ ~PointCall(r)
  BY <1>2, CallStatements
<1>4. ~Proceed(r) /\ ~Abandon(r)
  <2>1. ~Return(r)
    BY <1>2 DEF Return, NoRequest, TypeOK
  <2>2. ASSUME NEW pc \in {"getCollected", "insertTask"}, req' = [req EXCEPT ![r].pc = pc]
        PROVE  FALSE
    <3>1. req[r] \in Request /\ req'[r] = [req[r] EXCEPT !.pc = pc]
      BY <1>2, <2>2 DEF TypeOK
    <3>2. req'[r].pc = pc
      BY <3>1 DEF Request
    <3> QED
      BY <2>2, <3>2
  <2>3. ~GetCollected(r)
    <3>1. ASSUME GetCollected(r) PROVE req'[r].pc \in {"saveCollected", "idle"}
      BY <1>2, <3>1 DEF GetCollected, TypeOK, Request, NoRequest
    <3> QED
      BY <3>1
  <2> QED
    BY <2>1, <2>2, <2>3 DEF Proceed, SaveTask, SaveCompleted, SaveCollected, GetTaskVehicle,
       InsertTask, SaveVehicle, SavePoint, Abandon
<1>5. ASSUME NEW v \in Vehicles, NEW op, NEW row, HoldVehicle(r, op, v, row)
      PROVE  req'[r].v = row /\ op \in RoutedOps
  BY <1>2, <1>5 DEF HoldVehicle, Called, NoRequest, TypeOK
<1>6. ASSUME VehicleCall(r) PROVE Driven(req'[r].v)
  <2>1. PICK v \in Vehicles :
           AssignDriver(r, v) \/ ReleaseVehicle(r, v) \/ UpdateVehicleStatus(r, v)
    BY <1>6 DEF VehicleCall
  <2>2. vehicles[v] \in VehicleRow
    BY <1>2 DEF TypeOK
  <2>3. CASE AssignDriver(r, v)
    BY <1>5, <2>2, <2>3, AssignedDriven DEF AssignDriver
  <2>4. CASE ReleaseVehicle(r, v)
    BY <1>5, <2>2, <2>4, ReleasedDriven DEF ReleaseVehicle
  <2>5. CASE UpdateVehicleStatus(r, v)
    <3>1. "UpdateVehicleStatus" \in RoutedOps
      BY <1>5, <2>5 DEF UpdateVehicleStatus
    <3> QED
      BY <3>1 DEF RoutedOps
  <2> QED
    BY <2>1, <2>3, <2>4, <2>5
<1> QED
  BY <1>1, <1>2, <1>3, <1>4, <1>6, OthersUntouched

\* A vehicle changes as a whole row that a request held, by INSERT or by DELETE.
LEMMA VehicleSources ==
    ASSUME IInv, [Next]_vars
    PROVE  \/ UNCHANGED vehicles
           \/ \E r \in Requests :
                 /\ req[r].pc = "saveVehicle"
                 /\ vehicles' = [vehicles EXCEPT ![req[r].vehicle] = NextVersion(req[r].v)]
           \/ \E v \in Vehicles : CreateVehicle(v) \/ DeleteVehicle(v)
<1>1. ASSUME NEW r \in Requests, TaskCall(r) \/ VehicleCall(r) \/ PointCall(r)
      PROVE  UNCHANGED vehicles
  BY <1>1, CallsOnlyHold DEF Called, db
<1>2. ASSUME NEW r \in Requests,
             \/ SaveTask(r) \/ SaveCompleted(r) \/ GetCollected(r) \/ SaveCollected(r)
             \/ GetTaskVehicle(r) \/ InsertTask(r) \/ SavePoint(r) \/ Abandon(r)
      PROVE  UNCHANGED vehicles
  BY <1>2 DEF SaveTask, SaveCompleted, GetCollected, SaveCollected, GetTaskVehicle,
              InsertTask, SavePoint, Abandon, db
<1>3. ASSUME NEW r \in Requests, SaveVehicle(r)
      PROVE  /\ req[r].pc = "saveVehicle"
             /\ \/ UNCHANGED vehicles
                \/ vehicles' = [vehicles EXCEPT ![req[r].vehicle] = NextVersion(req[r].v)]
  BY <1>3 DEF SaveVehicle
<1>4. ASSUME \/ \E p \in Points : CreatePoint(p) \/ DeletePoint(p)
             \/ ListStale \/ Tick \/ Crash \/ UNCHANGED vars
             \/ \E t \in Tasks : SkipStale(t) \/ RecoverTask(t)
      PROVE  UNCHANGED vehicles
  BY <1>4 DEF CreatePoint, DeletePoint, ListStale, Tick, Crash, SkipStale, RecoverTask,
              vars, db
<1> QED
  BY <1>1, <1>2, <1>3, <1>4 DEF Next, Proceed, Recovery

LEMMA StoredVehicleDriven ==
    ASSUME IInv, DriverInv, [Next]_vars, NEW v \in Vehicles
    PROVE  Driven(vehicles'[v])
<1>1. Driven(vehicles[v]) /\ vehicles[v] \in VehicleRow
  BY DEF DriverInv, DriverMatchesStatus, Driven, IInv, TypeOK
<1>2. CASE vehicles'[v] = vehicles[v]
  BY <1>1, <1>2
<1>3. ASSUME NEW r \in Requests, req[r].pc = "saveVehicle",
             vehicles' = [vehicles EXCEPT ![req[r].vehicle] = NextVersion(req[r].v)],
             vehicles'[v] # vehicles[v]
      PROVE  Driven(vehicles'[v])
  <2>1. vehicles'[v] = NextVersion(req[r].v) /\ req[r].v \in VehicleRow
    BY <1>3 DEF IInv, TypeOK, Request
  <2>2. /\ NextVersion(req[r].v).status = req[r].v.status
        /\ NextVersion(req[r].v).driver = req[r].v.driver
    BY <2>1 DEF NextVersion, VehicleRow
  <2>3. Driven(req[r].v)
    BY <1>3 DEF DriverInv, HeldVehicleDriven
  <2> QED
    BY <2>1, <2>2, <2>3 DEF Driven
<1>4. ASSUME NEW w \in Vehicles, CreateVehicle(w), vehicles'[v] # vehicles[v]
      PROVE  Driven(vehicles'[v])
  <2>1. vehicles'[v] = InsertedVehicle
    BY <1>4 DEF CreateVehicle, IInv, TypeOK
  <2>2. InsertedVehicle.status = "idle" /\ InsertedVehicle.driver = ""
    BY DEF InsertedVehicle, NoVehicle
  <2> QED
    BY <2>1, <2>2 DEF Driven
<1>5. ASSUME NEW w \in Vehicles, DeleteVehicle(w), vehicles'[v] # vehicles[v]
      PROVE  Driven(vehicles'[v])
  <2>1. vehicles'[v] = Deleted(vehicles[v])
    BY <1>5 DEF DeleteVehicle, IInv, TypeOK
  <2>2. /\ Deleted(vehicles[v]).status = vehicles[v].status
        /\ Deleted(vehicles[v]).driver = vehicles[v].driver
    BY <1>1 DEF Deleted, VehicleRow
  <2> QED
    BY <1>1, <2>1, <2>2 DEF Driven
<1> QED
  BY <1>2, <1>3, <1>4, <1>5, VehicleSources

LEMMA DriverStep ==
    ASSUME IInv, DriverInv, [Next]_vars, Ops \subseteq RoutedOps
    PROVE  DriverInv'
<1>1. DriverMatchesStatus'
  BY StoredVehicleDriven DEF DriverMatchesStatus, Driven
<1>2. \A r \in Requests : HeldVehicleDriven(req'[r])
  BY VehicleHolderDriven
<1> QED
  BY <1>1, <1>2 DEF DriverInv, HeldVehicleDriven

LEMMA DriverInit == Init => DriverInv
<1>1. NoVehicle.status = "idle" /\ NoVehicle.driver = "" /\ NoRequest.pc = "idle"
  BY DEF NoVehicle, NoRequest
<1> QED
  BY <1>1 DEF Init, DriverInv, DriverMatchesStatus, HeldVehicleDriven

\* Among the operations the HTTP server routes, assignments and releases keep
\* the driver of a vehicle and its status together, however they race.
THEOREM DriverFollowsStatus == Ops \subseteq RoutedOps => (Spec => []DriverMatchesStatus)
<1> SUFFICES ASSUME Ops \subseteq RoutedOps PROVE Spec => []DriverMatchesStatus
  OBVIOUS
<1>1. IInv /\ DriverInv /\ [Next]_vars => DriverInv'
  BY DriverStep
<1>2. DriverInv => DriverMatchesStatus
  BY DEF DriverInv
<1> QED
  BY <1>1, <1>2, DriverInit, InvHolds, PTL DEF Spec
=============================================================================

--------------------------- MODULE Dispatch_proofs ---------------------------
(***************************************************************************)
(* Theorems about Dispatch, for every number of tasks, vehicles, points    *)
(* and requests and every bound.                                           *)
(***************************************************************************)
EXTENDS Dispatch, TLAPS

-----------------------------------------------------------------------------
(* The rows the domain methods build are rows. *)

LEMMA TaskRowTypes ==
    ASSUME NEW row \in TaskRow, NEW now \in Nat, NEW kg \in Nat,
           NEW reason \in {"reported", "auto-recovery"}
    PROVE  /\ StartRow(row, now) \in TaskRow
           /\ CompleteRow(row, kg) \in TaskRow
           /\ FailRow(row, reason) \in TaskRow
           /\ CancelRow(row) \in TaskRow
           /\ NextVersion(row) \in TaskRow
<1>1. StartRow(row, now) \in TaskRow
  BY DEF TaskRow, StartRow, TaskStatuses, Times
<1>2. CompleteRow(row, kg) \in TaskRow
  BY DEF TaskRow, CompleteRow, TaskStatuses
<1>3. FailRow(row, reason) \in TaskRow
  BY DEF TaskRow, FailRow, TaskStatuses, Reasons
<1>4. CancelRow(row) \in TaskRow
  BY DEF TaskRow, CancelRow, TaskStatuses
<1>5. NextVersion(row) \in TaskRow
  BY DEF TaskRow, NextVersion
<1> QED
  BY <1>1, <1>2, <1>3, <1>4, <1>5

LEMMA VehicleRowTypes ==
    ASSUME NEW row \in VehicleRow, NEW d \in Drivers, NEW s \in VehicleStatuses
    PROVE  /\ AssignRow(row, d) \in VehicleRow
           /\ ReleaseRow(row) \in VehicleRow
           /\ [row EXCEPT !.status = s] \in VehicleRow
           /\ NextVersion(row) \in VehicleRow
           /\ Deleted(row) \in VehicleRow
<1>1. AssignRow(row, d) \in VehicleRow
  BY DEF VehicleRow, AssignRow, VehicleStatuses
<1>2. ReleaseRow(row) \in VehicleRow
  BY DEF VehicleRow, ReleaseRow, VehicleStatuses
<1>3. [row EXCEPT !.status = s] \in VehicleRow
  BY DEF VehicleRow
<1>4. NextVersion(row) \in VehicleRow
  <2>1. row.version \in Nat
    BY DEF VehicleRow
  <2>2. row.version + 1 \in Nat
    BY <2>1
  <2> QED
    BY <2>2 DEF VehicleRow, NextVersion
<1>5. Deleted(row) \in VehicleRow
  BY DEF VehicleRow, Deleted
<1> QED
  BY <1>1, <1>2, <1>3, <1>4, <1>5

LEMMA PointRowTypes ==
    ASSUME NEW row \in PointRow, NEW load \in Nat, NEW s \in PointStatuses,
           NEW capacity
    PROVE  /\ LoadRow(row, load, capacity) \in PointRow
           /\ CollectRow(row, load, capacity) \in PointRow
           /\ [row EXCEPT !.status = s] \in PointRow
           /\ NextVersion(row) \in PointRow
           /\ Deleted(row) \in PointRow
<1>1. \A kg \in Nat : LoadRow(row, kg, capacity) \in PointRow
  BY DEF PointRow, LoadRow, UpdateStatus, PointStatuses
<1>2. (IF load > row.load THEN 0 ELSE row.load - load) \in Nat
  BY DEF PointRow
<1>3. CollectRow(row, load, capacity) \in PointRow
  BY <1>1, <1>2 DEF CollectRow
<1>4. [row EXCEPT !.status = s] \in PointRow
  BY DEF PointRow
<1>5. NextVersion(row) \in PointRow
  BY DEF PointRow, NextVersion
<1>6. Deleted(row) \in PointRow
  BY DEF PointRow, Deleted
<1> QED
  BY <1>1, <1>3, <1>4, <1>5, <1>6

LEMMA EmptyRowTypes ==
    /\ NoTask \in TaskRow /\ NoVehicle \in VehicleRow /\ NoPoint \in PointRow
    /\ InsertedVehicle \in VehicleRow /\ InsertedPoint \in PointRow
    /\ \A p \in Points, v \in Vehicles : InsertedTask(p, v) \in TaskRow
    /\ NoRequest \in Request
  BY DEF NoTask, NoVehicle, NoPoint, InsertedVehicle, InsertedPoint, InsertedTask,
         NoRequest, Request, Statements, TaskRow, VehicleRow, PointRow, TaskStatuses,
         VehicleStatuses, PointStatuses, Reasons, Times, NotStarted

\* The row a domain method returns refers to what the row it was given does.
LEMMA RowsKeepReferences ==
    ASSUME NEW row \in TaskRow, Refers(row), NEW now, NEW kg, NEW reason
    PROVE  /\ Refers(StartRow(row, now)) /\ Refers(CompleteRow(row, kg))
           /\ Refers(FailRow(row, reason)) /\ Refers(CancelRow(row))
           /\ Refers(NextVersion(row))
  BY DEF Refers, TaskRow, StartRow, CompleteRow, FailRow, CancelRow, NextVersion

-----------------------------------------------------------------------------
(* Type correctness, by the part of the state a step changes. *)

LEMMA RequestStep ==
    ASSUME TypeOK, NEW r \in Requests, NEW q \in Request, NamesRows(q),
           req' = [req EXCEPT ![r] = q]
    PROVE  /\ req' \in [Requests -> Request]
           /\ \A s \in Requests : NamesRows(req'[s])
  BY DEF TypeOK

LEMMA IdleRequest == NoRequest \in Request /\ NamesRows(NoRequest)
  BY EmptyRowTypes DEF NoRequest, NamesRows

LEMMA HeldTaskRequest ==
    ASSUME NEW t \in Tasks, NEW row \in TaskRow, Refers(row),
           NEW pc \in {"saveTask", "saveCompleted"}
    PROVE  LET q == [NoRequest EXCEPT !.pc = pc, !.task = t, !.t = row]
           IN  q \in Request /\ NamesRows(q)
  BY EmptyRowTypes DEF NoRequest, Request, Statements, NamesRows

LEMMA HeldVehicleRequest ==
    ASSUME NEW v \in Vehicles, NEW row \in VehicleRow
    PROVE  LET q == [NoRequest EXCEPT !.pc = "saveVehicle", !.vehicle = v, !.v = row]
           IN  q \in Request /\ NamesRows(q)
  BY EmptyRowTypes DEF NoRequest, Request, Statements, NamesRows

LEMMA HeldPointRequest ==
    ASSUME NEW p \in Points, NEW row \in PointRow
    PROVE  LET q == [NoRequest EXCEPT !.pc = "savePoint", !.point = p, !.p = row]
           IN  q \in Request /\ NamesRows(q)
  BY EmptyRowTypes DEF NoRequest, Request, Statements, NamesRows

LEMMA TypeInit == Init => TypeOK
<1> SUFFICES ASSUME Init PROVE TypeOK
  OBVIOUS
<1>1. recovery \in [stale: SUBSET Tasks, rows: [Tasks -> TaskRow]] /\ recovery.stale = {}
  BY EmptyRowTypes DEF Init, NoRecovery
<1> QED
  BY <1>1, EmptyRowTypes, IdleRequest DEF Init, TypeOK, NoTask

\* A request is called and holds a row it read.
LEMMA TypeHold ==
    ASSUME TypeOK, NEW r \in Requests, NEW op, NEW q \in Request, NamesRows(q),
           Called(r, op, q)
    PROVE  TypeOK'
<1>1. /\ req' \in [Requests -> Request]
      /\ \A s \in Requests : NamesRows(req'[s])
  BY RequestStep DEF Called
<1> QED
  BY <1>1 DEF TypeOK, Called, db

\* A request returns and the tables stay as they are.
LEMMA TypeReturn ==
    ASSUME TypeOK, NEW r \in Requests, Return(r)
    PROVE  /\ req' \in [Requests -> Request]
           /\ \A s \in Requests : NamesRows(req'[s])
  BY RequestStep, IdleRequest DEF Return

LEMMA TypeTaskCall ==
    ASSUME TypeOK, NEW r \in Requests, TaskCall(r)
    PROVE  TypeOK'
<1> PICK t \in Tasks :
       \/ StartTask(r, t) \/ CompleteTask(r, t) \/ FailTask(r, t) \/ CancelTask(r, t)
       \/ \E p \in Points, v \in Vehicles : CreateTask(r, t, p, v)
  BY DEF TaskCall
<1> DEFINE row == tasks[t]
<1>1. row \in TaskRow /\ (row.live => Refers(row)) /\ clock \in Nat
  BY DEF TypeOK
<1> HIDE DEF row
<1>2. ASSUME NEW op, NEW new \in TaskRow, row.live => Refers(new),
             NEW pc \in {"saveTask", "saveCompleted"}, HoldTask(r, op, t, new, pc)
      PROVE  TypeOK'
  BY <1>2, HeldTaskRequest, TypeHold DEF HoldTask, row
<1>3. CASE StartTask(r, t)
  BY <1>1, <1>2, <1>3, TaskRowTypes, RowsKeepReferences DEF StartTask, row
<1>4. CASE CompleteTask(r, t)
  <2>1. PICK kg \in Kgs :
           HoldTask(r, "CompleteTask", t, CompleteRow(row, kg), "saveCompleted")
    BY <1>4 DEF CompleteTask, row
  <2>2. kg \in Nat
    BY KgsAssumption
  <2> QED
    BY <1>1, <1>2, <2>1, <2>2, TaskRowTypes, RowsKeepReferences
<1>5. CASE FailTask(r, t)
  BY <1>1, <1>2, <1>5, TaskRowTypes, RowsKeepReferences DEF FailTask, row
<1>6. CASE CancelTask(r, t)
  BY <1>1, <1>2, <1>6, TaskRowTypes, RowsKeepReferences DEF CancelTask, row
<1>7. ASSUME NEW p \in Points, NEW v \in Vehicles, CreateTask(r, t, p, v)
      PROVE  TypeOK'
  <2> DEFINE q == [NoRequest EXCEPT !.pc = "getVehicle", !.task = t,
                                    !.point = p, !.vehicle = v]
  <2>1. q \in Request /\ NamesRows(q)
    BY EmptyRowTypes DEF NoRequest, Request, Statements, NamesRows, Refers
  <2>2. Called(r, "CreateTask", q)
    BY <1>7 DEF CreateTask
  <2> QED
    BY <2>1, <2>2, TypeHold
<1> QED
  BY <1>3, <1>4, <1>5, <1>6, <1>7

LEMMA TypeVehicleCall ==
    ASSUME TypeOK, NEW r \in Requests, VehicleCall(r)
    PROVE  TypeOK'
<1> PICK v \in Vehicles :
       AssignDriver(r, v) \/ ReleaseVehicle(r, v) \/ UpdateVehicleStatus(r, v)
  BY DEF VehicleCall
<1>1. vehicles[v] \in VehicleRow
  BY DEF TypeOK
<1>2. ASSUME NEW op, NEW new \in VehicleRow, HoldVehicle(r, op, v, new)
      PROVE  TypeOK'
  BY <1>2, HeldVehicleRequest, TypeHold DEF HoldVehicle
<1>3. CASE AssignDriver(r, v)
  <2>1. PICK d \in Drivers : HoldVehicle(r, "AssignDriver", v, AssignRow(vehicles[v], d))
    BY <1>3 DEF AssignDriver
  <2> QED
    BY <1>1, <1>2, <2>1, VehicleRowTypes DEF VehicleStatuses
<1>4. CASE ReleaseVehicle(r, v)
  <2>1. ReleaseRow(vehicles[v]) \in VehicleRow
    BY <1>1 DEF VehicleRow, ReleaseRow, VehicleStatuses
  <2> QED
    BY <1>2, <1>4, <2>1 DEF ReleaseVehicle
<1>5. CASE UpdateVehicleStatus(r, v)
  <2>1. PICK s \in VehicleStatuses :
           HoldVehicle(r, "UpdateVehicleStatus", v, [vehicles[v] EXCEPT !.status = s])
    BY <1>5 DEF UpdateVehicleStatus
  <2>2. [vehicles[v] EXCEPT !.status = s] \in VehicleRow
    BY <1>1 DEF VehicleRow
  <2> QED
    BY <1>2, <2>1, <2>2
<1> QED
  BY <1>3, <1>4, <1>5

LEMMA TypePointCall ==
    ASSUME TypeOK, NEW r \in Requests, PointCall(r)
    PROVE  TypeOK'
<1> PICK p \in Points : UpdateLoad(r, p) \/ UpdatePointStatus(r, p)
  BY DEF PointCall
<1>1. points[p] \in PointRow
  BY DEF TypeOK
<1>2. ASSUME NEW op, NEW new \in PointRow, HoldPoint(r, op, p, new)
      PROVE  TypeOK'
  BY <1>2, HeldPointRequest, TypeHold DEF HoldPoint
<1>3. CASE UpdateLoad(r, p)
  <2>1. PICK load \in Kgs :
           HoldPoint(r, "UpdateLoad", p, LoadRow(points[p], load, Capacity[p]))
    BY <1>3 DEF UpdateLoad
  <2>2. load \in Nat
    BY KgsAssumption
  <2> QED
    BY <1>1, <1>2, <2>1, <2>2, PointRowTypes DEF PointStatuses
<1>4. CASE UpdatePointStatus(r, p)
  <2>1. PICK s \in PointStatuses :
           HoldPoint(r, "UpdatePointStatus", p, [points[p] EXCEPT !.status = s])
    BY <1>4 DEF UpdatePointStatus
  <2>2. [points[p] EXCEPT !.status = s] \in PointRow
    BY <1>1 DEF PointRow
  <2> QED
    BY <1>2, <2>1, <2>2
<1> QED
  BY <1>3, <1>4

\* The write of a held task row, by a request or by the worker.
LEMMA TaskTableStep ==
    ASSUME TypeOK, NEW t \in Tasks, NEW row \in TaskRow, Refers(row),
           \/ tasks' = [tasks EXCEPT ![t] = row]
           \/ UNCHANGED tasks
    PROVE  /\ tasks' \in [Tasks -> TaskRow]
           /\ \A u \in Tasks : tasks'[u].live => Refers(tasks'[u])
  BY DEF TypeOK

LEMMA TypeProceed ==
    ASSUME TypeOK, NEW r \in Requests, Proceed(r)
    PROVE  TypeOK'
<1> DEFINE q == req[r]
<1>1. /\ q \in Request /\ NamesRows(q)
      /\ q.t \in TaskRow /\ q.p \in PointRow /\ q.v \in VehicleRow
  BY DEF TypeOK, Request
<1>2. ASSUME q.pc \in {"saveTask", "saveCompleted"}
      PROVE  q.task \in Tasks /\ NextVersion(q.t) \in TaskRow /\ Refers(NextVersion(q.t))
  <2>1. q.task \in Tasks /\ Refers(q.t)
    BY <1>1, <1>2 DEF NamesRows
  <2>2. NextVersion(q.t) \in TaskRow
    BY <1>1, TaskRowTypes
  <2> QED
    BY <1>1, <2>1, <2>2, RowsKeepReferences
<1>3. ASSUME NEW pc \in Statements, NamesRows([q EXCEPT !.pc = pc]),
             req' = [req EXCEPT ![r].pc = pc]
      PROVE  /\ req' \in [Requests -> Request]
             /\ \A s \in Requests : NamesRows(req'[s])
  <2>1. [q EXCEPT !.pc = pc] \in Request
    BY <1>1 DEF Request
  <2>2. req' = [req EXCEPT ![r] = [q EXCEPT !.pc = pc]]
    BY <1>3
  <2> QED
    BY <1>3, <2>1, <2>2, RequestStep
<1>4. CASE SaveTask(r)
  <2>1. /\ tasks' \in [Tasks -> TaskRow]
        /\ \A u \in Tasks : tasks'[u].live => Refers(tasks'[u])
    BY <1>2, <1>4, TaskTableStep DEF SaveTask
  <2> QED
    BY <1>4, <2>1, TypeReturn DEF SaveTask, TypeOK
<1>5. CASE SaveCompleted(r)
  <2>1. q.pc = "saveCompleted"
    BY <1>5 DEF SaveCompleted
  <2>2. /\ tasks' \in [Tasks -> TaskRow]
        /\ \A u \in Tasks : tasks'[u].live => Refers(tasks'[u])
    BY <1>2, <1>5, <2>1, TaskTableStep DEF SaveCompleted
  <2>3. /\ req' \in [Requests -> Request]
        /\ \A s \in Requests : NamesRows(req'[s])
    <3>1. CASE Return(r)
      BY <3>1, TypeReturn
    <3>2. CASE req' = [req EXCEPT ![r].pc = "getCollected"]
      <4>1. NamesRows([q EXCEPT !.pc = "getCollected"])
        BY <1>1, <2>1 DEF NamesRows, Request
      <4> QED
        BY <1>3, <3>2, <4>1 DEF Statements
    <3> QED
      BY <1>5, <3>1, <3>2 DEF SaveCompleted
  <2> QED
    BY <1>5, <2>2, <2>3 DEF SaveCompleted, TypeOK
<1>6. CASE GetCollected(r)
  <2> DEFINE p == q.t.point
             row == CollectRow(points[p], q.t.kg, Capacity[p])
             next == [q EXCEPT !.pc = "saveCollected", !.point = p, !.p = row]
  <2>1. q.task \in Tasks /\ Refers(q.t) /\ p \in Points
    BY <1>1, <1>6 DEF GetCollected, NamesRows, Refers
  <2>2. points[p] \in PointRow /\ q.t.kg \in Nat
    BY <1>1, <2>1 DEF TypeOK, TaskRow
  <2>3. row \in PointRow
    BY <2>2, PointRowTypes DEF PointStatuses
  <2> HIDE DEF row
  <2>4. next \in Request
    BY <1>1, <2>1, <2>3 DEF Request, Statements
  <2>5. NamesRows(next)
    BY <1>1, <2>1 DEF NamesRows, Request
  <2>6. req' = [req EXCEPT ![r] = next] \/ req' = [req EXCEPT ![r] = NoRequest]
    BY <1>6 DEF GetCollected, row
  <2>7. /\ req' \in [Requests -> Request]
        /\ \A s \in Requests : NamesRows(req'[s])
    BY <2>4, <2>5, <2>6, RequestStep, IdleRequest
  <2> QED
    BY <1>6, <2>7 DEF GetCollected, TypeOK, db
<1>7. CASE SaveCollected(r) \/ SavePoint(r)
  <2>1. /\ q.point \in Points /\ NextVersion(q.p) \in PointRow
    BY <1>1, <1>7, PointRowTypes DEF SaveCollected, SavePoint, NamesRows, PointStatuses
  <2>2. points' \in [Points -> PointRow]
    BY <1>7, <2>1 DEF SaveCollected, SavePoint, WritePoint, TypeOK
  <2> QED
    BY <1>7, <2>2, TypeReturn DEF SaveCollected, SavePoint, TypeOK
<1>8. CASE GetTaskVehicle(r)
  <2>1. /\ req' \in [Requests -> Request]
        /\ \A s \in Requests : NamesRows(req'[s])
    <3>1. CASE Return(r)
      BY <3>1, TypeReturn
    <3>2. CASE req' = [req EXCEPT ![r].pc = "insertTask"]
      <4>1. NamesRows([q EXCEPT !.pc = "insertTask"])
        BY <1>1, <1>8 DEF GetTaskVehicle, NamesRows, Request, Refers
      <4> QED
        BY <1>3, <3>2, <4>1 DEF Statements
    <3> QED
      BY <1>8, <3>1, <3>2 DEF GetTaskVehicle
  <2> QED
    BY <1>8, <2>1 DEF GetTaskVehicle, TypeOK, db
<1>9. CASE InsertTask(r)
  <2>1. q.task \in Tasks /\ q.point \in Points /\ q.vehicle \in Vehicles
    BY <1>1, <1>9 DEF InsertTask, NamesRows, Refers
  <2>2. /\ InsertedTask(q.point, q.vehicle) \in TaskRow
        /\ Refers(InsertedTask(q.point, q.vehicle))
    BY <2>1, EmptyRowTypes DEF Refers, InsertedTask, NoTask
  <2>3. /\ tasks' \in [Tasks -> TaskRow]
        /\ \A u \in Tasks : tasks'[u].live => Refers(tasks'[u])
    BY <1>9, <2>1, <2>2, TaskTableStep DEF InsertTask
  <2> QED
    BY <1>9, <2>3, TypeReturn DEF InsertTask, TypeOK
<1>10. CASE SaveVehicle(r)
  <2>1. q.vehicle \in Vehicles
    BY <1>1, <1>10 DEF SaveVehicle, NamesRows
  <2>2. NextVersion(q.v) \in VehicleRow
    <3>1. q.v.version + 1 \in Nat
      <4>1. q.v.version \in Nat
        BY <1>1 DEF VehicleRow
      <4> QED
        BY <4>1
    <3> QED
      BY <1>1, <3>1 DEF VehicleRow, NextVersion
  <2>3. vehicles' \in [Vehicles -> VehicleRow]
    BY <1>10, <2>1, <2>2 DEF SaveVehicle, TypeOK
  <2> QED
    BY <1>10, <2>3, TypeReturn DEF SaveVehicle, TypeOK
<1> QED
  BY <1>4, <1>5, <1>6, <1>7, <1>8, <1>9, <1>10 DEF Proceed

LEMMA TypeTables ==
    ASSUME TypeOK,
           \/ \E v \in Vehicles : CreateVehicle(v) \/ DeleteVehicle(v)
           \/ \E p \in Points : CreatePoint(p) \/ DeletePoint(p)
    PROVE  TypeOK'
<1>1. ASSUME NEW v \in Vehicles, CreateVehicle(v) \/ DeleteVehicle(v)
      PROVE  TypeOK'
  <2>1. vehicles[v] \in VehicleRow
    BY DEF TypeOK
  <2>2. Deleted(vehicles[v]) \in VehicleRow
    BY <2>1 DEF VehicleRow, Deleted
  <2>3. vehicles' \in [Vehicles -> VehicleRow]
    BY <1>1, <2>2, EmptyRowTypes DEF CreateVehicle, DeleteVehicle, TypeOK
  <2> QED
    BY <1>1, <2>3 DEF CreateVehicle, DeleteVehicle, TypeOK
<1>2. ASSUME NEW p \in Points, CreatePoint(p) \/ DeletePoint(p)
      PROVE  TypeOK'
  <2>1. points[p] \in PointRow
    BY DEF TypeOK
  <2>2. Deleted(points[p]) \in PointRow
    BY <2>1 DEF PointRow, Deleted
  <2>3. points' \in [Points -> PointRow]
    BY <1>2, <2>2, EmptyRowTypes DEF CreatePoint, DeletePoint, TypeOK
  <2> QED
    BY <1>2, <2>3 DEF CreatePoint, DeletePoint, TypeOK
<1> QED
  BY <1>1, <1>2

\* Dropping a task from the worker's list keeps the rest of the list.
LEMMA TypeDropStale ==
    ASSUME TypeOK, NEW t \in Tasks, DropStale(t)
    PROVE  /\ recovery' \in [stale: SUBSET Tasks, rows: [Tasks -> TaskRow]]
           /\ \A u \in recovery'.stale : Refers(recovery'.rows[u])
<1>1. recovery'.stale = recovery.stale \ {t}
  BY DEF DropStale
<1>2. recovery'.rows = [recovery.rows EXCEPT ![t] = NoTask]
  BY DEF DropStale
<1>3. recovery'.rows \in [Tasks -> TaskRow] /\ recovery'.stale \in SUBSET Tasks
  BY <1>1, <1>2, EmptyRowTypes DEF TypeOK
<1>4. recovery' \in [stale: SUBSET Tasks, rows: [Tasks -> TaskRow]]
  BY <1>3 DEF DropStale
<1>5. \A u \in recovery'.stale : Refers(recovery'.rows[u])
  BY <1>1, <1>2 DEF TypeOK
<1> QED
  BY <1>4, <1>5

LEMMA TypeRecovery ==
    ASSUME TypeOK, Recovery \/ \E t \in Tasks : SkipStale(t)
    PROVE  TypeOK'
<1>1. CASE ListStale
  <2> DEFINE stale == {t \in Tasks : Stale(t)}
             rows == [t \in Tasks |-> IF t \in stale
                                      THEN FailRow(tasks[t], "auto-recovery") ELSE NoTask]
  <2>1. \A t \in Tasks : tasks[t] \in TaskRow
    BY DEF TypeOK
  <2>2. \A t \in stale : Refers(tasks[t])
    BY DEF Stale, StaleRow, TypeOK
  <2>3. \A t \in stale : /\ FailRow(tasks[t], "auto-recovery") \in TaskRow
                         /\ Refers(FailRow(tasks[t], "auto-recovery"))
    <3> TAKE t \in stale
    <3>1. FailRow(tasks[t], "auto-recovery") \in TaskRow
      BY <2>1, TaskRowTypes
    <3> QED
      BY <2>1, <2>2, <3>1, RowsKeepReferences
  <2>4. rows \in [Tasks -> TaskRow]
    BY <2>3, EmptyRowTypes
  <2>5. recovery' = [stale |-> stale, rows |-> rows]
    BY <1>1 DEF ListStale
  <2> HIDE DEF rows
  <2>6. recovery' \in [stale: SUBSET Tasks, rows: [Tasks -> TaskRow]]
    BY <2>4, <2>5
  <2>7. \A t \in recovery'.stale : Refers(recovery'.rows[t])
    BY <2>3, <2>5 DEF rows
  <2> QED
    BY <1>1, <2>6, <2>7 DEF ListStale, TypeOK, db
<1>2. ASSUME NEW t \in Tasks, RecoverTask(t)
      PROVE  TypeOK'
  <2>1. t \in recovery.stale /\ Refers(recovery.rows[t]) /\ recovery.rows[t] \in TaskRow
    BY <1>2 DEF RecoverTask, NextStale, TypeOK
  <2>2. NextVersion(recovery.rows[t]) \in TaskRow
    BY <2>1, TaskRowTypes
  <2>3. Refers(NextVersion(recovery.rows[t]))
    BY <2>1, RowsKeepReferences
  <2>4. /\ tasks' \in [Tasks -> TaskRow]
        /\ \A u \in Tasks : tasks'[u].live => Refers(tasks'[u])
    BY <1>2, <2>2, <2>3, TaskTableStep DEF RecoverTask
  <2> QED
    BY <1>2, <2>4, TypeDropStale DEF RecoverTask, TypeOK
<1>3. ASSUME NEW t \in Tasks, SkipStale(t)
      PROVE  TypeOK'
  BY <1>3, TypeDropStale, BoundsAssumption DEF SkipStale, Fault, TypeOK, db
<1> QED
  BY <1>1, <1>2, <1>3 DEF Recovery

LEMMA TypeStep == TypeOK /\ [Next]_vars => TypeOK'
<1> SUFFICES ASSUME TypeOK, [Next]_vars PROVE TypeOK'
  OBVIOUS
<1>1. ASSUME NEW r \in Requests, Abandon(r) PROVE TypeOK'
  BY <1>1, TypeReturn DEF Abandon, Fault, TypeOK, db
<1>2. CASE Tick
  BY <1>2 DEF Tick, TypeOK, db
<1>3. CASE Crash
  <2>1. TypeOK /\ NoRecovery \in [stale: SUBSET Tasks, rows: [Tasks -> TaskRow]]
    BY EmptyRowTypes DEF NoRecovery
  <2> QED
    BY <1>3, <2>1, IdleRequest DEF Crash, Fault, TypeOK, NoRecovery, db
<1>4. CASE UNCHANGED vars
  BY <1>4 DEF vars, TypeOK
<1> QED
  BY <1>1, <1>2, <1>3, <1>4, TypeTaskCall, TypeVehicleCall, TypePointCall, TypeProceed,
     TypeTables, TypeRecovery DEF Next

\* Every value the services write is one the schema and the domain types know,
\* and no request is about to use a row it does not name.
THEOREM TypeCorrect == Spec => []TypeOK
<1> QED
  BY TypeInit, TypeStep, PTL DEF Spec

-----------------------------------------------------------------------------
(***************************************************************************)
(* The version columns.  PendingWritesLegal is inductive together with     *)
(* TypeOK and InsertsFresh: a write only lands on the version it was       *)
(* computed from, and every write and every delete makes the held rows of  *)
(* all other requests unwritable.                                          *)
(***************************************************************************)
\* A task id is drawn by one request only and stays unused until that request
\* inserts its row, so no insert can meet a row.
InsertsFresh ==
    /\ \A t \in Tasks : Fresh(tasks[t]) <=> ~tasks[t].live
    /\ \A t \in Tasks : Fresh(tasks[t]) => tasks[t] = NoTask
    /\ \A r \in Requests : req[r].pc \in {"getVehicle", "insertTask"} =>
          /\ Fresh(tasks[req[r].task])
          /\ \A s \in Requests : req[s].task = req[r].task => s = r

IInv == TypeOK /\ InsertsFresh /\ PendingWritesLegal

\* AtomicDispatch and Dispatch use one set of domain methods.
LEMMA SharedDomain ==
    /\ \A row, cutoff : Atomic!StaleRow(row, cutoff) <=> StaleRow(row, cutoff)
    /\ \A row, now : Atomic!StartRow(row, now) = StartRow(row, now)
    /\ \A row, kg : Atomic!CompleteRow(row, kg) = CompleteRow(row, kg)
    /\ \A row, reason : Atomic!FailRow(row, reason) = FailRow(row, reason)
    /\ \A row : Atomic!CancelRow(row) = CancelRow(row)
    /\ \A row, d : Atomic!AssignRow(row, d) = AssignRow(row, d)
    /\ \A row : Atomic!ReleaseRow(row) = ReleaseRow(row)
    /\ \A row, load, c : Atomic!LoadRow(row, load, c) = LoadRow(row, load, c)
    /\ \A row, kg, c : Atomic!CollectRow(row, kg, c) = CollectRow(row, kg, c)
    /\ \A row : Atomic!NextVersion(row) = NextVersion(row)
    /\ \A row : Atomic!Deleted(row) = Deleted(row)
    /\ \A row : Atomic!Fresh(row) <=> Fresh(row)
    /\ \A s, next : Atomic!TaskCanTransitionTo(s, next) <=> TaskCanTransitionTo(s, next)
    /\ \A s, next : Atomic!VehicleCanTransitionTo(s, next)
                       <=> VehicleCanTransitionTo(s, next)
  BY DEF Atomic!StaleRow, StaleRow, Atomic!NotStarted, NotStarted,
         Atomic!StartRow, StartRow, Atomic!CompleteRow, CompleteRow,
         Atomic!FailRow, FailRow, Atomic!CancelRow, CancelRow,
         Atomic!AssignRow, AssignRow, Atomic!ReleaseRow, ReleaseRow,
         Atomic!LoadRow, LoadRow, Atomic!UpdateStatus, UpdateStatus,
         Atomic!IsFull, IsFull, Atomic!CollectRow, CollectRow,
         Atomic!NextVersion, NextVersion, Atomic!Deleted, Deleted,
         Atomic!Fresh, Fresh, Atomic!TaskCanTransitionTo, TaskCanTransitionTo,
         Atomic!TaskTransitions, TaskTransitions,
         Atomic!VehicleCanTransitionTo, VehicleCanTransitionTo,
         Atomic!VehicleTransitions, VehicleTransitions

\* A row is left alone, is written with a higher version, or disappears.
TasksAdvance ==
    \A t \in Tasks : \/ tasks'[t] = tasks[t]
                     \/ tasks'[t].live /\ tasks'[t].version > tasks[t].version
VehiclesAdvance ==
    \A v \in Vehicles : \/ vehicles'[v] = vehicles[v]
                        \/ vehicles'[v].version > vehicles[v].version
                        \/ ~vehicles'[v].live /\ vehicles'[v].version = vehicles[v].version
PointsAdvance ==
    \A p \in Points : \/ points'[p] = points[p]
                      \/ points'[p].version > points[p].version
                      \/ ~points'[p].live /\ points'[p].version = points[p].version
Advance == TasksAdvance /\ VehiclesAdvance /\ PointsAdvance /\ clock <= clock'

LEMMA KeepTaskWrite ==
    ASSUME TypeOK, TypeOK', TasksAdvance, clock <= clock',
           NEW r \in Requests, req'[r] = req[r],
           req[r].pc \in {"saveTask", "saveCompleted"}, TaskWriteLegal(r)
    PROVE  TaskWriteLegal(r)'
<1> DEFINE t == req[r].task
<1>1. t \in Tasks /\ req[r].t \in TaskRow
  BY DEF TypeOK, NamesRows, Request
<1>2. /\ req[r].t.version \in Nat /\ tasks[t].version \in Nat
      /\ tasks'[t].version \in Nat /\ clock \in Nat /\ clock' \in Nat
  BY <1>1 DEF TypeOK, TaskRow
<1>3. tasks[t].live /\ req[r].t.version <= tasks[t].version
  BY DEF TaskWriteLegal
<1>4. CASE tasks'[t] = tasks[t]
  BY <1>2, <1>4 DEF TaskWriteLegal, Atomic!Starts, Atomic!Fails, Atomic!Cancels,
                    Atomic!Completes
<1>5. CASE tasks'[t].live /\ tasks'[t].version > tasks[t].version
  BY <1>2, <1>3, <1>5 DEF TaskWriteLegal
<1> QED
  BY <1>1, <1>4, <1>5 DEF TasksAdvance

LEMMA KeepVehicleWrite ==
    ASSUME TypeOK, TypeOK', VehiclesAdvance,
           NEW r \in Requests, req'[r] = req[r],
           req[r].pc = "saveVehicle", VehicleWriteLegal(r)
    PROVE  VehicleWriteLegal(r)'
<1> DEFINE v == req[r].vehicle
<1>1. v \in Vehicles /\ req[r].v \in VehicleRow
  BY DEF TypeOK, NamesRows, Request
<1>2. /\ req[r].v.version \in Nat /\ vehicles[v].version \in Nat
      /\ vehicles'[v].version \in Nat
  BY <1>1 DEF TypeOK, VehicleRow
<1>3. req[r].v.version <= vehicles[v].version
  BY DEF VehicleWriteLegal
<1>4. CASE vehicles'[v] = vehicles[v]
  BY <1>4 DEF VehicleWriteLegal, Atomic!ChangesVehicle
<1>5. CASE vehicles'[v].version > vehicles[v].version
  BY <1>2, <1>3, <1>5 DEF VehicleWriteLegal, SameVersion
<1>6. CASE ~vehicles'[v].live /\ vehicles'[v].version = vehicles[v].version
  BY <1>3, <1>6 DEF VehicleWriteLegal, SameVersion
<1> QED
  BY <1>1, <1>4, <1>5, <1>6 DEF VehiclesAdvance

LEMMA KeepPointWrite ==
    ASSUME TypeOK, TypeOK', PointsAdvance,
           NEW r \in Requests, req'[r] = req[r],
           req[r].pc \in {"savePoint", "saveCollected"}, PointWriteLegal(r)
    PROVE  PointWriteLegal(r)'
<1> DEFINE p == req[r].point
<1>1. p \in Points /\ req[r].p \in PointRow
  BY DEF TypeOK, NamesRows, Request
<1>2. /\ req[r].p.version \in Nat /\ points[p].version \in Nat
      /\ points'[p].version \in Nat
  BY <1>1 DEF TypeOK, PointRow
<1>3. req[r].p.version <= points[p].version
  BY DEF PointWriteLegal
<1>4. CASE points'[p] = points[p]
  BY <1>4 DEF PointWriteLegal, Atomic!ChangesPoint
<1>5. CASE points'[p].version > points[p].version
  BY <1>2, <1>3, <1>5 DEF PointWriteLegal, SameVersion
<1>6. CASE ~points'[p].live /\ points'[p].version = points[p].version
  BY <1>3, <1>6 DEF PointWriteLegal, SameVersion
<1> QED
  BY <1>1, <1>4, <1>5, <1>6 DEF PointsAdvance

LEMMA KeepRecoveryWrite ==
    ASSUME TypeOK, TypeOK', TasksAdvance, clock <= clock', NEW t \in recovery.stale,
           recovery'.rows[t] = recovery.rows[t], RecoveryWriteLegal(t)
    PROVE  RecoveryWriteLegal(t)'
<1>1. t \in Tasks /\ recovery.rows[t] \in TaskRow
  BY DEF TypeOK
<1>2. /\ recovery.rows[t].version \in Nat /\ tasks[t].version \in Nat
      /\ tasks'[t].version \in Nat /\ clock \in Nat /\ clock' \in Nat
  BY <1>1 DEF TypeOK, TaskRow
<1>3. tasks[t].live /\ recovery.rows[t].version <= tasks[t].version
  BY DEF RecoveryWriteLegal
<1>4. CASE tasks'[t] = tasks[t]
  <2>1. StaleRow(tasks[t], clock - StaleAge) => StaleRow(tasks[t], clock' - StaleAge)
    <3>1. tasks[t].startedAt \in Int
      BY <1>1 DEF TypeOK, TaskRow, Times, NotStarted
    <3> QED
      BY <1>2, <3>1, BoundsAssumption DEF StaleRow
  <2>2. ASSUME tasks'[t].version = recovery'.rows[t].version
        PROVE  Atomic!Recovers(tasks[t], NextVersion(recovery.rows[t]))'
    <3>1. Atomic!Recovers(tasks[t], NextVersion(recovery.rows[t]))
      BY <1>4, <2>2 DEF RecoveryWriteLegal
    <3>2. /\ StaleRow(tasks[t], clock - StaleAge)
          /\ NextVersion(recovery.rows[t]) = NextVersion(FailRow(tasks[t], "auto-recovery"))
      BY <3>1, SharedDomain DEF Atomic!Recovers
    <3>3. /\ StaleRow(tasks'[t], clock' - StaleAge)
          /\ NextVersion(recovery'.rows[t]) = NextVersion(FailRow(tasks'[t], "auto-recovery"))
      BY <1>4, <2>1, <3>2
    <3> QED
      BY <3>3, SharedDomain DEF Atomic!Recovers
  <2> QED
    BY <1>3, <1>4, <2>2 DEF RecoveryWriteLegal
<1>5. CASE tasks'[t].live /\ tasks'[t].version > tasks[t].version
  BY <1>2, <1>3, <1>5 DEF RecoveryWriteLegal
<1> QED
  BY <1>1, <1>4, <1>5 DEF TasksAdvance

LEMMA KeepRequestWrite ==
    ASSUME TypeOK, TypeOK', Advance, NEW r \in Requests, req'[r] = req[r],
           RequestWriteLegal(r)
    PROVE  RequestWriteLegal(r)'
  BY KeepTaskWrite, KeepVehicleWrite, KeepPointWrite DEF RequestWriteLegal, Advance

-----------------------------------------------------------------------------
(* What a step can do to the tables. *)

LegalTask(old, new) ==
    \/ Atomic!Starts(old, new) \/ Atomic!Completes(old, new) \/ Atomic!Fails(old, new)
    \/ Atomic!Cancels(old, new) \/ Atomic!Recovers(old, new)

TaskChanged(t) ==
    /\ tasks[t].live
    /\ LegalTask(tasks[t], tasks'[t])
    /\ tasks' = [tasks EXCEPT ![t] = tasks'[t]]

TaskInserted(t, p, v) ==
    /\ Fresh(tasks[t]) /\ points[p].live /\ vehicles[v].live
    /\ tasks' = [tasks EXCEPT ![t] = InsertedTask(p, v)]
    /\ UNCHANGED <<vehicles, points>>

\* A legal write keeps the row's references, raises its version by one, and is
\* never applied to a row with an outcome.
LEMMA LegalTaskFacts ==
    ASSUME NEW old \in TaskRow, NEW new, LegalTask(old, new)
    PROVE  /\ new.live = old.live /\ new.version = old.version + 1
           /\ new.point = old.point /\ new.vehicle = old.vehicle
           /\ old.status \in {"scheduled", "in_progress"}
<1>1. CASE Atomic!Starts(old, new)
  <2>1. /\ new = NextVersion(StartRow(old, new.startedAt))
        /\ TaskCanTransitionTo(old.status, "in_progress")
    BY <1>1, SharedDomain DEF Atomic!Starts
  <2> QED
    BY <2>1 DEF NextVersion, StartRow, TaskRow, TaskCanTransitionTo, TaskTransitions
<1>2. CASE Atomic!Completes(old, new)
  <2>1. /\ new = NextVersion(CompleteRow(old, new.kg))
        /\ TaskCanTransitionTo(old.status, "completed")
    BY <1>2, SharedDomain DEF Atomic!Completes
  <2> QED
    BY <2>1 DEF NextVersion, CompleteRow, TaskRow, TaskCanTransitionTo, TaskTransitions
<1>3. CASE Atomic!Fails(old, new)
  <2>1. /\ new = NextVersion(FailRow(old, "reported"))
        /\ TaskCanTransitionTo(old.status, "failed")
    BY <1>3, SharedDomain DEF Atomic!Fails
  <2> QED
    BY <2>1 DEF NextVersion, FailRow, TaskRow, TaskCanTransitionTo, TaskTransitions
<1>4. CASE Atomic!Cancels(old, new)
  <2>1. /\ new = NextVersion(CancelRow(old))
        /\ TaskCanTransitionTo(old.status, "cancelled")
    BY <1>4, SharedDomain DEF Atomic!Cancels
  <2> QED
    BY <2>1 DEF NextVersion, CancelRow, TaskRow, TaskCanTransitionTo, TaskTransitions
<1>5. CASE Atomic!Recovers(old, new)
  <2>1. /\ new = NextVersion(FailRow(old, "auto-recovery"))
        /\ StaleRow(old, clock - StaleAge)
    BY <1>5, SharedDomain DEF Atomic!Recovers
  <2> QED
    BY <2>1 DEF NextVersion, FailRow, TaskRow, StaleRow
<1> QED
  BY <1>1, <1>2, <1>3, <1>4, <1>5 DEF LegalTask

\* The write of a request lands only as a legal operation on the stored row.
LEMMA SavedTask ==
    ASSUME IInv, NEW r \in Requests, SaveTask(r) \/ SaveCompleted(r)
    PROVE  UNCHANGED tasks \/ (req[r].task \in Tasks /\ TaskChanged(req[r].task))
<1> DEFINE t == req[r].task
           new == NextVersion(req[r].t)
<1>1. t \in Tasks /\ TaskWriteLegal(r)
  BY DEF IInv, TypeOK, NamesRows, PendingWritesLegal, RequestWriteLegal,
         SaveTask, SaveCompleted
<1>2. CASE SameVersion(tasks[t], req[r].t)
  <2>1. tasks' = [tasks EXCEPT ![t] = new]
    BY <1>2 DEF SaveTask, SaveCompleted
  <2>2. tasks'[t] = new
    BY <1>1, <2>1 DEF IInv, TypeOK
  <2>3. tasks[t].live /\ LegalTask(tasks[t], new)
    BY <1>1, <1>2 DEF SaveTask, SaveCompleted, TaskWriteLegal, SameVersion, LegalTask
  <2> QED
    BY <1>1, <2>1, <2>2, <2>3 DEF TaskChanged
<1>3. CASE ~SameVersion(tasks[t], req[r].t)
  BY <1>3 DEF SaveTask, SaveCompleted
<1> QED
  BY <1>2, <1>3

\* So does the write of the recovery worker, however old its list is.
LEMMA RecoveredTask ==
    ASSUME IInv, NEW t \in Tasks, RecoverTask(t)
    PROVE  UNCHANGED tasks \/ TaskChanged(t)
<1> DEFINE new == NextVersion(recovery.rows[t])
<1>1. RecoveryWriteLegal(t)
  BY DEF IInv, PendingWritesLegal, RecoverTask, NextStale
<1>2. CASE SameVersion(tasks[t], recovery.rows[t])
  <2>1. tasks' = [tasks EXCEPT ![t] = new]
    BY <1>2 DEF RecoverTask
  <2>2. tasks'[t] = new
    BY <2>1 DEF IInv, TypeOK
  <2>3. tasks[t].live /\ LegalTask(tasks[t], new)
    BY <1>1, <1>2 DEF RecoveryWriteLegal, SameVersion, LegalTask
  <2> QED
    BY <2>1, <2>2, <2>3 DEF TaskChanged
<1>3. CASE ~SameVersion(tasks[t], recovery.rows[t])
  BY <1>3 DEF RecoverTask
<1> QED
  BY <1>2, <1>3

LEMMA InsertedFresh ==
    ASSUME IInv, NEW r \in Requests, InsertTask(r)
    PROVE  \/ UNCHANGED tasks
           \/ \E t \in Tasks, p \in Points, v \in Vehicles : TaskInserted(t, p, v)
  BY DEF IInv, InsertTask, InsertsFresh, TypeOK, NamesRows, Refers, TaskInserted

\* A request that is called reads and writes nothing else.
LEMMA CallsOnlyHold ==
    ASSUME NEW r \in Requests, TaskCall(r) \/ VehicleCall(r) \/ PointCall(r)
    PROVE  \E op, q : Called(r, op, q)
  BY DEF TaskCall, StartTask, CompleteTask, FailTask, CancelTask, CreateTask, HoldTask,
         VehicleCall, AssignDriver, ReleaseVehicle, UpdateVehicleStatus, HoldVehicle,
         PointCall, UpdateLoad, UpdatePointStatus, HoldPoint

\* Every change to the tasks is an insert or a legal operation on one row.
LEMMA TaskSources ==
    ASSUME IInv, [Next]_vars
    PROVE  \/ UNCHANGED tasks
           \/ \E t \in Tasks : TaskChanged(t)
           \/ \E r \in Requests : InsertTask(r)
<1>1. ASSUME NEW r \in Requests, TaskCall(r) \/ VehicleCall(r) \/ PointCall(r)
      PROVE  UNCHANGED tasks
  BY <1>1, CallsOnlyHold DEF Called, db
<1>2. ASSUME NEW r \in Requests, GetCollected(r) \/ SaveCollected(r) \/ GetTaskVehicle(r)
                                 \/ SaveVehicle(r) \/ SavePoint(r) \/ Abandon(r)
      PROVE  UNCHANGED tasks
  BY <1>2 DEF GetCollected, SaveCollected, GetTaskVehicle, SaveVehicle, SavePoint,
              Abandon, db
<1>3. ASSUME \/ \E v \in Vehicles : CreateVehicle(v) \/ DeleteVehicle(v)
             \/ \E p \in Points : CreatePoint(p) \/ DeletePoint(p)
             \/ ListStale \/ Tick \/ Crash \/ UNCHANGED vars
             \/ \E t \in Tasks : SkipStale(t)
      PROVE  UNCHANGED tasks
  BY <1>3 DEF CreateVehicle, DeleteVehicle, CreatePoint, DeletePoint, ListStale, Tick,
              Crash, SkipStale, vars, db
<1> QED
  BY <1>1, <1>2, <1>3, SavedTask, RecoveredTask
  DEF Next, Proceed, Recovery

LEMMA TaskSteps ==
    ASSUME IInv, [Next]_vars
    PROVE  \/ UNCHANGED tasks
           \/ \E t \in Tasks : TaskChanged(t)
           \/ \E t \in Tasks, p \in Points, v \in Vehicles : TaskInserted(t, p, v)
  BY TaskSources, InsertedFresh

VehicleChanged(v) ==
    /\ vehicles[v].live
    /\ Atomic!ChangesVehicle(vehicles[v], vehicles'[v])
    /\ vehicles' = [vehicles EXCEPT ![v] = vehicles'[v]]

PointChanged(p) ==
    /\ points[p].live
    /\ Atomic!ChangesPoint(points[p], points'[p], Capacity[p])
    /\ points' = [points EXCEPT ![p] = points'[p]]

LEMMA SavedVehicle ==
    ASSUME IInv, NEW r \in Requests, SaveVehicle(r)
    PROVE  UNCHANGED vehicles \/ (req[r].vehicle \in Vehicles /\ VehicleChanged(req[r].vehicle))
<1> DEFINE v == req[r].vehicle
           new == NextVersion(req[r].v)
<1>1. v \in Vehicles /\ VehicleWriteLegal(r)
  BY DEF IInv, TypeOK, NamesRows, PendingWritesLegal, RequestWriteLegal, SaveVehicle
<1>2. CASE SameVersion(vehicles[v], req[r].v)
  <2>1. vehicles' = [vehicles EXCEPT ![v] = new]
    BY <1>2 DEF SaveVehicle
  <2>2. vehicles'[v] = new
    BY <1>1, <2>1 DEF IInv, TypeOK
  <2>3. vehicles[v].live /\ Atomic!ChangesVehicle(vehicles[v], new)
    BY <1>1, <1>2 DEF VehicleWriteLegal, SameVersion
  <2> QED
    BY <1>1, <2>1, <2>2, <2>3 DEF VehicleChanged
<1>3. CASE ~SameVersion(vehicles[v], req[r].v)
  BY <1>3 DEF SaveVehicle
<1> QED
  BY <1>2, <1>3

LEMMA SavedPoint ==
    ASSUME IInv, NEW r \in Requests, SavePoint(r) \/ SaveCollected(r)
    PROVE  UNCHANGED points \/ (req[r].point \in Points /\ PointChanged(req[r].point))
<1> DEFINE p == req[r].point
           new == NextVersion(req[r].p)
<1>1. p \in Points /\ PointWriteLegal(r)
  BY DEF IInv, TypeOK, NamesRows, PendingWritesLegal, RequestWriteLegal,
         SavePoint, SaveCollected
<1>2. CASE CanSavePoint(r)
  <2>1. points' = [points EXCEPT ![p] = new]
    BY <1>2 DEF SavePoint, SaveCollected, WritePoint
  <2>2. points'[p] = new
    BY <1>1, <2>1 DEF IInv, TypeOK
  <2>3. points[p].live /\ Atomic!ChangesPoint(points[p], new, Capacity[p])
    BY <1>1, <1>2 DEF PointWriteLegal, SameVersion, CanSavePoint
  <2> QED
    BY <1>1, <2>1, <2>2, <2>3 DEF PointChanged
<1>3. CASE ~CanSavePoint(r)
  BY <1>3 DEF SavePoint, SaveCollected, WritePoint
<1> QED
  BY <1>2, <1>3

LEMMA VehicleSteps ==
    ASSUME IInv, [Next]_vars
    PROVE  \/ UNCHANGED vehicles
           \/ \E v \in Vehicles : VehicleChanged(v) \/ CreateVehicle(v) \/ DeleteVehicle(v)
<1>1. ASSUME NEW r \in Requests, TaskCall(r) \/ VehicleCall(r) \/ PointCall(r)
      PROVE  UNCHANGED vehicles
  BY <1>1, CallsOnlyHold DEF Called, db
<1>2. ASSUME NEW r \in Requests,
             \/ SaveTask(r) \/ SaveCompleted(r) \/ GetCollected(r) \/ SaveCollected(r)
             \/ GetTaskVehicle(r) \/ InsertTask(r) \/ SavePoint(r) \/ Abandon(r)
      PROVE  UNCHANGED vehicles
  BY <1>2 DEF SaveTask, SaveCompleted, GetCollected, SaveCollected, GetTaskVehicle,
              InsertTask, SavePoint, Abandon, db
<1>3. ASSUME \/ \E p \in Points : CreatePoint(p) \/ DeletePoint(p)
             \/ ListStale \/ Tick \/ Crash \/ UNCHANGED vars
             \/ \E t \in Tasks : SkipStale(t) \/ RecoverTask(t)
      PROVE  UNCHANGED vehicles
  BY <1>3 DEF CreatePoint, DeletePoint, ListStale, Tick, Crash, SkipStale, RecoverTask,
              vars, db
<1> QED
  BY <1>1, <1>2, <1>3, SavedVehicle DEF Next, Proceed, Recovery

LEMMA PointSteps ==
    ASSUME IInv, [Next]_vars
    PROVE  \/ UNCHANGED points
           \/ \E p \in Points : PointChanged(p) \/ CreatePoint(p) \/ DeletePoint(p)
<1>1. ASSUME NEW r \in Requests, TaskCall(r) \/ VehicleCall(r) \/ PointCall(r)
      PROVE  UNCHANGED points
  BY <1>1, CallsOnlyHold DEF Called, db
<1>2. ASSUME NEW r \in Requests,
             \/ SaveTask(r) \/ SaveCompleted(r) \/ GetCollected(r) \/ SaveVehicle(r)
             \/ GetTaskVehicle(r) \/ InsertTask(r) \/ Abandon(r)
      PROVE  UNCHANGED points
  BY <1>2 DEF SaveTask, SaveCompleted, GetCollected, SaveVehicle, GetTaskVehicle,
              InsertTask, Abandon, db
<1>3. ASSUME \/ \E v \in Vehicles : CreateVehicle(v) \/ DeleteVehicle(v)
             \/ ListStale \/ Tick \/ Crash \/ UNCHANGED vars
             \/ \E t \in Tasks : SkipStale(t) \/ RecoverTask(t)
      PROVE  UNCHANGED points
  BY <1>3 DEF CreateVehicle, DeleteVehicle, ListStale, Tick, Crash, SkipStale, RecoverTask,
              vars, db
<1> QED
  BY <1>1, <1>2, <1>3, SavedPoint DEF Next, Proceed, Recovery

LEMMA LegalVehicleFacts ==
    ASSUME NEW old \in VehicleRow, NEW new, Atomic!ChangesVehicle(old, new)
    PROVE  new.live = old.live /\ new.version = old.version + 1
<1>1. CASE new = NextVersion(AssignRow(old, new.driver))
  BY <1>1 DEF NextVersion, AssignRow, VehicleRow
<1>2. CASE new = NextVersion(ReleaseRow(old))
  BY <1>2 DEF NextVersion, ReleaseRow, VehicleRow
<1>3. CASE new = NextVersion([old EXCEPT !.status = new.status])
  BY <1>3 DEF NextVersion, VehicleRow
<1> QED
  BY <1>1, <1>2, <1>3, SharedDomain DEF Atomic!ChangesVehicle

LEMMA LegalPointFacts ==
    ASSUME NEW old \in PointRow, NEW new, NEW c, Atomic!ChangesPoint(old, new, c)
    PROVE  new.live = old.live /\ new.version = old.version + 1
<1>1. CASE new = NextVersion(LoadRow(old, new.load, c))
  <2> DEFINE loaded == LoadRow(old, new.load, c)
  <2>1. loaded.live = old.live /\ loaded.version = old.version
    BY DEF LoadRow, UpdateStatus, PointRow
  <2>2. loaded = [live |-> loaded.live, status |-> loaded.status,
                  load |-> loaded.load, version |-> loaded.version]
    BY DEF LoadRow, UpdateStatus, PointRow
  <2> HIDE DEF loaded
  <2> QED
    BY <1>1, <2>1, <2>2 DEF NextVersion, loaded
<1>2. CASE new = NextVersion([old EXCEPT !.status = new.status])
  BY <1>2 DEF NextVersion, PointRow
<1> QED
  BY <1>1, <1>2, SharedDomain DEF Atomic!ChangesPoint

LEMMA StepAdvances ==
    ASSUME IInv, [Next]_vars
    PROVE  Advance
<1>1. TasksAdvance
  <2>1. \A t \in Tasks : tasks[t] \in TaskRow /\ tasks[t].version \in Nat
    BY DEF IInv, TypeOK, TaskRow
  <2>2. ASSUME NEW t \in Tasks, TaskChanged(t) PROVE TasksAdvance
    <3>1. tasks'[t].live /\ tasks'[t].version = tasks[t].version + 1
      BY <2>1, <2>2, LegalTaskFacts DEF TaskChanged
    <3>2. tasks'[t].version > tasks[t].version
      BY <2>1, <3>1
    <3>3. \A u \in Tasks \ {t} : tasks'[u] = tasks[u]
      BY <2>2 DEF TaskChanged, IInv, TypeOK
    <3> QED
      BY <3>1, <3>2, <3>3 DEF TasksAdvance
  <2>3. ASSUME NEW t \in Tasks, NEW p \in Points, NEW v \in Vehicles, TaskInserted(t, p, v)
        PROVE  TasksAdvance
    <3>1. tasks'[t] = InsertedTask(p, v) /\ tasks[t].version = 0
      BY <2>3 DEF TaskInserted, Fresh, IInv, TypeOK
    <3>2. tasks'[t].live /\ tasks'[t].version > tasks[t].version
      BY <3>1 DEF InsertedTask, NoTask
    <3>3. \A u \in Tasks \ {t} : tasks'[u] = tasks[u]
      BY <2>3 DEF TaskInserted, IInv, TypeOK
    <3> QED
      BY <3>2, <3>3 DEF TasksAdvance
  <2> QED
    BY <2>2, <2>3, TaskSteps DEF TasksAdvance
<1>2. VehiclesAdvance
  <2>1. \A v \in Vehicles : vehicles[v] \in VehicleRow /\ vehicles[v].version \in Nat
    BY DEF IInv, TypeOK, VehicleRow
  <2>2. ASSUME NEW v \in Vehicles, VehicleChanged(v) PROVE VehiclesAdvance
    <3>1. vehicles'[v].version = vehicles[v].version + 1
      BY <2>1, <2>2, LegalVehicleFacts DEF VehicleChanged
    <3>2. vehicles'[v].version > vehicles[v].version
      BY <2>1, <3>1
    <3>3. \A u \in Vehicles \ {v} : vehicles'[u] = vehicles[u]
      BY <2>2 DEF VehicleChanged, IInv, TypeOK
    <3> QED
      BY <3>2, <3>3 DEF VehiclesAdvance
  <2>3. ASSUME NEW v \in Vehicles, CreateVehicle(v) PROVE VehiclesAdvance
    <3>1. vehicles'[v].version = 1 /\ vehicles[v].version = 0
      BY <2>3 DEF CreateVehicle, Fresh, IInv, TypeOK, InsertedVehicle, NoVehicle
    <3>2. \A u \in Vehicles \ {v} : vehicles'[u] = vehicles[u]
      BY <2>3 DEF CreateVehicle, IInv, TypeOK
    <3> QED
      BY <3>1, <3>2 DEF VehiclesAdvance
  <2>4. ASSUME NEW v \in Vehicles, DeleteVehicle(v) PROVE VehiclesAdvance
    <3>1. vehicles'[v] = Deleted(vehicles[v])
      BY <2>4 DEF DeleteVehicle, IInv, TypeOK
    <3>2. ~vehicles'[v].live /\ vehicles'[v].version = vehicles[v].version
      BY <2>1, <3>1 DEF Deleted, VehicleRow
    <3>3. \A u \in Vehicles \ {v} : vehicles'[u] = vehicles[u]
      BY <2>4 DEF DeleteVehicle, IInv, TypeOK
    <3> QED
      BY <3>2, <3>3 DEF VehiclesAdvance
  <2> QED
    BY <2>2, <2>3, <2>4, VehicleSteps DEF VehiclesAdvance
<1>3. PointsAdvance
  <2>1. \A p \in Points : points[p] \in PointRow /\ points[p].version \in Nat
    BY DEF IInv, TypeOK, PointRow
  <2>2. ASSUME NEW p \in Points, PointChanged(p) PROVE PointsAdvance
    <3>1. points'[p].version = points[p].version + 1
      BY <2>1, <2>2, LegalPointFacts DEF PointChanged
    <3>2. points'[p].version > points[p].version
      BY <2>1, <3>1
    <3>3. \A u \in Points \ {p} : points'[u] = points[u]
      BY <2>2 DEF PointChanged, IInv, TypeOK
    <3> QED
      BY <3>2, <3>3 DEF PointsAdvance
  <2>3. ASSUME NEW p \in Points, CreatePoint(p) PROVE PointsAdvance
    <3>1. points'[p].version = 1 /\ points[p].version = 0
      BY <2>3 DEF CreatePoint, Fresh, IInv, TypeOK, InsertedPoint, NoPoint
    <3>2. \A u \in Points \ {p} : points'[u] = points[u]
      BY <2>3 DEF CreatePoint, IInv, TypeOK
    <3> QED
      BY <3>1, <3>2 DEF PointsAdvance
  <2>4. ASSUME NEW p \in Points, DeletePoint(p) PROVE PointsAdvance
    <3>1. points'[p] = Deleted(points[p])
      BY <2>4 DEF DeletePoint, IInv, TypeOK
    <3>2. ~points'[p].live /\ points'[p].version = points[p].version
      BY <2>1, <3>1 DEF Deleted, PointRow
    <3>3. \A u \in Points \ {p} : points'[u] = points[u]
      BY <2>4 DEF DeletePoint, IInv, TypeOK
    <3> QED
      BY <3>2, <3>3 DEF PointsAdvance
  <2> QED
    BY <2>2, <2>3, <2>4, PointSteps DEF PointsAdvance
<1>4. clock <= clock'
  <2>1. ASSUME NEW r \in Requests, TaskCall(r) \/ VehicleCall(r) \/ PointCall(r)
        PROVE  clock' = clock
    BY <2>1, CallsOnlyHold DEF Called
  <2>2. ASSUME NEW r \in Requests, Proceed(r) \/ Abandon(r)
        PROVE  clock' = clock
    BY <2>2 DEF Proceed, SaveTask, SaveCompleted, GetCollected, SaveCollected,
                GetTaskVehicle, InsertTask, SaveVehicle, SavePoint, Abandon
  <2>3. ASSUME \/ \E v \in Vehicles : CreateVehicle(v) \/ DeleteVehicle(v)
               \/ \E p \in Points : CreatePoint(p) \/ DeletePoint(p)
               \/ ListStale \/ Crash \/ UNCHANGED vars
               \/ \E t \in Tasks : SkipStale(t) \/ RecoverTask(t)
        PROVE  clock' = clock
    BY <2>3 DEF CreateVehicle, DeleteVehicle, CreatePoint, DeletePoint, ListStale, Crash,
                SkipStale, RecoverTask, vars
  <2>4. clock \in Nat /\ (Tick => clock' = clock + 1)
    BY DEF Tick, IInv, TypeOK
  <2> QED
    BY <2>1, <2>2, <2>3, <2>4 DEF Next, Recovery
<1> QED
  BY <1>1, <1>2, <1>3, <1>4 DEF Advance

-----------------------------------------------------------------------------
(* A request that is called holds a legal write of the row it read. *)

LEMMA HeldTaskLegal ==
    ASSUME TypeOK, TypeOK', NEW r \in Requests, NEW t \in Tasks, NEW op, NEW row,
           NEW pc \in {"saveTask", "saveCompleted"}, HoldTask(r, op, t, row, pc),
           row.version = tasks[t].version,
           pc = "saveTask" => \/ Atomic!Starts(tasks[t], NextVersion(row))
                              \/ Atomic!Fails(tasks[t], NextVersion(row))
                              \/ Atomic!Cancels(tasks[t], NextVersion(row)),
           pc = "saveCompleted" => Atomic!Completes(tasks[t], NextVersion(row))
    PROVE  RequestWriteLegal(r)'
<1>1. tasks' = tasks /\ clock' = clock /\ tasks[t].live /\ tasks[t].version \in Nat
  BY DEF HoldTask, Called, db, TypeOK, TaskRow
<1>2. req'[r].pc = pc /\ req'[r].task = t /\ req'[r].t = row
  BY DEF HoldTask, Called, TypeOK, NoRequest
<1>3. TaskWriteLegal(r)'
  BY <1>1, <1>2 DEF TaskWriteLegal, Atomic!Starts, Atomic!Fails, Atomic!Cancels,
                    Atomic!Completes
<1> QED
  BY <1>2, <1>3 DEF RequestWriteLegal

LEMMA TaskCallLegal ==
    ASSUME TypeOK, TypeOK', NEW r \in Requests, TaskCall(r)
    PROVE  RequestWriteLegal(r)'
<1> PICK t \in Tasks :
       \/ StartTask(r, t) \/ CompleteTask(r, t) \/ FailTask(r, t) \/ CancelTask(r, t)
       \/ \E p \in Points, v \in Vehicles : CreateTask(r, t, p, v)
  BY DEF TaskCall
<1>1. tasks[t] \in TaskRow /\ clock \in Nat
  BY DEF TypeOK
<1>2. CASE StartTask(r, t)
  <2> DEFINE row == StartRow(tasks[t], clock)
             new == NextVersion(row)
  <2>1. row.version = tasks[t].version /\ new.startedAt = clock
    BY <1>1 DEF StartRow, NextVersion, TaskRow
  <2>2. Atomic!Starts(tasks[t], new)
    BY <1>1, <1>2, <2>1, SharedDomain DEF StartTask, Atomic!Starts
  <2> QED
    BY <1>2, <2>1, <2>2, HeldTaskLegal DEF StartTask
<1>3. CASE CompleteTask(r, t)
  <2>1. PICK kg \in Kgs :
           HoldTask(r, "CompleteTask", t, CompleteRow(tasks[t], kg), "saveCompleted")
    BY <1>3 DEF CompleteTask
  <2> DEFINE row == CompleteRow(tasks[t], kg)
             new == NextVersion(row)
  <2>2. row.version = tasks[t].version /\ new.kg = kg /\ kg \in Nat
    BY <1>1, KgsAssumption DEF CompleteRow, NextVersion, TaskRow
  <2>3. Atomic!Completes(tasks[t], new)
    BY <1>3, <2>2, SharedDomain DEF CompleteTask, Atomic!Completes
  <2> QED
    BY <2>1, <2>2, <2>3, HeldTaskLegal
<1>4. CASE FailTask(r, t)
  <2> DEFINE row == FailRow(tasks[t], "reported")
  <2>1. row.version = tasks[t].version
    BY <1>1 DEF FailRow, TaskRow
  <2>2. Atomic!Fails(tasks[t], NextVersion(row))
    BY <1>4, SharedDomain DEF FailTask, Atomic!Fails
  <2> QED
    BY <1>4, <2>1, <2>2, HeldTaskLegal DEF FailTask
<1>5. CASE CancelTask(r, t)
  <2> DEFINE row == CancelRow(tasks[t])
  <2>1. row.version = tasks[t].version
    BY <1>1 DEF CancelRow, TaskRow
  <2>2. Atomic!Cancels(tasks[t], NextVersion(row))
    BY <1>5, SharedDomain DEF CancelTask, Atomic!Cancels
  <2> QED
    BY <1>5, <2>1, <2>2, HeldTaskLegal DEF CancelTask
<1>6. ASSUME NEW p \in Points, NEW v \in Vehicles, CreateTask(r, t, p, v)
      PROVE  RequestWriteLegal(r)'
  BY <1>6 DEF CreateTask, Called, TypeOK, NoRequest, RequestWriteLegal
<1> QED
  BY <1>2, <1>3, <1>4, <1>5, <1>6

LEMMA VehicleCallLegal ==
    ASSUME TypeOK, TypeOK', NEW r \in Requests, VehicleCall(r)
    PROVE  RequestWriteLegal(r)'
<1> PICK v \in Vehicles :
       AssignDriver(r, v) \/ ReleaseVehicle(r, v) \/ UpdateVehicleStatus(r, v)
  BY DEF VehicleCall
<1>1. vehicles[v] \in VehicleRow /\ vehicles[v].version \in Nat
  BY DEF TypeOK, VehicleRow
<1>2. ASSUME NEW op, NEW row, row.version = vehicles[v].version,
             Atomic!ChangesVehicle(vehicles[v], NextVersion(row)),
             HoldVehicle(r, op, v, row)
      PROVE  RequestWriteLegal(r)'
  <2>1. vehicles' = vehicles
    BY <1>2 DEF HoldVehicle, Called, db
  <2>2. req'[r].pc = "saveVehicle" /\ req'[r].vehicle = v /\ req'[r].v = row
    BY <1>2 DEF HoldVehicle, Called, TypeOK, NoRequest
  <2>3. VehicleWriteLegal(r)'
    BY <1>1, <1>2, <2>1, <2>2 DEF VehicleWriteLegal, Atomic!ChangesVehicle
  <2> QED
    BY <2>2, <2>3 DEF RequestWriteLegal
<1>3. CASE AssignDriver(r, v)
  <2>1. PICK d \in Drivers : HoldVehicle(r, "AssignDriver", v, AssignRow(vehicles[v], d))
    BY <1>3 DEF AssignDriver
  <2> DEFINE row == AssignRow(vehicles[v], d)
             new == NextVersion(row)
  <2>2. row.version = vehicles[v].version /\ new.driver = d
    BY <1>1 DEF AssignRow, NextVersion, VehicleRow
  <2>3. Atomic!ChangesVehicle(vehicles[v], new)
    BY <1>3, <2>2, SharedDomain DEF AssignDriver, Atomic!ChangesVehicle
  <2> QED
    BY <1>2, <2>1, <2>2, <2>3
<1>4. CASE ReleaseVehicle(r, v)
  <2> DEFINE row == ReleaseRow(vehicles[v])
  <2>1. row.version = vehicles[v].version
    BY <1>1 DEF ReleaseRow, VehicleRow
  <2>2. Atomic!ChangesVehicle(vehicles[v], NextVersion(row))
    BY <1>4, SharedDomain DEF ReleaseVehicle, Atomic!ChangesVehicle
  <2> QED
    BY <1>2, <1>4, <2>1, <2>2 DEF ReleaseVehicle
<1>5. CASE UpdateVehicleStatus(r, v)
  <2>1. PICK s \in VehicleStatuses :
           /\ VehicleCanTransitionTo(vehicles[v].status, s)
           /\ HoldVehicle(r, "UpdateVehicleStatus", v, [vehicles[v] EXCEPT !.status = s])
    BY <1>5 DEF UpdateVehicleStatus
  <2> DEFINE row == [vehicles[v] EXCEPT !.status = s]
             new == NextVersion(row)
  <2>2. row.version = vehicles[v].version /\ new.status = s
    BY <1>1 DEF NextVersion, VehicleRow
  <2>3. Atomic!ChangesVehicle(vehicles[v], new)
    BY <2>1, <2>2, SharedDomain DEF Atomic!ChangesVehicle
  <2> QED
    BY <1>2, <2>1, <2>2, <2>3
<1> QED
  BY <1>3, <1>4, <1>5

LEMMA PointCallLegal ==
    ASSUME TypeOK, TypeOK', NEW r \in Requests, PointCall(r)
    PROVE  RequestWriteLegal(r)'
<1> PICK p \in Points : UpdateLoad(r, p) \/ UpdatePointStatus(r, p)
  BY DEF PointCall
<1>1. points[p] \in PointRow /\ points[p].version \in Nat
  BY DEF TypeOK, PointRow
<1>2. ASSUME NEW op, NEW row, row.version = points[p].version,
             Atomic!ChangesPoint(points[p], NextVersion(row), Capacity[p]),
             HoldPoint(r, op, p, row)
      PROVE  RequestWriteLegal(r)'
  <2>1. points' = points
    BY <1>2 DEF HoldPoint, Called, db
  <2>2. req'[r].pc = "savePoint" /\ req'[r].point = p /\ req'[r].p = row
    BY <1>2 DEF HoldPoint, Called, TypeOK, NoRequest
  <2>3. PointWriteLegal(r)'
    BY <1>1, <1>2, <2>1, <2>2 DEF PointWriteLegal, Atomic!ChangesPoint
  <2> QED
    BY <2>2, <2>3 DEF RequestWriteLegal
<1>3. CASE UpdateLoad(r, p)
  <2>1. PICK load \in Kgs :
           HoldPoint(r, "UpdateLoad", p, LoadRow(points[p], load, Capacity[p]))
    BY <1>3 DEF UpdateLoad
  <2> DEFINE row == LoadRow(points[p], load, Capacity[p])
             new == NextVersion(row)
  <2>2. row.version = points[p].version /\ new.load = load /\ load \in Nat
    BY <1>1, KgsAssumption DEF LoadRow, UpdateStatus, NextVersion, PointRow
  <2>3. Atomic!ChangesPoint(points[p], new, Capacity[p])
    BY <2>2, SharedDomain DEF Atomic!ChangesPoint
  <2> QED
    BY <1>2, <2>1, <2>2, <2>3
<1>4. CASE UpdatePointStatus(r, p)
  <2>1. PICK s \in PointStatuses :
           HoldPoint(r, "UpdatePointStatus", p, [points[p] EXCEPT !.status = s])
    BY <1>4 DEF UpdatePointStatus
  <2> DEFINE row == [points[p] EXCEPT !.status = s]
             new == NextVersion(row)
  <2>2. row.version = points[p].version /\ new.status = s
    BY <1>1 DEF NextVersion, PointRow
  <2>3. Atomic!ChangesPoint(points[p], new, Capacity[p])
    BY <2>2, SharedDomain DEF Atomic!ChangesPoint, Atomic!PointStatuses, PointStatuses
  <2> QED
    BY <1>2, <2>1, <2>2, <2>3
<1> QED
  BY <1>3, <1>4

\* After its statement a request holds nothing, or the write of a point.
LEMMA ProceedLegal ==
    ASSUME TypeOK, TypeOK', NEW r \in Requests, Proceed(r) \/ Abandon(r)
    PROVE  RequestWriteLegal(r)'
<1>1. CASE Return(r)
  BY <1>1 DEF Return, TypeOK, NoRequest, RequestWriteLegal
<1>2. CASE \E pc \in {"getCollected", "insertTask"} : req' = [req EXCEPT ![r].pc = pc]
  BY <1>2 DEF TypeOK, Request, RequestWriteLegal
<1>3. CASE GetCollected(r)
  <2> DEFINE p == req[r].t.point
             row == CollectRow(points[p], req[r].t.kg, Capacity[p])
             load == IF req[r].t.kg > points[p].load THEN 0
                     ELSE points[p].load - req[r].t.kg
  <2>1. p \in Points /\ points[p] \in PointRow /\ req[r].t.kg \in Nat
    BY <1>3 DEF GetCollected, TypeOK, NamesRows, Refers, Request, TaskRow
  <2>2. load \in Nat
    BY <2>1 DEF PointRow
  <2>3. row = LoadRow(points[p], load, Capacity[p])
    BY DEF CollectRow
  <2> HIDE DEF load
  <2>4. row.version = points[p].version /\ NextVersion(row).load = load
    BY <2>1, <2>2, <2>3 DEF LoadRow, UpdateStatus, NextVersion, PointRow
  <2>5. Atomic!ChangesPoint(points[p], NextVersion(row), Capacity[p])
    BY <2>2, <2>3, <2>4, SharedDomain DEF Atomic!ChangesPoint
  <2>6. points[p].version \in Nat /\ points' = points
    BY <1>3, <2>1 DEF PointRow, GetCollected, db
  <2> HIDE DEF row
  <2>7. CASE points[p].live
    <3>1. req'[r].pc = "saveCollected" /\ req'[r].point = p /\ req'[r].p = row
      BY <1>3, <2>7 DEF GetCollected, TypeOK, Request, row
    <3>2. PointWriteLegal(r)'
      BY <2>4, <2>5, <2>6, <3>1 DEF PointWriteLegal, Atomic!ChangesPoint
    <3> QED
      BY <3>1, <3>2 DEF RequestWriteLegal
  <2>8. CASE ~points[p].live
    BY <1>1, <1>3, <2>8 DEF GetCollected, Return
  <2> QED
    BY <2>7, <2>8
<1> QED
  BY <1>1, <1>2, <1>3 DEF Proceed, SaveTask, SaveCompleted, SaveCollected, GetTaskVehicle,
     InsertTask, SaveVehicle, SavePoint, Abandon

\* A step of one request leaves every other request alone.
LEMMA OthersUntouched ==
    ASSUME TypeOK, [Next]_vars, ~Crash
    PROVE  \/ req' = req
           \/ \E r \in Requests :
                 /\ \/ TaskCall(r) \/ VehicleCall(r) \/ PointCall(r)
                    \/ Proceed(r) \/ Abandon(r)
                 /\ \A s \in Requests \ {r} : req'[s] = req[s]
<1>1. ASSUME NEW r \in Requests, TaskCall(r) \/ VehicleCall(r) \/ PointCall(r)
      PROVE  \A s \in Requests \ {r} : req'[s] = req[s]
  BY <1>1, CallsOnlyHold DEF Called, TypeOK
<1>2. ASSUME NEW r \in Requests, Proceed(r) \/ Abandon(r)
      PROVE  \A s \in Requests \ {r} : req'[s] = req[s]
  BY <1>2 DEF Proceed, SaveTask, SaveCompleted, GetCollected, SaveCollected, GetTaskVehicle,
              InsertTask, SaveVehicle, SavePoint, Abandon, Return, TypeOK
<1>3. ASSUME \/ \E v \in Vehicles : CreateVehicle(v) \/ DeleteVehicle(v)
             \/ \E p \in Points : CreatePoint(p) \/ DeletePoint(p)
             \/ Recovery \/ Tick \/ UNCHANGED vars
             \/ \E t \in Tasks : SkipStale(t)
      PROVE  req' = req
  BY <1>3 DEF CreateVehicle, DeleteVehicle, CreatePoint, DeletePoint, Recovery, ListStale,
              RecoverTask, SkipStale, Tick, vars
<1> QED
  BY <1>1, <1>2, <1>3 DEF Next

LEMMA RequestWritesStep ==
    ASSUME IInv, TypeOK', [Next]_vars
    PROVE  \A r \in Requests : RequestWriteLegal(r)'
<1>1. Advance
  BY StepAdvances
<1>2. ASSUME NEW r \in Requests, req'[r] = req[r] PROVE RequestWriteLegal(r)'
  BY <1>1, <1>2, KeepRequestWrite DEF IInv, PendingWritesLegal
<1>3. CASE Crash
  BY <1>3 DEF Crash, NoRequest, RequestWriteLegal
<1>4. CASE ~Crash
  BY <1>2, <1>4, OthersUntouched, TaskCallLegal, VehicleCallLegal, PointCallLegal,
     ProceedLegal DEF IInv
<1> QED
  BY <1>3, <1>4

LEMMA RecoveryWritesStep ==
    ASSUME IInv, TypeOK', [Next]_vars
    PROVE  \A t \in recovery'.stale : RecoveryWriteLegal(t)'
<1>1. Advance
  BY StepAdvances
<1>2. ASSUME NEW t \in recovery.stale, recovery'.rows[t] = recovery.rows[t]
      PROVE  RecoveryWriteLegal(t)'
  BY <1>1, <1>2, KeepRecoveryWrite DEF IInv, PendingWritesLegal, Advance
<1>3. CASE ListStale
  <2>1. \A t \in recovery'.stale : /\ t \in Tasks /\ Stale(t)
                                   /\ recovery'.rows[t] = FailRow(tasks[t], "auto-recovery")
    BY <1>3 DEF ListStale
  <2> TAKE t \in recovery'.stale
  <2> DEFINE row == FailRow(tasks[t], "auto-recovery")
  <2>2. tasks' = tasks /\ clock' = clock /\ tasks[t].version \in Nat /\ tasks[t].live
    BY <1>3, <2>1 DEF ListStale, db, IInv, TypeOK, TaskRow, Stale, StaleRow
  <2>3. row.version = tasks[t].version
    <3>1. tasks[t] \in TaskRow
      BY <2>1 DEF IInv, TypeOK
    <3> QED
      BY <3>1 DEF FailRow, TaskRow
  <2>4. Atomic!Recovers(tasks[t], NextVersion(row))
    BY <2>1, SharedDomain DEF Atomic!Recovers, Stale
  <2> HIDE DEF row
  <2>5. recovery'.rows[t] = row
    BY <2>1 DEF row
  <2> QED
    BY <2>2, <2>3, <2>4, <2>5 DEF RecoveryWriteLegal, Atomic!Recovers
<1>4. ASSUME NEW u \in Tasks, RecoverTask(u) \/ SkipStale(u)
      PROVE  \A t \in recovery'.stale : RecoveryWriteLegal(t)'
  <2>1. /\ recovery'.stale = recovery.stale \ {u}
        /\ recovery'.rows = [recovery.rows EXCEPT ![u] = NoTask]
    BY <1>4 DEF RecoverTask, SkipStale, DropStale
  <2>2. \A t \in recovery'.stale : t \in recovery.stale
                                   /\ recovery'.rows[t] = recovery.rows[t]
    BY <2>1 DEF IInv, TypeOK
  <2> QED
    BY <1>2, <2>2
<1>5. CASE Crash
  BY <1>5 DEF Crash, NoRecovery
<1>6. CASE UNCHANGED recovery
  BY <1>2, <1>6
<1>7. ASSUME NEW r \in Requests, TaskCall(r) \/ VehicleCall(r) \/ PointCall(r)
      PROVE  UNCHANGED recovery
  BY <1>7, CallsOnlyHold DEF Called
<1>8. ASSUME NEW r \in Requests, Proceed(r) \/ Abandon(r)
      PROVE  UNCHANGED recovery
  BY <1>8 DEF Proceed, SaveTask, SaveCompleted, GetCollected, SaveCollected, GetTaskVehicle,
              InsertTask, SaveVehicle, SavePoint, Abandon
<1>9. ASSUME \/ \E v \in Vehicles : CreateVehicle(v) \/ DeleteVehicle(v)
             \/ \E p \in Points : CreatePoint(p) \/ DeletePoint(p)
             \/ Tick \/ UNCHANGED vars
      PROVE  UNCHANGED recovery
  BY <1>9 DEF CreateVehicle, DeleteVehicle, CreatePoint, DeletePoint, Tick, vars
<1> QED
  BY <1>3, <1>4, <1>5, <1>6, <1>7, <1>8, <1>9 DEF Next, Recovery

-----------------------------------------------------------------------------
(* Inserts never meet a row that exists. *)

Creates(q) == q.pc \in {"getVehicle", "insertTask"}

LEMMA FreshRowsStep ==
    ASSUME IInv, TypeOK', [Next]_vars
    PROVE  \A t \in Tasks : /\ Fresh(tasks'[t]) <=> ~tasks'[t].live
                            /\ Fresh(tasks'[t]) => tasks'[t] = NoTask
<1>1. \A t \in Tasks : /\ Fresh(tasks[t]) <=> ~tasks[t].live
                       /\ Fresh(tasks[t]) => tasks[t] = NoTask
  BY DEF IInv, InsertsFresh
<1>2. ASSUME NEW t \in Tasks, tasks'[t].live, tasks'[t].version > tasks[t].version
      PROVE  ~Fresh(tasks'[t])
  <2>1. tasks[t].version \in Nat /\ tasks'[t].version \in Nat
    BY DEF IInv, TypeOK, TaskRow
  <2> QED
    BY <1>2, <2>1 DEF Fresh
<1> QED
  BY <1>1, <1>2, StepAdvances DEF Advance, TasksAdvance

\* The task a call names exists, unless it is one to be created under an id
\* that no one else has drawn.
LEMMA CalledTask ==
    ASSUME TypeOK, NEW r \in Requests, TaskCall(r) \/ VehicleCall(r) \/ PointCall(r)
    PROVE  LET q == req'[r] IN
           \/ q.task = None /\ ~Creates(q)
           \/ q.task \in Tasks /\ tasks[q.task].live /\ ~Creates(q)
           \/ q.task \in Tasks /\ Fresh(tasks[q.task]) /\ ~Reserved(q.task)
<1>1. ASSUME NEW t \in Tasks, NEW op, NEW row, NEW pc \in {"saveTask", "saveCompleted"},
             HoldTask(r, op, t, row, pc)
      PROVE  req'[r].task = t /\ tasks[t].live /\ ~Creates(req'[r])
  BY <1>1 DEF HoldTask, Called, TypeOK, NoRequest, Creates
<1>2. ASSUME NEW t \in Tasks, NEW p \in Points, NEW v \in Vehicles, CreateTask(r, t, p, v)
      PROVE  req'[r].task = t /\ Fresh(tasks[t]) /\ ~Reserved(t)
  BY <1>2 DEF CreateTask, Called, TypeOK, NoRequest
<1>3. CASE TaskCall(r)
  BY <1>1, <1>2, <1>3 DEF TaskCall, StartTask, CompleteTask, FailTask, CancelTask
<1>4. ASSUME NEW v \in Vehicles, NEW op, NEW row, HoldVehicle(r, op, v, row)
      PROVE  req'[r].task = None /\ ~Creates(req'[r])
  BY <1>4 DEF HoldVehicle, Called, TypeOK, NoRequest, Creates
<1>5. CASE VehicleCall(r)
  BY <1>4, <1>5 DEF VehicleCall, AssignDriver, ReleaseVehicle, UpdateVehicleStatus
<1>6. CASE PointCall(r)
  <2>1. ASSUME NEW p \in Points, NEW op, NEW row, HoldPoint(r, op, p, row)
        PROVE  req'[r].task = None /\ ~Creates(req'[r])
    BY <2>1 DEF HoldPoint, Called, TypeOK, NoRequest, Creates
  <2> QED
    BY <1>6, <2>1 DEF PointCall, UpdateLoad, UpdatePointStatus
<1> QED
  BY <1>3, <1>5, <1>6

LEMMA ProceedingTask ==
    ASSUME TypeOK, NEW r \in Requests, Proceed(r) \/ Abandon(r)
    PROVE  \/ req'[r] = NoRequest
           \/ req'[r].task = req[r].task /\ (Creates(req'[r]) => Creates(req[r]))
<1>1. CASE Return(r)
  BY <1>1 DEF Return, TypeOK
<1>2. req[r] \in Request
  BY DEF TypeOK
<1>3. CASE SaveCompleted(r)
  <2>1. CASE req' = [req EXCEPT ![r].pc = "getCollected"]
    BY <1>2, <2>1 DEF TypeOK, Request, Creates
  <2> QED
    BY <1>1, <1>3, <2>1 DEF SaveCompleted
<1>4. CASE GetCollected(r)
  <2>1. CASE ~points[req[r].t.point].live
    BY <1>4, <2>1 DEF GetCollected, TypeOK
  <2>2. CASE points[req[r].t.point].live
    BY <1>2, <1>4, <2>2 DEF GetCollected, TypeOK, Request, Creates
  <2> QED
    BY <2>1, <2>2
<1>5. CASE GetTaskVehicle(r)
  <2>1. CASE req' = [req EXCEPT ![r].pc = "insertTask"]
    BY <1>2, <1>5, <2>1 DEF GetTaskVehicle, TypeOK, Request, Creates
  <2> QED
    BY <1>1, <1>5, <2>1 DEF GetTaskVehicle
<1> QED
  BY <1>1, <1>3, <1>4, <1>5 DEF Proceed, SaveTask, SaveCollected, InsertTask, SaveVehicle,
     SavePoint, Abandon

LEMMA ExclusiveIdsStep ==
    ASSUME IInv, TypeOK', [Next]_vars,
           NEW r \in Requests, Creates(req'[r]),
           NEW s \in Requests, req'[s].task = req'[r].task
    PROVE  s = r
<1>1. ASSUME NEW u \in Requests, NEW w \in Requests, Creates(req[u]),
             req[w].task = req[u].task
      PROVE  w = u
  BY <1>1 DEF IInv, InsertsFresh, Creates
<1>2. ASSUME NEW u \in Requests, Creates(req[u])
      PROVE  req[u].task \in Tasks /\ Fresh(tasks[req[u].task]) /\ ~tasks[req[u].task].live
  BY <1>2 DEF IInv, InsertsFresh, Creates, TypeOK, NamesRows
<1>3. ~Crash
  BY DEF Crash, Creates, NoRequest
<1>4. CASE req' = req
  BY <1>1, <1>4
<1>5. ASSUME NEW a \in Requests,
             TaskCall(a) \/ VehicleCall(a) \/ PointCall(a) \/ Proceed(a) \/ Abandon(a),
             \A x \in Requests \ {a} : req'[x] = req[x]
      PROVE  s = r
  <2>1. req'[r].task \in Tasks
    BY DEF TypeOK, NamesRows, Creates
  <2>2. NoRequest.task = None /\ ~Creates(NoRequest) /\ None \notin Tasks
    BY NoneAssumption DEF NoRequest, Creates
  <2>3. CASE TaskCall(a) \/ VehicleCall(a) \/ PointCall(a)
    <3>1. \/ req'[a].task = None /\ ~Creates(req'[a])
          \/ req'[a].task \in Tasks /\ tasks[req'[a].task].live /\ ~Creates(req'[a])
          \/ req'[a].task \in Tasks /\ ~Reserved(req'[a].task)
      BY <2>3, CalledTask DEF IInv
    <3>2. CASE r = a
      BY <1>5, <3>1, <3>2 DEF Reserved
    <3>3. CASE r # a
      BY <1>1, <1>2, <1>5, <2>1, <2>2, <3>1, <3>3 DEF Reserved
    <3> QED
      BY <3>2, <3>3
  <2>4. CASE Proceed(a) \/ Abandon(a)
    <3>1. \/ req'[a] = NoRequest
          \/ req'[a].task = req[a].task /\ (Creates(req'[a]) => Creates(req[a]))
      BY <2>4, ProceedingTask DEF IInv
    <3> QED
      BY <1>1, <1>5, <2>1, <2>2, <3>1
  <2> QED
    BY <1>5, <2>3, <2>4
<1> QED
  BY <1>3, <1>4, <1>5, OthersUntouched DEF IInv

LEMMA ReservedIdsStep ==
    ASSUME IInv, TypeOK', [Next]_vars, NEW r \in Requests, Creates(req'[r])
    PROVE  Fresh(tasks'[req'[r].task])
<1> DEFINE t == req'[r].task
<1>1. t \in Tasks
  BY DEF TypeOK, NamesRows, Creates
<1>2. \/ Creates(req[r]) /\ req[r].task = t
      \/ Fresh(tasks[t]) /\ ~Reserved(t)
  <2>1. ~Crash
    BY DEF Crash, Creates, NoRequest
  <2>2. CASE req'[r] = req[r]
    BY <2>2
  <2>3. CASE TaskCall(r) \/ VehicleCall(r) \/ PointCall(r)
    BY <1>1, <2>3, CalledTask, NoneAssumption DEF IInv
  <2>4. CASE Proceed(r) \/ Abandon(r)
    BY <2>4, ProceedingTask DEF IInv, NoRequest, Creates
  <2> QED
    BY <2>1, <2>2, <2>3, <2>4, OthersUntouched DEF IInv
<1>3. Fresh(tasks[t]) /\ ~tasks[t].live
  BY <1>1, <1>2 DEF IInv, InsertsFresh, Creates
<1>4. CASE UNCHANGED tasks
  BY <1>3, <1>4
<1>5. ASSUME NEW u \in Tasks, TaskChanged(u) PROVE Fresh(tasks'[t])
  BY <1>1, <1>3, <1>5 DEF TaskChanged, IInv, TypeOK
<1>6. ASSUME NEW a \in Requests, InsertTask(a) PROVE Fresh(tasks'[t])
  <2>1. Creates(req[a]) /\ req'[a] = NoRequest /\ req[a].task \in Tasks
    BY <1>6 DEF InsertTask, Return, Creates, IInv, TypeOK, NamesRows
  <2>2. a # r
    BY <2>1 DEF NoRequest, Creates
  <2>3. req[a].task # t
    <3>1. CASE Creates(req[r]) /\ req[r].task = t
      BY <2>1, <2>2, <3>1 DEF IInv, InsertsFresh, Creates
    <3>2. CASE ~Reserved(t)
      BY <3>2 DEF Reserved
    <3> QED
      BY <1>2, <3>1, <3>2
  <2>4. tasks'[t] = tasks[t]
    BY <1>1, <1>6, <2>1, <2>3 DEF InsertTask, IInv, TypeOK
  <2> QED
    BY <1>3, <2>4
<1> QED
  BY <1>4, <1>5, <1>6, TaskSources

LEMMA InvInit == Init => IInv
<1> SUFFICES ASSUME Init PROVE IInv
  OBVIOUS
<1>1. TypeOK
  BY TypeInit
<1>2. InsertsFresh
  BY DEF Init, InsertsFresh, Fresh, NoTask, NoRequest
<1>3. PendingWritesLegal
  BY DEF Init, PendingWritesLegal, RequestWriteLegal, NoRequest, NoRecovery
<1> QED
  BY <1>1, <1>2, <1>3 DEF IInv

LEMMA InvStep == IInv /\ [Next]_vars => IInv'
<1> SUFFICES ASSUME IInv, [Next]_vars PROVE IInv'
  OBVIOUS
<1>1. TypeOK'
  BY TypeStep DEF IInv
<1>2. InsertsFresh'
  <2>1. \A r \in Requests : req'[r].pc \in {"getVehicle", "insertTask"} =>
          /\ Fresh(tasks'[req'[r].task])
          /\ \A s \in Requests : req'[s].task = req'[r].task => s = r
    BY <1>1, ReservedIdsStep, ExclusiveIdsStep DEF Creates
  <2> QED
    BY <1>1, <2>1, FreshRowsStep DEF InsertsFresh, Fresh
<1>3. PendingWritesLegal'
  BY <1>1, RequestWritesStep, RecoveryWritesStep DEF PendingWritesLegal
<1> QED
  BY <1>1, <1>2, <1>3 DEF IInv

LEMMA InvHolds == Spec => []IInv
<1> QED
  BY InvInit, InvStep, PTL DEF Spec

\* Optimistic locking is sound: a write computed from a row that was read
\* before other requests ran lands only as a legal operation on the row as it
\* is stored (UpdateWithVersion of the task, vehicle and point repositories).
THEOREM WritesLegal == Spec => []PendingWritesLegal
<1>1. IInv => PendingWritesLegal
  BY DEF IInv
<1> QED
  BY <1>1, InvHolds, PTL

LEMMA EmptyTaskScheduled == NoTask.status = "scheduled"
<1> QED
  BY DEF NoTask

LEMMA OutcomeStep ==
    ASSUME IInv, [Next]_vars, NEW t \in Tasks,
           tasks[t].status \in {"completed", "failed", "cancelled"}
    PROVE  tasks'[t] = tasks[t]
<1>1. ASSUME NEW u \in Tasks, TaskChanged(u) PROVE tasks'[t] = tasks[t]
  <2>1. tasks[u].status \in {"scheduled", "in_progress"}
    BY <1>1, LegalTaskFacts DEF TaskChanged, IInv, TypeOK
  <2>2. u # t
    BY <2>1
  <2> QED
    BY <1>1, <2>2 DEF TaskChanged, IInv, TypeOK
<1>2. ASSUME NEW u \in Tasks, NEW p \in Points, NEW v \in Vehicles, TaskInserted(u, p, v)
      PROVE  tasks'[t] = tasks[t]
  <2>1. tasks[u] = NoTask
    BY <1>2 DEF TaskInserted, IInv, InsertsFresh
  <2>2. u # t
    BY <2>1, EmptyTaskScheduled
  <2> QED
    BY <1>2, <2>2 DEF TaskInserted, IInv, TypeOK
<1> QED
  BY <1>1, <1>2, TaskSteps

\* No write changes an outcome that is stored.
THEOREM OutcomesFinal == Spec => OutcomeFinal
<1>1. IInv /\ [Next]_vars => [\A t \in Tasks : OutcomeKept(t)]_vars
  BY OutcomeStep DEF OutcomeKept
<1> QED
  BY <1>1, InvHolds, PTL DEF Spec, OutcomeFinal

LEMMA RecoveryStep ==
    ASSUME IInv, [Next]_vars, NEW t \in Tasks,
           tasks'[t].reason = "auto-recovery", tasks[t].reason # "auto-recovery"
    PROVE  Stale(t)
<1>1. ASSUME NEW old \in TaskRow, NEW new, LegalTask(old, new),
             new.reason = "auto-recovery", old.reason # "auto-recovery"
      PROVE  StaleRow(old, clock - StaleAge)
  <2>1. CASE Atomic!Starts(old, new)
    <3>1. new = NextVersion(StartRow(old, new.startedAt))
      BY <2>1, SharedDomain DEF Atomic!Starts
    <3> QED
      BY <1>1, <3>1 DEF NextVersion, StartRow, TaskRow
  <2>2. CASE Atomic!Completes(old, new)
    <3>1. new = NextVersion(CompleteRow(old, new.kg))
      BY <2>2, SharedDomain DEF Atomic!Completes
    <3> QED
      BY <1>1, <3>1 DEF NextVersion, CompleteRow, TaskRow
  <2>3. CASE Atomic!Fails(old, new)
    <3>1. new = NextVersion(FailRow(old, "reported"))
      BY <2>3, SharedDomain DEF Atomic!Fails
    <3> QED
      BY <1>1, <3>1 DEF NextVersion, FailRow, TaskRow
  <2>4. CASE Atomic!Cancels(old, new)
    <3>1. new = NextVersion(CancelRow(old))
      BY <2>4, SharedDomain DEF Atomic!Cancels
    <3> QED
      BY <1>1, <3>1 DEF NextVersion, CancelRow, TaskRow
  <2>5. CASE Atomic!Recovers(old, new)
    BY <2>5, SharedDomain DEF Atomic!Recovers
  <2> QED
    BY <1>1, <2>1, <2>2, <2>3, <2>4, <2>5 DEF LegalTask
<1>2. tasks'[t] # tasks[t] /\ tasks[t] \in TaskRow
  BY DEF IInv, TypeOK
<1>3. ASSUME NEW u \in Tasks, TaskChanged(u) PROVE Stale(t)
  <2>1. u = t
    BY <1>2, <1>3 DEF TaskChanged, IInv, TypeOK
  <2>2. LegalTask(tasks[t], tasks'[t])
    BY <1>3, <2>1 DEF TaskChanged
  <2> QED
    BY <1>1, <1>2, <2>2 DEF Stale
<1>4. ASSUME NEW u \in Tasks, NEW p \in Points, NEW v \in Vehicles, TaskInserted(u, p, v)
      PROVE  FALSE
  <2>1. u = t
    BY <1>2, <1>4 DEF TaskInserted, IInv, TypeOK
  <2>2. tasks'[t] = InsertedTask(p, v)
    BY <1>4, <2>1 DEF TaskInserted, IInv, TypeOK
  <2>3. tasks'[t].reason = ""
    BY <2>2 DEF InsertedTask, NoTask
  <2> QED
    BY <2>3
<1> QED
  BY <1>2, <1>3, <1>4, TaskSteps

\* The worker only fails a task that is stale at that step, however old its
\* list is (RecoverStale writes the rows ListStaleInProgress returned).
THEOREM RecoveryOfStale == Spec => RecoversOnlyStale
<1>1. IInv /\ [Next]_vars =>
         [\A t \in Tasks :
             tasks'[t].reason = "auto-recovery" /\ tasks[t].reason # "auto-recovery"
                => Stale(t)]_vars
  BY RecoveryStep
<1> QED
  BY <1>1, InvHolds, PTL DEF Spec, RecoversOnlyStale

-----------------------------------------------------------------------------
(* References.  A row disappears only by a DELETE, which sees every task.  *)

LEMMA EmptyTaskAbsent == ~NoTask.live
  BY DEF NoTask

LEMMA PointsKept ==
    ASSUME IInv, [Next]_vars, NEW p \in Points, points[p].live
    PROVE  points'[p].live \/ DeletePoint(p)
<1>1. ASSUME NEW q \in Points, PointChanged(q) PROVE points'[p].live
  <2>1. points'[q].live = points[q].live
    BY <1>1, LegalPointFacts DEF PointChanged, IInv, TypeOK
  <2> QED
    BY <1>1, <2>1 DEF PointChanged, IInv, TypeOK
<1>2. ASSUME NEW q \in Points, CreatePoint(q) PROVE points'[p].live
  <2>1. points'[q] = InsertedPoint /\ \A o \in Points \ {q} : points'[o] = points[o]
    BY <1>2 DEF CreatePoint, IInv, TypeOK
  <2>2. InsertedPoint.live
    BY DEF InsertedPoint, NoPoint
  <2> QED
    BY <2>1, <2>2
<1>3. ASSUME NEW q \in Points, DeletePoint(q) PROVE points'[p].live \/ DeletePoint(p)
  BY <1>3 DEF DeletePoint, IInv, TypeOK
<1> QED
  BY <1>1, <1>2, <1>3, PointSteps

LEMMA VehiclesKept ==
    ASSUME IInv, [Next]_vars, NEW v \in Vehicles, vehicles[v].live
    PROVE  vehicles'[v].live \/ DeleteVehicle(v)
<1>1. ASSUME NEW q \in Vehicles, VehicleChanged(q) PROVE vehicles'[v].live
  <2>1. vehicles'[q].live = vehicles[q].live
    BY <1>1, LegalVehicleFacts DEF VehicleChanged, IInv, TypeOK
  <2> QED
    BY <1>1, <2>1 DEF VehicleChanged, IInv, TypeOK
<1>2. ASSUME NEW q \in Vehicles, CreateVehicle(q) PROVE vehicles'[v].live
  <2>1. /\ vehicles'[q] = InsertedVehicle
        /\ \A o \in Vehicles \ {q} : vehicles'[o] = vehicles[o]
    BY <1>2 DEF CreateVehicle, IInv, TypeOK
  <2>2. InsertedVehicle.live
    BY DEF InsertedVehicle, NoVehicle
  <2> QED
    BY <2>1, <2>2
<1>3. ASSUME NEW q \in Vehicles, DeleteVehicle(q) PROVE vehicles'[v].live \/ DeleteVehicle(v)
  BY <1>3 DEF DeleteVehicle, IInv, TypeOK
<1> QED
  BY <1>1, <1>2, <1>3, VehicleSteps

\* A live task was live with the same references, or was inserted just now.
LEMMA TaskReferences ==
    ASSUME IInv, [Next]_vars, NEW t \in Tasks, tasks'[t].live
    PROVE  \/ /\ tasks[t].live
              /\ tasks'[t].point = tasks[t].point /\ tasks'[t].vehicle = tasks[t].vehicle
           \/ /\ tasks'[t].point \in Points /\ points[tasks'[t].point].live
              /\ tasks'[t].vehicle \in Vehicles /\ vehicles[tasks'[t].vehicle].live
              /\ UNCHANGED <<vehicles, points>>
<1>1. CASE UNCHANGED tasks
  BY <1>1
<1>2. ASSUME NEW u \in Tasks, TaskChanged(u)
      PROVE  /\ tasks[t].live
             /\ tasks'[t].point = tasks[t].point /\ tasks'[t].vehicle = tasks[t].vehicle
  <2>1. /\ tasks[u].live
        /\ tasks'[u].point = tasks[u].point /\ tasks'[u].vehicle = tasks[u].vehicle
    BY <1>2, LegalTaskFacts DEF TaskChanged, IInv, TypeOK
  <2> QED
    BY <1>2, <2>1 DEF TaskChanged, IInv, TypeOK
<1>3. ASSUME NEW u \in Tasks, NEW p \in Points, NEW v \in Vehicles, TaskInserted(u, p, v)
      PROVE  \/ tasks'[t] = tasks[t]
             \/ /\ tasks'[t].point \in Points /\ points[tasks'[t].point].live
                /\ tasks'[t].vehicle \in Vehicles /\ vehicles[tasks'[t].vehicle].live
                /\ UNCHANGED <<vehicles, points>>
  <2>1. tasks'[u] = InsertedTask(p, v) /\ \A o \in Tasks \ {u} : tasks'[o] = tasks[o]
    BY <1>3 DEF TaskInserted, IInv, TypeOK
  <2>2. InsertedTask(p, v).point = p /\ InsertedTask(p, v).vehicle = v
    BY DEF InsertedTask, NoTask
  <2> QED
    BY <1>3, <2>1, <2>2 DEF TaskInserted
<1> QED
  BY <1>1, <1>2, <1>3, TaskSteps

LEMMA ReferencesStep ==
    ASSUME IInv, ReferencesLive, [Next]_vars
    PROVE  ReferencesLive'
<1> SUFFICES ASSUME NEW t \in Tasks, tasks'[t].live
             PROVE  /\ tasks'[t].point \in Points /\ points'[tasks'[t].point].live
                    /\ tasks'[t].vehicle \in Vehicles /\ vehicles'[tasks'[t].vehicle].live
  BY DEF ReferencesLive
<1>1. CASE UNCHANGED <<vehicles, points>>
  BY <1>1, TaskReferences DEF ReferencesLive
<1>2. CASE tasks[t].live /\ tasks'[t].point = tasks[t].point
                         /\ tasks'[t].vehicle = tasks[t].vehicle
  <2>1. /\ tasks[t].point \in Points /\ points[tasks[t].point].live
        /\ tasks[t].vehicle \in Vehicles /\ vehicles[tasks[t].vehicle].live
    BY <1>2 DEF ReferencesLive
  <2>2. ~DeletePoint(tasks[t].point) /\ ~DeleteVehicle(tasks[t].vehicle)
    BY <1>2 DEF DeletePoint, DeleteVehicle
  <2> QED
    BY <1>2, <2>1, <2>2, PointsKept, VehiclesKept
<1> QED
  BY <1>1, <1>2, TaskReferences

LEMMA ReferencesInit == Init => ReferencesLive
  BY EmptyTaskAbsent DEF Init, ReferencesLive

\* A task never outlives its point or its vehicle: the foreign keys of
\* collection_tasks against DeletePoint and DeleteVehicle.
THEOREM NoDanglingTask == Spec => []ReferencesLive
  BY ReferencesInit, ReferencesStep, InvHolds, PTL DEF Spec

-----------------------------------------------------------------------------
(***************************************************************************)
(* Collections.  A completion is stored only over a task in progress, and  *)
(* every request that collects works for a completed task, so no second    *)
(* one can join it.                                                        *)
(***************************************************************************)
CInv == CollectedOnce /\ CollectionMatchesTask

\* The next statement of a request that was called.
LEMMA CallStatements ==
    ASSUME TypeOK, NEW r \in Requests
    PROVE  /\ TaskCall(r) => req'[r].pc \in {"saveTask", "saveCompleted", "getVehicle"}
           /\ VehicleCall(r) => req'[r].pc = "saveVehicle"
           /\ PointCall(r) => req'[r].pc = "savePoint"
<1>1. ASSUME NEW t \in Tasks, NEW op, NEW row, NEW pc \in {"saveTask", "saveCompleted"},
             HoldTask(r, op, t, row, pc)
      PROVE  req'[r].pc \in {"saveTask", "saveCompleted"}
  BY <1>1 DEF HoldTask, Called, TypeOK, NoRequest
<1>2. ASSUME NEW t \in Tasks, NEW p \in Points, NEW v \in Vehicles, CreateTask(r, t, p, v)
      PROVE  req'[r].pc = "getVehicle"
  BY <1>2 DEF CreateTask, Called, TypeOK, NoRequest
<1>3. ASSUME NEW v \in Vehicles, NEW op, NEW row, HoldVehicle(r, op, v, row)
      PROVE  req'[r].pc = "saveVehicle"
  BY <1>3 DEF HoldVehicle, Called, TypeOK, NoRequest
<1>4. ASSUME NEW p \in Points, NEW op, NEW row, HoldPoint(r, op, p, row)
      PROVE  req'[r].pc = "savePoint"
  BY <1>4 DEF HoldPoint, Called, TypeOK, NoRequest
<1>5. ASSUME TaskCall(r)
      PROVE  req'[r].pc \in {"saveTask", "saveCompleted", "getVehicle"}
  BY <1>1, <1>2, <1>5 DEF TaskCall, StartTask, CompleteTask, FailTask, CancelTask
<1>6. ASSUME VehicleCall(r) PROVE req'[r].pc = "saveVehicle"
  BY <1>3, <1>6 DEF VehicleCall, AssignDriver, ReleaseVehicle, UpdateVehicleStatus
<1>7. ASSUME PointCall(r) PROVE req'[r].pc = "savePoint"
  BY <1>4, <1>7 DEF PointCall, UpdateLoad, UpdatePointStatus
<1> QED
  BY <1>5, <1>6, <1>7

LEMMA CalledStatement ==
    ASSUME TypeOK, NEW r \in Requests, TaskCall(r) \/ VehicleCall(r) \/ PointCall(r)
    PROVE  req'[r].pc \in {"saveTask", "saveCompleted", "getVehicle", "saveVehicle", "savePoint"}
  BY CallStatements

\* What the second step of a collection holds.
HoldsCollection(r) ==
    LET p == req[r].t.point IN
    /\ req'[r].pc = "saveCollected" /\ req'[r].point = p
    /\ req'[r].p = CollectRow(points[p], req[r].t.kg, Capacity[p])
    /\ UNCHANGED <<tasks, points>>

LEMMA CollectorSources ==
    ASSUME IInv, [Next]_vars, NEW r \in Requests,
           req'[r].pc \in {"getCollected", "saveCollected"}
    PROVE  /\ req'[r].task = req[r].task /\ req'[r].t = req[r].t
           /\ \/ req'[r] = req[r]
              \/ SaveCompleted(r) /\ req'[r].pc = "getCollected"
              \/ Collects(r) /\ HoldsCollection(r)
<1>1. req[r] \in Request /\ req'[r] # NoRequest
  BY DEF IInv, TypeOK, NoRequest
<1>2. ~Crash
  BY DEF Crash, NoRequest
<1>3. CASE req'[r] = req[r]
  BY <1>3
<1>4. CASE TaskCall(r) \/ VehicleCall(r) \/ PointCall(r)
  <2>1. req'[r].pc \in {"saveTask", "saveCompleted", "getVehicle", "saveVehicle", "savePoint"}
    BY <1>4, CalledStatement DEF IInv
  <2> QED
    BY <2>1
<1>5. CASE Proceed(r) \/ Abandon(r)
  <2>1. ~Return(r)
    BY <1>1 DEF Return, IInv, TypeOK
  <2>2. CASE SaveCompleted(r)
    <3>1. req' = [req EXCEPT ![r].pc = "getCollected"]
      BY <2>1, <2>2 DEF SaveCompleted
    <3> QED
      BY <1>1, <2>2, <3>1 DEF IInv, TypeOK, Request
  <2>3. CASE GetCollected(r)
    <3> DEFINE p == req[r].t.point
    <3>1. req'[r] = [req[r] EXCEPT !.pc = "saveCollected", !.point = p,
                        !.p = CollectRow(points[p], req[r].t.kg, Capacity[p])]
      BY <1>1, <2>3 DEF GetCollected, IInv, TypeOK
    <3>2. Collects(r) /\ UNCHANGED <<tasks, points>>
      BY <2>3 DEF GetCollected, Collects, db
    <3> QED
      BY <1>1, <3>1, <3>2 DEF Request, HoldsCollection
  <2>4. CASE GetTaskVehicle(r)
    <3>1. req' = [req EXCEPT ![r].pc = "insertTask"]
      BY <2>1, <2>4 DEF GetTaskVehicle
    <3>2. req'[r].pc = "insertTask"
      BY <1>1, <3>1 DEF IInv, TypeOK, Request
    <3> QED
      BY <3>2
  <2> QED
    BY <1>5, <2>1, <2>2, <2>3, <2>4 DEF Proceed, SaveTask, SaveCollected, InsertTask,
       SaveVehicle, SavePoint, Abandon
<1> QED
  BY <1>2, <1>3, <1>4, <1>5, OthersUntouched DEF IInv

\* The completion that lets a request collect: the task was in progress.
LEMMA StoredCompletion ==
    ASSUME IInv, NEW r \in Requests, SaveCompleted(r), req'[r].pc = "getCollected"
    PROVE  LET t == req[r].task IN
           /\ t \in Tasks
           /\ tasks[t].status = "in_progress"
           /\ tasks'[t] = NextVersion(req[r].t) /\ tasks'[t].status = "completed"
<1> DEFINE t == req[r].task
<1>1. t \in Tasks /\ req[r].t \in TaskRow /\ tasks[t] \in TaskRow
  BY DEF IInv, TypeOK, NamesRows, Request, SaveCompleted
<1>2. SameVersion(tasks[t], req[r].t) /\ tasks' = [tasks EXCEPT ![t] = NextVersion(req[r].t)]
  BY DEF SaveCompleted, Return, NoRequest, IInv, TypeOK
<1>3. Atomic!Completes(tasks[t], NextVersion(req[r].t))
  BY <1>2 DEF IInv, PendingWritesLegal, RequestWriteLegal, TaskWriteLegal, SaveCompleted,
              SameVersion
<1>4. /\ TaskCanTransitionTo(tasks[t].status, "completed")
      /\ NextVersion(req[r].t)
            = NextVersion(CompleteRow(tasks[t], NextVersion(req[r].t).kg))
  BY <1>3, SharedDomain DEF Atomic!Completes
<1>5. tasks[t].status = "in_progress"
  BY <1>4 DEF TaskCanTransitionTo, TaskTransitions
<1>6. \A kg : NextVersion(CompleteRow(tasks[t], kg)).status = "completed"
  BY <1>1 DEF NextVersion, CompleteRow, TaskRow
<1>7. tasks'[t] = NextVersion(req[r].t)
  BY <1>1, <1>2 DEF IInv, TypeOK
<1> QED
  BY <1>1, <1>4, <1>5, <1>6, <1>7

LEMMA CollectingTask ==
    ASSUME IInv, CInv, NEW r \in Requests, Collects(r)
    PROVE  LET t == req[r].task IN
           /\ t \in Tasks /\ tasks[t].status = "completed"
           /\ tasks[t] = NextVersion(req[r].t)
  BY DEF CInv, CollectionMatchesTask, Collects, IInv, TypeOK, NamesRows

LEMMA CollectedOnceStep ==
    ASSUME IInv, CInv, [Next]_vars
    PROVE  CollectedOnce'
<1> SUFFICES ASSUME NEW a \in Requests, NEW b \in Requests,
                    req'[a].pc \in {"getCollected", "saveCollected"},
                    req'[b].pc \in {"getCollected", "saveCollected"},
                    req'[a].task = req'[b].task, a # b
             PROVE  FALSE
  BY DEF CollectedOnce, Collects
<1>1. req[a].task = req[b].task
  BY CollectorSources
<1>2. ASSUME NEW x \in Requests, NEW y \in Requests, x # y, SaveCompleted(x),
             req'[x].pc = "getCollected", Collects(y), req[x].task = req[y].task
      PROVE  FALSE
  BY <1>2, StoredCompletion, CollectingTask
<1>3. ASSUME NEW x \in Requests, NEW y \in Requests, x # y, SaveCompleted(x)
      PROVE  req'[y] = req[y]
  BY <1>3 DEF SaveCompleted, Return, IInv, TypeOK
<1>4. ASSUME NEW x \in Requests, req'[x] = req[x],
             req'[x].pc \in {"getCollected", "saveCollected"}
      PROVE  Collects(x)
  BY <1>4 DEF Collects
<1>5. CASE Collects(a) /\ Collects(b)
  BY <1>1, <1>5 DEF CInv, CollectedOnce
<1> QED
  BY <1>1, <1>2, <1>3, <1>4, <1>5, CollectorSources

LEMMA CompletionKept ==
    ASSUME IInv, [Next]_vars, NEW t \in Tasks, tasks[t].status = "completed"
    PROVE  tasks'[t] = tasks[t]
  BY OutcomeStep

LEMMA CollectionMatchesStep ==
    ASSUME IInv, IInv', CInv, [Next]_vars
    PROVE  CollectionMatchesTask'
<1> SUFFICES ASSUME NEW r \in Requests, req'[r].pc \in {"getCollected", "saveCollected"}
             PROVE  LET t == req'[r].task IN
                    /\ tasks'[t] = NextVersion(req'[r].t)
                    /\ tasks'[t].status = "completed"
                    /\ req'[r].pc = "saveCollected" =>
                          /\ req'[r].point = tasks'[t].point
                          /\ SameVersion(points'[req'[r].point], req'[r].p) =>
                                req'[r].p = CollectRow(points'[req'[r].point], tasks'[t].kg,
                                                       Capacity[req'[r].point])
  BY DEF CollectionMatchesTask, Collects
<1> DEFINE t == req'[r].task
<1>1. req'[r].task = req[r].task /\ req'[r].t = req[r].t
  BY CollectorSources
<1>2. CASE SaveCompleted(r) /\ req'[r].pc = "getCollected"
  BY <1>1, <1>2, StoredCompletion
<1>3. ASSUME Collects(r)
      PROVE  /\ tasks'[t] = tasks[t] /\ tasks'[t] = NextVersion(req'[r].t)
             /\ tasks'[t].status = "completed"
  BY <1>1, <1>3, CollectingTask, CompletionKept
<1>4. CASE req'[r] = req[r]
  <2>1. Collects(r)
    BY <1>4 DEF Collects
  <2>2. ASSUME req'[r].pc = "saveCollected"
        PROVE  /\ req'[r].point = tasks'[t].point
               /\ SameVersion(points'[req'[r].point], req'[r].p) =>
                     req'[r].p = CollectRow(points'[req'[r].point], tasks'[t].kg,
                                            Capacity[req'[r].point])
    <3> DEFINE p == req[r].point
    <3>1. req[r].pc = "saveCollected" /\ req'[r].point = p /\ req'[r].p = req[r].p
      BY <1>4, <2>2
    <3>2. /\ p = tasks'[t].point
          /\ SameVersion(points[p], req[r].p) =>
                req[r].p = CollectRow(points[p], tasks'[t].kg, Capacity[p])
      BY <1>1, <1>3, <2>1, <3>1 DEF CInv, CollectionMatchesTask
    <3>3. SameVersion(points'[p], req[r].p) => points'[p] = points[p]
      <4>1. p \in Points /\ req[r].p \in PointRow
        BY <3>1 DEF IInv, TypeOK, NamesRows, Request
      <4>2. points[p].version \in Nat /\ points'[p].version \in Nat /\ req[r].p.version \in Nat
        BY <4>1 DEF IInv, TypeOK, PointRow
      <4>3. req[r].p.version <= points[p].version
        BY <3>1 DEF IInv, PendingWritesLegal, RequestWriteLegal, PointWriteLegal
      <4>4. PointsAdvance
        BY StepAdvances DEF Advance, IInv
      <4> QED
        BY <4>1, <4>2, <4>3, <4>4 DEF PointsAdvance, SameVersion
    <3> QED
      BY <3>1, <3>2, <3>3
  <2> QED
    BY <1>3, <2>1, <2>2
<1>5. CASE Collects(r) /\ HoldsCollection(r)
  <2>1. tasks[t].kg = req[r].t.kg /\ tasks[t].point = req[r].t.point
    <3>1. req[r].t \in TaskRow
      BY DEF IInv, TypeOK, Request
    <3>2. tasks[t] = NextVersion(req[r].t)
      BY <1>1, <1>5, CollectingTask
    <3> QED
      BY <3>1, <3>2 DEF NextVersion, TaskRow
  <2> QED
    BY <1>1, <1>3, <1>5, <2>1 DEF HoldsCollection
<1> QED
  BY <1>2, <1>4, <1>5, CollectorSources

LEMMA CollectionsHold == Spec => []CInv
<1>1. Init => CInv
  BY DEF Init, CInv, CollectedOnce, CollectionMatchesTask, Collects, NoRequest
<1>2. IInv /\ IInv' /\ CInv /\ [Next]_vars => CInv'
  BY CollectedOnceStep, CollectionMatchesStep DEF CInv
<1> QED
  BY <1>1, <1>2, InvHolds, PTL DEF Spec

\* No two requests subtract the collection of one task, however calls of
\* CompleteTask for it race.
THEOREM NoDoubleCollection == Spec => []CollectedOnce
<1>1. CInv => CollectedOnce
  BY DEF CInv
<1> QED
  BY <1>1, CollectionsHold, PTL

\* What CompleteTask subtracts from the point is what the task row says.
THEOREM CollectionsMatch == Spec => []CollectionMatchesTask
<1>1. CInv => CollectionMatchesTask
  BY DEF CInv
<1> QED
  BY <1>1, CollectionsHold, PTL

-----------------------------------------------------------------------------
(***************************************************************************)
(* Refinement.  A call and a refused write are stuttering steps, a write   *)
(* that lands is the atomic operation, and a request that stops between    *)
(* the two writes of a completion loses its collection.                    *)
(***************************************************************************)
LEMMA SharedRows ==
    /\ Atomic!NoTask = NoTask /\ Atomic!NoVehicle = NoVehicle /\ Atomic!NoPoint = NoPoint
    /\ Atomic!InsertedVehicle = InsertedVehicle /\ Atomic!InsertedPoint = InsertedPoint
    /\ \A p, v : Atomic!InsertedTask(p, v) = InsertedTask(p, v)
  BY DEF Atomic!NoTask, NoTask, Atomic!NoVehicle, NoVehicle, Atomic!NoPoint, NoPoint,
         Atomic!NotStarted, NotStarted, Atomic!InsertedVehicle, InsertedVehicle,
         Atomic!InsertedPoint, InsertedPoint, Atomic!InsertedTask, InsertedTask

\* No request starts or stops collecting.
Quiet == \A r \in Requests :
             /\ Collects(r)' <=> Collects(r)
             /\ Collects(r) => req'[r].task = req[r].task

LEMMA QuietStutters == Quiet => Collecting' = Collecting
  BY DEF Quiet, Collecting

LEMMA SameRequestsQuiet == UNCHANGED req => Quiet
  BY DEF Quiet, Collects

LEMMA CallQuiet ==
    ASSUME TypeOK, NEW r \in Requests, TaskCall(r) \/ VehicleCall(r) \/ PointCall(r)
    PROVE  Quiet /\ UNCHANGED <<tasks, vehicles, points, clock>>
<1>1. /\ req[r].pc = "idle" /\ UNCHANGED <<tasks, vehicles, points, clock>>
      /\ \A s \in Requests \ {r} : req'[s] = req[s]
  BY CallsOnlyHold DEF Called, db, TypeOK
<1>2. req'[r].pc \in {"saveTask", "saveCompleted", "getVehicle", "saveVehicle", "savePoint"}
  BY CalledStatement
<1>3. ~Collects(r) /\ ~Collects(r)'
  BY <1>1, <1>2 DEF Collects
<1>4. \A s \in Requests \ {r} : (Collects(s)' <=> Collects(s)) /\ req'[s].task = req[s].task
  BY <1>1 DEF Collects
<1> QED
  BY <1>1, <1>3, <1>4 DEF Quiet

LEMMA ReturnLoses ==
    ASSUME TypeOK, NEW r \in Requests, Return(r)
    PROVE  /\ Collecting' \subseteq Collecting
           /\ ~Collects(r) => Quiet
<1>1. req'[r] = NoRequest /\ \A s \in Requests \ {r} : req'[s] = req[s]
  BY DEF Return, TypeOK
<1>2. ~Collects(r)'
  BY <1>1 DEF Collects, NoRequest
<1>3. \A s \in Requests \ {r} : (Collects(s)' <=> Collects(s)) /\ req'[s].task = req[s].task
  BY <1>1 DEF Collects
<1>4. Collecting' \subseteq Collecting
  BY <1>2, <1>3 DEF Collecting
<1>5. ~Collects(r) => Quiet
  BY <1>2, <1>3 DEF Quiet
<1> QED
  BY <1>4, <1>5

\* Each write of a request, seen from above.
LEMMA AtomicSaveTask ==
    ASSUME IInv, NEW r \in Requests, SaveTask(r)
    PROVE  [Atomic!Next]_(Atomic!vars)
<1>1. Collecting' = Collecting /\ UNCHANGED <<vehicles, points, clock>>
  BY ReturnLoses, QuietStutters DEF SaveTask, Collects, IInv
<1>2. CASE UNCHANGED tasks
  BY <1>1, <1>2 DEF Atomic!vars
<1>3. ASSUME NEW t \in Tasks, tasks[t].live,
             \/ Atomic!Starts(tasks[t], tasks'[t])
             \/ Atomic!Fails(tasks[t], tasks'[t])
             \/ Atomic!Cancels(tasks[t], tasks'[t]),
             tasks' = [tasks EXCEPT ![t] = tasks'[t]]
      PROVE  Atomic!Next
  <2>1. Atomic!ChangeTask(t)
    BY <1>1, <1>3 DEF Atomic!ChangeTask, Atomic!OnlyRow
  <2> QED
    BY <2>1 DEF Atomic!Next
<1> DEFINE t == req[r].task
           new == NextVersion(req[r].t)
<1>4. CASE SameVersion(tasks[t], req[r].t)
  <2>1. t \in Tasks /\ tasks' = [tasks EXCEPT ![t] = new]
    BY <1>4 DEF SaveTask, IInv, TypeOK, NamesRows
  <2>2. tasks'[t] = new
    BY <2>1 DEF IInv, TypeOK
  <2>3. /\ tasks[t].live
        /\ \/ Atomic!Starts(tasks[t], new)
           \/ Atomic!Fails(tasks[t], new)
           \/ Atomic!Cancels(tasks[t], new)
    BY <1>4 DEF IInv, PendingWritesLegal, RequestWriteLegal, TaskWriteLegal, SaveTask,
                SameVersion
  <2> QED
    BY <1>3, <2>1, <2>2, <2>3
<1> QED
  BY <1>2, <1>4 DEF SaveTask

LEMMA AtomicSaveCompleted ==
    ASSUME IInv, NEW r \in Requests, SaveCompleted(r)
    PROVE  [Atomic!Next]_(Atomic!vars)
<1> DEFINE t == req[r].task
           new == NextVersion(req[r].t)
<1>1. UNCHANGED <<vehicles, points, clock>>
  BY DEF SaveCompleted
<1>2. CASE SameVersion(tasks[t], req[r].t)
  <2>1. /\ t \in Tasks /\ tasks' = [tasks EXCEPT ![t] = new]
        /\ req' = [req EXCEPT ![r].pc = "getCollected"]
    BY <1>2 DEF SaveCompleted, IInv, TypeOK, NamesRows
  <2>2. tasks'[t] = new
    BY <2>1 DEF IInv, TypeOK
  <2>3. tasks[t].live /\ Atomic!Completes(tasks[t], new)
    BY <1>2 DEF IInv, PendingWritesLegal, RequestWriteLegal, TaskWriteLegal, SaveCompleted,
                SameVersion
  <2>4. Collecting' = Collecting \cup {t}
    <3>1. /\ req'[r].pc = "getCollected" /\ req'[r].task = t
          /\ \A s \in Requests \ {r} : req'[s] = req[s]
      BY <2>1 DEF IInv, TypeOK, Request
    <3>2. ~Collects(r) /\ Collects(r)'
      BY <3>1 DEF SaveCompleted, Collects
    <3>3. \A s \in Requests \ {r} : (Collects(s)' <=> Collects(s)) /\ req'[s].task = req[s].task
      BY <3>1 DEF Collects
    <3> QED
      BY <2>1, <3>1, <3>2, <3>3 DEF Collecting
  <2>5. Atomic!CompleteTask(t)
    BY <1>1, <2>1, <2>2, <2>3, <2>4 DEF Atomic!CompleteTask, Atomic!OnlyRow
  <2> QED
    BY <2>1, <2>5 DEF Atomic!Next
<1>3. CASE ~SameVersion(tasks[t], req[r].t)
  <2>1. Collecting' = Collecting /\ UNCHANGED tasks
    BY <1>3, ReturnLoses, QuietStutters DEF SaveCompleted, Collects, IInv
  <2> QED
    BY <1>1, <2>1 DEF Atomic!vars
<1> QED
  BY <1>2, <1>3

LEMMA LoseStep ==
    ASSUME Collecting' \subseteq Collecting, UNCHANGED <<tasks, vehicles, points, clock>>
    PROVE  Atomic!Next
<1>1. Atomic!LoseCollections
  BY DEF Atomic!LoseCollections
<1> QED
  BY <1>1 DEF Atomic!Next

LEMMA AtomicGetCollected ==
    ASSUME IInv, NEW r \in Requests, GetCollected(r)
    PROVE  [Atomic!Next]_(Atomic!vars)
<1>1. UNCHANGED <<tasks, vehicles, points, clock>>
  BY DEF GetCollected, db
<1>2. /\ req'[r] = NoRequest \/ (Collects(r) /\ req'[r].task = req[r].task)
      /\ \A s \in Requests \ {r} : req'[s] = req[s]
  <2>1. Collects(r) /\ req[r] \in Request
    BY DEF GetCollected, Collects, IInv, TypeOK
  <2>2. CASE points[req[r].t.point].live
    BY <2>1, <2>2 DEF GetCollected, IInv, TypeOK, Request
  <2>3. CASE ~points[req[r].t.point].live
    BY <2>3 DEF GetCollected, IInv, TypeOK
  <2> QED
    BY <2>2, <2>3
<1>3. \A s \in Requests : Collects(s)' => Collects(s) /\ req'[s].task = req[s].task
  BY <1>2 DEF Collects, NoRequest
<1>4. Collecting' \subseteq Collecting
  BY <1>3 DEF Collecting
<1> QED
  BY <1>1, <1>4, LoseStep

LEMMA AtomicSaveCollected ==
    ASSUME IInv, CInv, NEW r \in Requests, SaveCollected(r)
    PROVE  [Atomic!Next]_(Atomic!vars)
<1> DEFINE t == req[r].task
           p == req[r].point
<1>1. /\ UNCHANGED <<tasks, vehicles, clock>> /\ Return(r) /\ Collects(r)
      /\ req[r].pc = "saveCollected"
  BY DEF SaveCollected, Collects
<1>2. CASE CanSavePoint(r)
  <2>1. t \in Tasks /\ p = tasks[t].point /\ p \in Points
    BY <1>1 DEF CInv, CollectionMatchesTask, IInv, TypeOK, NamesRows
  <2>2. req[r].p = CollectRow(points[p], tasks[t].kg, Capacity[p])
    BY <1>1, <1>2 DEF CInv, CollectionMatchesTask, CanSavePoint
  <2>3. points' = [points EXCEPT ![p] = NextVersion(req[r].p)]
    BY <1>2 DEF SaveCollected, WritePoint
  <2>4. points[p].live
    BY <1>2 DEF CanSavePoint, SameVersion
  <2>5. Collecting' = Collecting \ {t}
    <3>1. req'[r] = NoRequest /\ \A s \in Requests \ {r} : req'[s] = req[s]
      BY <1>1 DEF Return, IInv, TypeOK
    <3>2. ~Collects(r)'
      BY <3>1 DEF Collects, NoRequest
    <3>3. \A s \in Requests \ {r} :
             (Collects(s)' <=> Collects(s)) /\ req'[s].task = req[s].task
      BY <3>1 DEF Collects
    <3>4. \A s \in Requests \ {r} : Collects(s) => req[s].task # t
      BY <1>1 DEF CInv, CollectedOnce
    <3> QED
      BY <1>1, <3>2, <3>3, <3>4 DEF Collecting
  <2>6. t \in Collecting
    BY <1>1, <2>1 DEF Collecting
  <2>7. points' = [points EXCEPT ![p] =
                      Atomic!NextVersion(Atomic!CollectRow(@, tasks[t].kg, Capacity[p]))]
    BY <2>2, <2>3, SharedDomain
  <2>8. Atomic!CollectLoad(t)
    BY <1>1, <2>1, <2>4, <2>5, <2>6, <2>7 DEF Atomic!CollectLoad
  <2> QED
    BY <2>1, <2>8 DEF Atomic!Next
<1>3. CASE ~CanSavePoint(r)
  <2>1. UNCHANGED points
    BY <1>3 DEF SaveCollected, WritePoint
  <2> QED
    BY <1>1, <2>1, ReturnLoses, LoseStep DEF IInv
<1> QED
  BY <1>2, <1>3

LEMMA AtomicInsertTask ==
    ASSUME IInv, NEW r \in Requests, InsertTask(r)
    PROVE  [Atomic!Next]_(Atomic!vars)
<1>1. Collecting' = Collecting /\ UNCHANGED <<vehicles, points, clock>>
  BY ReturnLoses, QuietStutters DEF InsertTask, Collects, IInv
<1>2. CASE UNCHANGED tasks
  BY <1>1, <1>2 DEF Atomic!vars
<1>3. ASSUME NEW t \in Tasks, NEW p \in Points, NEW v \in Vehicles, TaskInserted(t, p, v)
      PROVE  Atomic!Next
  <2>1. Atomic!CreateTask(t, p, v)
    BY <1>1, <1>3, SharedDomain, SharedRows DEF TaskInserted, Atomic!CreateTask
  <2> QED
    BY <2>1 DEF Atomic!Next
<1> QED
  BY <1>2, <1>3, InsertedFresh

LEMMA AtomicSaveVehicle ==
    ASSUME IInv, NEW r \in Requests, SaveVehicle(r)
    PROVE  [Atomic!Next]_(Atomic!vars)
<1>1. Collecting' = Collecting /\ UNCHANGED <<tasks, points, clock>>
  BY ReturnLoses, QuietStutters DEF SaveVehicle, Collects, IInv
<1>2. CASE UNCHANGED vehicles
  BY <1>1, <1>2 DEF Atomic!vars
<1>3. ASSUME NEW v \in Vehicles, VehicleChanged(v) PROVE Atomic!Next
  <2>1. Atomic!ChangeVehicle(v)
    BY <1>1, <1>3 DEF VehicleChanged, Atomic!ChangeVehicle, Atomic!OnlyRow
  <2> QED
    BY <2>1 DEF Atomic!Next
<1> QED
  BY <1>2, <1>3, SavedVehicle

LEMMA AtomicSavePoint ==
    ASSUME IInv, NEW r \in Requests, SavePoint(r)
    PROVE  [Atomic!Next]_(Atomic!vars)
<1>1. Collecting' = Collecting /\ UNCHANGED <<tasks, vehicles, clock>>
  BY ReturnLoses, QuietStutters DEF SavePoint, Collects, IInv
<1>2. CASE UNCHANGED points
  BY <1>1, <1>2 DEF Atomic!vars
<1>3. ASSUME NEW p \in Points, PointChanged(p) PROVE Atomic!Next
  <2>1. Atomic!ChangePoint(p)
    BY <1>1, <1>3 DEF PointChanged, Atomic!ChangePoint, Atomic!OnlyRow
  <2> QED
    BY <2>1 DEF Atomic!Next
<1> QED
  BY <1>2, <1>3, SavedPoint

LEMMA AtomicGetTaskVehicle ==
    ASSUME IInv, NEW r \in Requests, GetTaskVehicle(r)
    PROVE  UNCHANGED Atomic!vars
<1>1. UNCHANGED <<tasks, vehicles, points, clock>> /\ ~Collects(r)
  BY DEF GetTaskVehicle, Collects, db
<1>2. CASE Return(r)
  BY <1>1, <1>2, ReturnLoses, QuietStutters DEF IInv, Atomic!vars
<1>3. CASE req' = [req EXCEPT ![r].pc = "insertTask"]
  <2>1. req'[r].pc = "insertTask" /\ \A s \in Requests \ {r} : req'[s] = req[s]
    BY <1>3 DEF IInv, TypeOK, Request
  <2>2. ~Collects(r)'
    BY <2>1 DEF Collects
  <2>3. \A s \in Requests \ {r} : (Collects(s)' <=> Collects(s)) /\ req'[s].task = req[s].task
    BY <2>1 DEF Collects
  <2>4. Quiet
    BY <1>1, <2>2, <2>3 DEF Quiet
  <2> QED
    BY <1>1, <2>4, QuietStutters DEF Atomic!vars
<1> QED
  BY <1>2, <1>3 DEF GetTaskVehicle

\* The steps that are no request's.
LEMMA AtomicRecovery ==
    ASSUME IInv, NEW t \in Tasks, RecoverTask(t)
    PROVE  [Atomic!Next]_(Atomic!vars)
<1>1. Collecting' = Collecting /\ UNCHANGED <<vehicles, points, clock>>
  BY SameRequestsQuiet, QuietStutters DEF RecoverTask
<1> DEFINE new == NextVersion(recovery.rows[t])
<1>2. CASE SameVersion(tasks[t], recovery.rows[t])
  <2>1. tasks' = [tasks EXCEPT ![t] = new]
    BY <1>2 DEF RecoverTask
  <2>2. tasks'[t] = new
    BY <2>1 DEF IInv, TypeOK
  <2>3. tasks[t].live /\ Atomic!Recovers(tasks[t], new)
    BY <1>2 DEF IInv, PendingWritesLegal, RecoveryWriteLegal, RecoverTask, NextStale,
                SameVersion
  <2>4. Atomic!ChangeTask(t)
    BY <1>1, <2>1, <2>2, <2>3 DEF Atomic!ChangeTask, Atomic!OnlyRow
  <2> QED
    BY <2>4 DEF Atomic!Next
<1>3. CASE ~SameVersion(tasks[t], recovery.rows[t])
  BY <1>1, <1>3 DEF RecoverTask, Atomic!vars
<1> QED
  BY <1>2, <1>3

LEMMA AtomicTables ==
    ASSUME IInv, \/ \E v \in Vehicles : CreateVehicle(v) \/ DeleteVehicle(v)
                 \/ \E p \in Points : CreatePoint(p) \/ DeletePoint(p)
    PROVE  Atomic!Next
<1>1. Collecting' = Collecting
  BY SameRequestsQuiet, QuietStutters
  DEF CreateVehicle, DeleteVehicle, CreatePoint, DeletePoint
<1>2. ASSUME NEW v \in Vehicles, CreateVehicle(v) PROVE Atomic!CreateVehicle(v)
  BY <1>1, <1>2, SharedDomain, SharedRows DEF CreateVehicle, Atomic!CreateVehicle
<1>3. ASSUME NEW v \in Vehicles, DeleteVehicle(v) PROVE Atomic!DeleteVehicle(v)
  BY <1>1, <1>3, SharedDomain DEF DeleteVehicle, Atomic!DeleteVehicle
<1>4. ASSUME NEW p \in Points, CreatePoint(p) PROVE Atomic!CreatePoint(p)
  BY <1>1, <1>4, SharedDomain, SharedRows DEF CreatePoint, Atomic!CreatePoint
<1>5. ASSUME NEW p \in Points, DeletePoint(p) PROVE Atomic!DeletePoint(p)
  BY <1>1, <1>5, SharedDomain DEF DeletePoint, Atomic!DeletePoint
<1> QED
  BY <1>2, <1>3, <1>4, <1>5 DEF Atomic!Next

LEMMA AtomicStep ==
    ASSUME IInv, CInv, [Next]_vars
    PROVE  [Atomic!Next]_(Atomic!vars)
<1>1. ASSUME NEW r \in Requests, TaskCall(r) \/ VehicleCall(r) \/ PointCall(r)
      PROVE  UNCHANGED Atomic!vars
  BY <1>1, CallQuiet, QuietStutters DEF IInv, Atomic!vars
<1>2. ASSUME NEW r \in Requests, Proceed(r)
      PROVE  [Atomic!Next]_(Atomic!vars)
  BY <1>2, AtomicSaveTask, AtomicSaveCompleted, AtomicGetCollected, AtomicSaveCollected,
     AtomicGetTaskVehicle, AtomicInsertTask, AtomicSaveVehicle, AtomicSavePoint DEF Proceed
<1>3. ASSUME NEW r \in Requests, Abandon(r) PROVE Atomic!Next
  BY <1>3, ReturnLoses, LoseStep DEF Abandon, db, IInv
<1>4. CASE Crash
  <2>1. Collecting' = {}
    BY <1>4 DEF Crash, Collecting, Collects, NoRequest
  <2> QED
    BY <1>4, <2>1, LoseStep DEF Crash, db
<1>5. CASE Tick
  <2>1. Collecting' = Collecting
    BY <1>5, SameRequestsQuiet, QuietStutters DEF Tick
  <2>2. Atomic!TimePasses
    BY <1>5, <2>1 DEF Tick, db, Atomic!TimePasses
  <2> QED
    BY <2>2 DEF Atomic!Next
<1>6. CASE ListStale \/ (\E t \in Tasks : SkipStale(t)) \/ UNCHANGED vars
  <2>1. UNCHANGED <<tasks, vehicles, points, req, clock>>
    BY <1>6 DEF ListStale, SkipStale, db, vars
  <2>2. Collecting' = Collecting
    BY <2>1, SameRequestsQuiet, QuietStutters
  <2> QED
    BY <2>1, <2>2 DEF Atomic!vars
<1> QED
  BY <1>1, <1>2, <1>3, <1>4, <1>5, <1>6, AtomicTables, AtomicRecovery DEF Next, Recovery

LEMMA AtomicInit == Init => Atomic!Init
<1> SUFFICES ASSUME Init PROVE Atomic!Init
  OBVIOUS
<1>1. Collecting = {}
  BY DEF Init, Collecting, Collects, NoRequest
<1> QED
  BY <1>1, SharedRows DEF Init, Atomic!Init

\* Dispatch implements AtomicDispatch: to a caller, the statements of the
\* services interleave as if each operation were one step.
THEOREM Refinement == Spec => ImplementsAtomic
<1>1. IInv /\ CInv /\ [Next]_vars => [Atomic!Next]_(Atomic!vars)
  BY AtomicStep
<1> QED
  BY <1>1, AtomicInit, InvHolds, CollectionsHold, PTL DEF Spec, ImplementsAtomic, Atomic!Spec
=============================================================================

------------------------------ MODULE Dispatch ------------------------------
(***************************************************************************)
(* TaskService, VehicleService and PointService over the SQLite            *)
(* repositories, with the task recovery worker.                            *)
(*                                                                         *)
(* No service opens a transaction: every operation is a sequence of single *)
(* SQL statements, and other requests and the worker run between them.  A  *)
(* request is a handler goroutine; one action is one statement with the    *)
(* code that runs before the next one.  An operation that reads a row      *)
(* keeps the changed row in memory (`t`, `p` or `v` of the request) and    *)
(* writes it in a later step if the stored version is still the one it     *)
(* read.  A request refused by its first read leaves no trace and takes no *)
(* step.                                                                   *)
(*                                                                         *)
(* A statement may fail (database error, busy timeout, the client gone and *)
(* its context cancelled) and the process may crash; MaxFaults bounds      *)
(* both.  MaxVersion bounds the writes to a vehicle or a point, MaxTime    *)
(* the clock.                                                              *)
(***************************************************************************)
EXTENDS DispatchRows, FiniteSets

CONSTANTS Requests,     \* handler goroutines
          Ops,          \* the service operations callers use
          Kgs,          \* collected weights and load readings
          StaleAge,     \* staleAge of the recovery worker
          MaxTime, MaxVersion, MaxFaults

ASSUME BoundsAssumption ==
    /\ StaleAge \in Nat /\ MaxTime \in Nat
    /\ MaxVersion \in Nat /\ MaxFaults \in Nat
\* The routes refuse a negative collected_kg and a negative load.
ASSUME KgsAssumption == Kgs \subseteq Nat

\* The operations the HTTP server routes, and all the services offer.
RoutedOps == {"CreateTask", "StartTask", "CompleteTask", "FailTask", "CancelTask",
              "CreateVehicle", "AssignDriver", "ReleaseVehicle", "DeleteVehicle",
              "CreatePoint", "UpdateLoad", "DeletePoint"}
AllOps == RoutedOps \cup {"UpdateVehicleStatus", "UpdatePointStatus"}

VARIABLES tasks, vehicles, points,  \* the tables
          req,                      \* the requests in progress
          recovery,                 \* the recovery worker's list of stale tasks
          clock,                    \* time.Now()
          faults                    \* statements failed and crashes so far

db == <<tasks, vehicles, points>>
vars == <<tasks, vehicles, points, req, recovery, clock, faults>>

(***************************************************************************)
(* pc is the next statement of a request:                                  *)
(*   saveTask       UPDATE of the task (start, fail, cancel)               *)
(*   saveCompleted  UPDATE of the task (complete)                          *)
(*   getCollected   SELECT of the point of the completed task              *)
(*   saveCollected  UPDATE of that point                                   *)
(*   getVehicle     SELECT of the vehicle of a task to create              *)
(*   insertTask     INSERT of that task                                    *)
(*   saveVehicle    UPDATE of a vehicle                                    *)
(*   savePoint      UPDATE of a point (load reading, status)               *)
(***************************************************************************)
Statements == {"idle", "saveTask", "saveCompleted", "getCollected", "saveCollected",
               "getVehicle", "insertTask", "saveVehicle", "savePoint"}

Request == [pc: Statements, task: Tasks \cup {None}, point: Points \cup {None},
            vehicle: Vehicles \cup {None}, t: TaskRow, p: PointRow, v: VehicleRow]

NoRequest == [pc |-> "idle", task |-> None, point |-> None, vehicle |-> None,
              t |-> NoTask, p |-> NoPoint, v |-> NoVehicle]

\* `stale` holds the ids still to be failed, `rows` the rows that were read.
NoRecovery == [stale |-> {}, rows |-> [t \in Tasks |-> NoTask]]

Init ==
    /\ tasks = [t \in Tasks |-> NoTask]
    /\ vehicles = [v \in Vehicles |-> NoVehicle]
    /\ points = [p \in Points |-> NoPoint]
    /\ req = [r \in Requests |-> NoRequest]
    /\ recovery = NoRecovery
    /\ clock = 0
    /\ faults = 0

-----------------------------------------------------------------------------
(* Steps common to the operations. *)

\* An idle request is called with op and goes to its next statement.
Called(r, op, next) ==
    /\ op \in Ops
    /\ req[r].pc = "idle"
    /\ req' = [req EXCEPT ![r] = next]
    /\ UNCHANGED <<db, recovery, clock, faults>>

Return(r) == req' = [req EXCEPT ![r] = NoRequest]

\* A task read by GetByID and changed in memory by a domain method.
HoldTask(r, op, t, row, pc) ==
    /\ tasks[t].live
    /\ Called(r, op, [NoRequest EXCEPT !.pc = pc, !.task = t, !.t = row])

HoldVehicle(r, op, v, row) ==
    /\ vehicles[v].live /\ vehicles[v].version < MaxVersion
    /\ Called(r, op, [NoRequest EXCEPT !.pc = "saveVehicle", !.vehicle = v, !.v = row])

HoldPoint(r, op, p, row) ==
    /\ points[p].live /\ points[p].version < MaxVersion
    /\ Called(r, op, [NoRequest EXCEPT !.pc = "savePoint", !.point = p, !.p = row])

\* UpdateWithVersion of the task repository, and the return of the service.
SaveTask(r) ==
    LET t == req[r].task IN
    /\ req[r].pc = "saveTask"
    /\ tasks' = IF SameVersion(tasks[t], req[r].t)
                THEN [tasks EXCEPT ![t] = NextVersion(req[r].t)]
                ELSE tasks
    /\ Return(r)
    /\ UNCHANGED <<vehicles, points, recovery, clock, faults>>

-----------------------------------------------------------------------------
(* TaskService *)

StartTask(r, t) ==
    /\ TaskCanTransitionTo(tasks[t].status, "in_progress")
    /\ HoldTask(r, "StartTask", t, StartRow(tasks[t], clock), "saveTask")

FailTask(r, t) ==
    /\ TaskCanTransitionTo(tasks[t].status, "failed")
    /\ HoldTask(r, "FailTask", t, FailRow(tasks[t], "reported"), "saveTask")

CancelTask(r, t) ==
    /\ TaskCanTransitionTo(tasks[t].status, "cancelled")
    /\ HoldTask(r, "CancelTask", t, CancelRow(tasks[t]), "saveTask")

CompleteTask(r, t) ==
    /\ TaskCanTransitionTo(tasks[t].status, "completed")
    /\ \E kg \in Kgs :
          HoldTask(r, "CompleteTask", t, CompleteRow(tasks[t], kg), "saveCompleted")

\* The completion is stored; the load of the point is still to be updated.
SaveCompleted(r) ==
    LET t == req[r].task IN
    /\ req[r].pc = "saveCompleted"
    /\ IF SameVersion(tasks[t], req[r].t)
       THEN /\ tasks' = [tasks EXCEPT ![t] = NextVersion(req[r].t)]
            /\ req' = [req EXCEPT ![r].pc = "getCollected"]
       ELSE /\ Return(r)
            /\ UNCHANGED tasks
    /\ UNCHANGED <<vehicles, points, recovery, clock, faults>>

\* A point that is not found is ignored: the call succeeds without it.
GetCollected(r) ==
    LET p == req[r].t.point IN
    /\ req[r].pc = "getCollected"
    /\ req' = [req EXCEPT ![r] =
                  IF points[p].live
                  THEN [@ EXCEPT !.pc = "saveCollected", !.point = p,
                                 !.p = CollectRow(points[p], req[r].t.kg, Capacity[p])]
                  ELSE NoRequest]
    /\ UNCHANGED <<db, recovery, clock, faults>>

CanSavePoint(r) == SameVersion(points[req[r].point], req[r].p)

\* Mutant: the load is written whatever was written since it was read.
WritePointUnchecked(r) ==
    points' = IF points[req[r].point].live
              THEN [points EXCEPT ![req[r].point] = NextVersion(req[r].p)]
              ELSE points

\* UpdateWithVersion of the point repository.
WritePoint(r) ==
    points' = IF CanSavePoint(r)
              THEN [points EXCEPT ![req[r].point] = NextVersion(req[r].p)]
              ELSE points

\* A version conflict is only logged: the call succeeds either way.
SaveCollected(r) ==
    /\ req[r].pc = "saveCollected"
    /\ WritePoint(r)
    /\ Return(r)
    /\ UNCHANGED <<tasks, vehicles, recovery, clock, faults>>

\* The id a request will insert is drawn up front.
Reserved(t) == \E r \in Requests : req[r].task = t

CreateTask(r, t, p, v) ==
    /\ points[p].live
    /\ Fresh(tasks[t]) /\ ~Reserved(t)
    /\ Called(r, "CreateTask",
              [NoRequest EXCEPT !.pc = "getVehicle", !.task = t, !.point = p, !.vehicle = v])

GetTaskVehicle(r) ==
    LET row == vehicles[req[r].vehicle] IN
    /\ req[r].pc = "getVehicle"
    /\ IF row.live /\ row.status \in {"idle", "dispatched"}
       THEN req' = [req EXCEPT ![r].pc = "insertTask"]
       ELSE Return(r)
    /\ UNCHANGED <<db, recovery, clock, faults>>

\* Mutant: foreign keys are off.
InsertTaskUnchecked(r) ==
    /\ req[r].pc = "insertTask"
    /\ tasks' = [tasks EXCEPT ![req[r].task] = InsertedTask(req[r].point, req[r].vehicle)]
    /\ Return(r)
    /\ UNCHANGED <<vehicles, points, recovery, clock, faults>>

\* The foreign keys refuse a point or a vehicle deleted in between.
InsertTask(r) ==
    LET p == req[r].point
        v == req[r].vehicle IN
    /\ req[r].pc = "insertTask"
    /\ tasks' = IF points[p].live /\ vehicles[v].live
                THEN [tasks EXCEPT ![req[r].task] = InsertedTask(p, v)]
                ELSE tasks
    /\ Return(r)
    /\ UNCHANGED <<vehicles, points, recovery, clock, faults>>

-----------------------------------------------------------------------------
(* VehicleService *)

CreateVehicle(v) ==
    /\ "CreateVehicle" \in Ops
    /\ Fresh(vehicles[v])
    /\ vehicles' = [vehicles EXCEPT ![v] = InsertedVehicle]
    /\ UNCHANGED <<tasks, points, req, recovery, clock, faults>>

AssignDriver(r, v) ==
    /\ VehicleCanTransitionTo(vehicles[v].status, "dispatched")
    /\ \E d \in Drivers : HoldVehicle(r, "AssignDriver", v, AssignRow(vehicles[v], d))

ReleaseVehicle(r, v) ==
    /\ VehicleCanTransitionTo(vehicles[v].status, "idle")
    /\ HoldVehicle(r, "ReleaseVehicle", v, ReleaseRow(vehicles[v]))

UpdateVehicleStatus(r, v) ==
    \E s \in VehicleStatuses :
       /\ VehicleCanTransitionTo(vehicles[v].status, s)
       /\ HoldVehicle(r, "UpdateVehicleStatus", v, [vehicles[v] EXCEPT !.status = s])

SaveVehicle(r) ==
    LET v == req[r].vehicle IN
    /\ req[r].pc = "saveVehicle"
    /\ vehicles' = IF SameVersion(vehicles[v], req[r].v)
                   THEN [vehicles EXCEPT ![v] = NextVersion(req[r].v)]
                   ELSE vehicles
    /\ Return(r)
    /\ UNCHANGED <<tasks, points, recovery, clock, faults>>

\* Foreign keys are on: a vehicle a task refers to cannot be deleted.
DeleteVehicle(v) ==
    /\ "DeleteVehicle" \in Ops
    /\ vehicles[v].live
    /\ \A t \in Tasks : tasks[t].live => tasks[t].vehicle # v
    /\ vehicles' = [vehicles EXCEPT ![v] = Deleted(@)]
    /\ UNCHANGED <<tasks, points, req, recovery, clock, faults>>

-----------------------------------------------------------------------------
(* PointService *)

CreatePoint(p) ==
    /\ "CreatePoint" \in Ops
    /\ Fresh(points[p])
    /\ points' = [points EXCEPT ![p] = InsertedPoint]
    /\ UNCHANGED <<tasks, vehicles, req, recovery, clock, faults>>

UpdateLoad(r, p) ==
    \E load \in Kgs :
       HoldPoint(r, "UpdateLoad", p, LoadRow(points[p], load, Capacity[p]))

UpdatePointStatus(r, p) ==
    \E s \in PointStatuses :
       HoldPoint(r, "UpdatePointStatus", p, [points[p] EXCEPT !.status = s])

SavePoint(r) ==
    /\ req[r].pc = "savePoint"
    /\ WritePoint(r)
    /\ Return(r)
    /\ UNCHANGED <<tasks, vehicles, recovery, clock, faults>>

DeletePoint(p) ==
    /\ "DeletePoint" \in Ops
    /\ points[p].live
    /\ \A t \in Tasks : tasks[t].live => tasks[t].point # p
    /\ points' = [points EXCEPT ![p] = Deleted(@)]
    /\ UNCHANGED <<tasks, vehicles, req, recovery, clock, faults>>

-----------------------------------------------------------------------------
(***************************************************************************)
(* The recovery worker: at its start and at every tick it lists the stale  *)
(* tasks once and then fails them one by one, oldest start first, going on *)
(* to the next when a write fails.  A tick never overlaps the previous one. *)
(***************************************************************************)
Stale(t) == StaleRow(tasks[t], clock - StaleAge)

ListStale ==
    LET stale == {t \in Tasks : Stale(t)} IN
    /\ recovery.stale = {}
    /\ stale # {}
    /\ recovery' = [stale |-> stale,
                    rows |-> [t \in Tasks |-> IF t \in stale
                                              THEN FailRow(tasks[t], "auto-recovery")
                                              ELSE NoTask]]
    /\ UNCHANGED <<db, req, clock, faults>>

\* The next task of the list: one that was started first.
NextStale(t) ==
    /\ t \in recovery.stale
    /\ \A u \in recovery.stale : recovery.rows[t].startedAt <= recovery.rows[u].startedAt

DropStale(t) ==
    recovery' = [stale |-> recovery.stale \ {t},
                 rows |-> [recovery.rows EXCEPT ![t] = NoTask]]

\* Mutant: a conflicting task stays at the head of the list.
RecoverTaskRetried(t) ==
    /\ NextStale(t)
    /\ SameVersion(tasks[t], recovery.rows[t])
    /\ tasks' = [tasks EXCEPT ![t] = NextVersion(recovery.rows[t])]
    /\ DropStale(t)
    /\ UNCHANGED <<vehicles, points, req, clock, faults>>

RecoverTask(t) ==
    /\ NextStale(t)
    /\ tasks' = IF SameVersion(tasks[t], recovery.rows[t])
                THEN [tasks EXCEPT ![t] = NextVersion(recovery.rows[t])]
                ELSE tasks
    /\ DropStale(t)
    /\ UNCHANGED <<vehicles, points, req, clock, faults>>

-----------------------------------------------------------------------------
(* Time and faults *)

Tick ==
    /\ clock < MaxTime
    /\ clock' = clock + 1
    /\ UNCHANGED <<db, req, recovery, faults>>

Fault == faults < MaxFaults /\ faults' = faults + 1

\* A statement of a request fails and the handler gives up where it is.
Abandon(r) ==
    /\ req[r].pc # "idle"
    /\ Fault
    /\ Return(r)
    /\ UNCHANGED <<db, recovery, clock>>

\* The UPDATE of one stale task fails: logged, and the loop continues.
SkipStale(t) ==
    /\ NextStale(t)
    /\ Fault
    /\ DropStale(t)
    /\ UNCHANGED <<db, req, clock>>

\* The process dies and is started again on the same database.
Crash ==
    /\ Fault
    /\ req' = [r \in Requests |-> NoRequest]
    /\ recovery' = NoRecovery
    /\ UNCHANGED <<db, clock>>

-----------------------------------------------------------------------------

TaskCall(r) ==
    \E t \in Tasks :
       \/ StartTask(r, t) \/ CompleteTask(r, t) \/ FailTask(r, t) \/ CancelTask(r, t)
       \/ \E p \in Points, v \in Vehicles : CreateTask(r, t, p, v)

VehicleCall(r) ==
    \E v \in Vehicles :
       AssignDriver(r, v) \/ ReleaseVehicle(r, v) \/ UpdateVehicleStatus(r, v)

PointCall(r) == \E p \in Points : UpdateLoad(r, p) \/ UpdatePointStatus(r, p)

\* The next statement of a request in progress.
Proceed(r) ==
    \/ SaveTask(r) \/ SaveCompleted(r) \/ GetCollected(r) \/ SaveCollected(r)
    \/ GetTaskVehicle(r) \/ InsertTask(r)
    \/ SaveVehicle(r) \/ SavePoint(r)

Recovery == ListStale \/ \E t \in Tasks : RecoverTask(t)

Next ==
    \/ \E r \in Requests :
          TaskCall(r) \/ VehicleCall(r) \/ PointCall(r) \/ Proceed(r) \/ Abandon(r)
    \/ \E v \in Vehicles : CreateVehicle(v) \/ DeleteVehicle(v)
    \/ \E p \in Points : CreatePoint(p) \/ DeletePoint(p)
    \/ Recovery
    \/ \E t \in Tasks : SkipStale(t)
    \/ Tick
    \/ Crash

Spec == Init /\ [][Next]_vars

-----------------------------------------------------------------------------
(* Properties *)

\* A row that was inserted refers to a point and a vehicle.
Refers(row) == row.point \in Points /\ row.vehicle \in Vehicles

\* A request names the rows its next statement needs.
NamesRows(q) ==
    /\ q.pc \in {"saveTask", "saveCompleted", "getCollected", "saveCollected"}
          => q.task \in Tasks /\ Refers(q.t)
    /\ q.pc \in {"getVehicle", "insertTask"} => q.task \in Tasks /\ Refers(q)
    /\ q.pc \in {"saveCollected", "savePoint"} => q.point \in Points
    /\ q.pc = "saveVehicle" => q.vehicle \in Vehicles

\* Every variable holds rows, requests and times of the declared shape.
TypeOK ==
    /\ tasks \in [Tasks -> TaskRow]
    /\ \A t \in Tasks : tasks[t].live => Refers(tasks[t])
    /\ vehicles \in [Vehicles -> VehicleRow]
    /\ points \in [Points -> PointRow]
    /\ req \in [Requests -> Request]
    /\ \A r \in Requests : NamesRows(req[r])
    /\ recovery \in [stale: SUBSET Tasks, rows: [Tasks -> TaskRow]]
    /\ \A t \in recovery.stale : Refers(recovery.rows[t])
    /\ clock \in Nat
    /\ faults \in Nat

\* The completed tasks whose collection is still being subtracted.
Collects(r) == req[r].pc \in {"getCollected", "saveCollected"}
Collecting == {t \in Tasks : \E r \in Requests : Collects(r) /\ req[r].task = t}

Atomic == INSTANCE AtomicDispatch WITH collecting <- Collecting

(***************************************************************************)
(* A write held in memory is based on a version the table has had, and as  *)
(* long as that is still the stored version, writing it is one legal       *)
(* operation on the stored row.  This is what the version column is for:   *)
(* StartTask, CompleteTask, AssignDriver and the others decide on a row    *)
(* they read before other requests ran.                                    *)
(***************************************************************************)
TaskWriteLegal(r) ==
    LET old == tasks[req[r].task]
        row == req[r].t IN
    /\ old.live /\ row.version <= old.version
    /\ req[r].pc = "saveTask" /\ old.version = row.version
          => \/ Atomic!Starts(old, NextVersion(row))
             \/ Atomic!Fails(old, NextVersion(row))
             \/ Atomic!Cancels(old, NextVersion(row))
    /\ req[r].pc = "saveCompleted" /\ old.version = row.version
          => Atomic!Completes(old, NextVersion(row))

RecoveryWriteLegal(t) ==
    LET row == recovery.rows[t] IN
    /\ tasks[t].live /\ row.version <= tasks[t].version
    /\ tasks[t].version = row.version => Atomic!Recovers(tasks[t], NextVersion(row))

VehicleWriteLegal(r) ==
    LET old == vehicles[req[r].vehicle]
        row == req[r].v IN
    /\ row.version <= old.version
    /\ SameVersion(old, row) => Atomic!ChangesVehicle(old, NextVersion(row))

PointWriteLegal(r) ==
    LET p == req[r].point
        row == req[r].p IN
    /\ row.version <= points[p].version
    /\ SameVersion(points[p], row) =>
          Atomic!ChangesPoint(points[p], NextVersion(row), Capacity[p])

RequestWriteLegal(r) ==
    /\ req[r].pc \in {"saveTask", "saveCompleted"} => TaskWriteLegal(r)
    /\ req[r].pc = "saveVehicle" => VehicleWriteLegal(r)
    /\ req[r].pc \in {"savePoint", "saveCollected"} => PointWriteLegal(r)

\* A held write is based on a version the table has had and is legal for the
\* stored row while that version is current: task, vehicle and point services,
\* and the recovery worker's list, which may be long out of date.
PendingWritesLegal ==
    /\ \A r \in Requests : RequestWriteLegal(r)
    /\ \A t \in recovery.stale : RecoveryWriteLegal(t)

\* No two requests subtract the collection of the same task, however
\* completions of one task race (CompleteTask called twice, or retried).
CollectedOnce ==
    \A r1, r2 \in Requests :
        Collects(r1) /\ Collects(r2) /\ req[r1].task = req[r2].task => r1 = r2

\* A request that is subtracting a collection holds what the task row says:
\* the row stays completed, with the same weight and point, all the while.
CollectionMatchesTask ==
    \A r \in Requests : Collects(r) =>
        LET t == req[r].task IN
        /\ tasks[t] = NextVersion(req[r].t)
        /\ tasks[t].status = "completed"
        /\ req[r].pc = "saveCollected" =>
              /\ req[r].point = tasks[t].point
              /\ SameVersion(points[req[r].point], req[r].p) =>
                    req[r].p = CollectRow(points[req[r].point], tasks[t].kg,
                                          Capacity[req[r].point])

\* A task never outlives its point or its vehicle, although CreateTask checks
\* both before it inserts and deletions run in between.
ReferencesLive ==
    \A t \in Tasks : tasks[t].live =>
        /\ tasks[t].point \in Points /\ points[tasks[t].point].live
        /\ tasks[t].vehicle \in Vehicles /\ vehicles[tasks[t].vehicle].live

\* The history a task row tells is one that can have happened: an outcome and
\* its trace exclude each other (a completed task has no failure reason, a
\* cancelled one was never started, only a failed one has a reason).
HistoryConsistent ==
    \A t \in Tasks : tasks[t].live =>
        LET row == tasks[t] IN
        /\ row.status \in {"scheduled", "cancelled"} <=> row.startedAt = NotStarted
        /\ row.status = "failed" <=> row.reason # ""
        /\ row.kg # 0 => row.status = "completed"
        /\ row.startedAt <= clock

\* Under the routed operations a point is full exactly when its load reaches
\* its capacity, whatever load readings and collections overlap.
StatusMatchesLoad ==
    \A p \in Points : points[p].live =>
        points[p].status = IF IsFull(points[p].load, Capacity[p]) THEN "full" ELSE "active"

\* Under the routed operations a vehicle has a driver exactly when it is
\* dispatched, whatever assignments and releases overlap.
DriverMatchesStatus ==
    \A v \in Vehicles :
        /\ vehicles[v].status \in {"idle", "dispatched"}
        /\ vehicles[v].status = "dispatched" <=> vehicles[v].driver # ""

\* A completed or cancelled task is left as it is, and a failed one is left or
\* scheduled anew, which the transition table allows.
OutcomeKept(t) ==
    /\ tasks[t].status \in {"completed", "cancelled"} => tasks'[t] = tasks[t]
    /\ tasks[t].status = "failed" =>
          tasks'[t] = tasks[t] \/ tasks'[t].status = "scheduled"

\* No request and no recovery run that read a task before its outcome was stored
\* changes that outcome: the collected weight of a completed task, the reason of
\* a failed one.
OutcomeFinal == [][\A t \in Tasks : OutcomeKept(t)]_vars

\* The recovery worker only fails a task that is still in progress and still
\* too old at the step that fails it, not one that was stale when listed.
RecoversOnlyStale ==
    [][\A t \in Tasks :
          tasks'[t].reason = "auto-recovery" /\ tasks[t].reason # "auto-recovery"
             => Stale(t)]_vars

\* Every interleaving of the statements is one of atomic operations.
ImplementsAtomic == Atomic!Spec

\* What the comment of CompleteTask says: it "transitions a task to completed
\* and updates the collection point load".  A call that returns without a
\* fault after completing its task has written the point.
CompletionUpdatesLoad ==
    [][\A r \in Requests :
          req[r].pc = "saveCollected" /\ req'[r].pc = "idle" /\ faults' = faults
             => points'[req[r].point] # points[req[r].point]]_vars
=============================================================================

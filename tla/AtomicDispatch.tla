--------------------------- MODULE AtomicDispatch ---------------------------
(***************************************************************************)
(* What the dispatch services promise to a caller who cannot see their     *)
(* statements interleave: every operation that takes effect does so in one *)
(* step, on the rows as they are at that step.                             *)
(*                                                                         *)
(* Completing a task is the exception the code makes: the task row is      *)
(* written first and the load of its point in a second statement.          *)
(* `collecting` holds the completed tasks whose collection still may be    *)
(* subtracted from their point.  A task enters it once, when it completes, *)
(* and leaves it once, when it is subtracted (CollectLoad) or when the     *)
(* subtraction is lost (LoseCollections).                                  *)
(***************************************************************************)
EXTENDS DispatchRows

CONSTANTS StaleAge   \* age beyond which a task in progress is recovered

VARIABLES tasks, vehicles, points, collecting, clock

vars == <<tasks, vehicles, points, collecting, clock>>

Init ==
    /\ tasks = [t \in Tasks |-> NoTask]
    /\ vehicles = [v \in Vehicles |-> NoVehicle]
    /\ points = [p \in Points |-> NoPoint]
    /\ collecting = {}
    /\ clock = 0

-----------------------------------------------------------------------------
(***************************************************************************)
(* The legal successors of one row.  `new` is the row as stored after the  *)
(* write; what a request chose (a time, a weight, a driver, a load, a      *)
(* status) is read from it.                                                *)
(***************************************************************************)

Starts(old, new) ==
    /\ TaskCanTransitionTo(old.status, "in_progress")
    /\ new.startedAt \in 0 .. clock
    /\ new = NextVersion(StartRow(old, new.startedAt))

Completes(old, new) ==
    /\ TaskCanTransitionTo(old.status, "completed")
    /\ new.kg \in Nat
    /\ new = NextVersion(CompleteRow(old, new.kg))

Fails(old, new) ==
    /\ TaskCanTransitionTo(old.status, "failed")
    /\ new = NextVersion(FailRow(old, "reported"))

Cancels(old, new) ==
    /\ TaskCanTransitionTo(old.status, "cancelled")
    /\ new = NextVersion(CancelRow(old))

\* The worker may only fail a task that is stale at the step that fails it.
Recovers(old, new) ==
    /\ StaleRow(old, clock - StaleAge)
    /\ new = NextVersion(FailRow(old, "auto-recovery"))

ChangesVehicle(old, new) ==
    \/ /\ VehicleCanTransitionTo(old.status, "dispatched")
       /\ new.driver \in Drivers
       /\ new = NextVersion(AssignRow(old, new.driver))
    \/ /\ VehicleCanTransitionTo(old.status, "idle")
       /\ new = NextVersion(ReleaseRow(old))
    \/ /\ VehicleCanTransitionTo(old.status, new.status)
       /\ new = NextVersion([old EXCEPT !.status = new.status])

ChangesPoint(old, new, capacity) ==
    \/ /\ new.load \in Nat
       /\ new = NextVersion(LoadRow(old, new.load, capacity))
    \/ /\ new.status \in PointStatuses
       /\ new = NextVersion([old EXCEPT !.status = new.status])

\* A write to one row of a table leaves every other row alone.
OnlyRow(table, tableAfter, id) ==
    tableAfter = [table EXCEPT ![id] = tableAfter[id]]

-----------------------------------------------------------------------------
(* One step per operation. *)

CreateTask(t, p, v) ==
    /\ Fresh(tasks[t]) /\ points[p].live /\ vehicles[v].live
    /\ tasks' = [tasks EXCEPT ![t] = InsertedTask(p, v)]
    /\ UNCHANGED <<vehicles, points, collecting, clock>>

\* StartTask, FailTask, CancelTask, or one task of RecoverStale.
ChangeTask(t) ==
    /\ tasks[t].live
    /\ \/ Starts(tasks[t], tasks'[t])
       \/ Fails(tasks[t], tasks'[t])
       \/ Cancels(tasks[t], tasks'[t])
       \/ Recovers(tasks[t], tasks'[t])
    /\ OnlyRow(tasks, tasks', t)
    /\ UNCHANGED <<vehicles, points, collecting, clock>>

CompleteTask(t) ==
    /\ tasks[t].live
    /\ Completes(tasks[t], tasks'[t])
    /\ OnlyRow(tasks, tasks', t)
    /\ collecting' = collecting \cup {t}
    /\ UNCHANGED <<vehicles, points, clock>>

\* The collection of a completed task leaves the load of its point, once.
CollectLoad(t) ==
    LET p == tasks[t].point IN
    /\ t \in collecting
    /\ points[p].live
    /\ points' = [points EXCEPT ![p] =
                     NextVersion(CollectRow(@, tasks[t].kg, Capacity[p]))]
    /\ collecting' = collecting \ {t}
    /\ UNCHANGED <<tasks, vehicles, clock>>

LoseCollections ==
    /\ collecting' \subseteq collecting
    /\ UNCHANGED <<tasks, vehicles, points, clock>>

ChangeVehicle(v) ==
    /\ vehicles[v].live
    /\ ChangesVehicle(vehicles[v], vehicles'[v])
    /\ OnlyRow(vehicles, vehicles', v)
    /\ UNCHANGED <<tasks, points, collecting, clock>>

ChangePoint(p) ==
    /\ points[p].live
    /\ ChangesPoint(points[p], points'[p], Capacity[p])
    /\ OnlyRow(points, points', p)
    /\ UNCHANGED <<tasks, vehicles, collecting, clock>>

CreateVehicle(v) ==
    /\ Fresh(vehicles[v])
    /\ vehicles' = [vehicles EXCEPT ![v] = InsertedVehicle]
    /\ UNCHANGED <<tasks, points, collecting, clock>>

CreatePoint(p) ==
    /\ Fresh(points[p])
    /\ points' = [points EXCEPT ![p] = InsertedPoint]
    /\ UNCHANGED <<tasks, vehicles, collecting, clock>>

\* A row a task refers to is never deleted.
DeleteVehicle(v) ==
    /\ vehicles[v].live
    /\ \A t \in Tasks : tasks[t].live => tasks[t].vehicle # v
    /\ vehicles' = [vehicles EXCEPT ![v] = Deleted(@)]
    /\ UNCHANGED <<tasks, points, collecting, clock>>

DeletePoint(p) ==
    /\ points[p].live
    /\ \A t \in Tasks : tasks[t].live => tasks[t].point # p
    /\ points' = [points EXCEPT ![p] = Deleted(@)]
    /\ UNCHANGED <<tasks, vehicles, collecting, clock>>

TimePasses ==
    /\ clock' = clock + 1
    /\ UNCHANGED <<tasks, vehicles, points, collecting>>

Next ==
    \/ \E t \in Tasks :
          \/ \E p \in Points, v \in Vehicles : CreateTask(t, p, v)
          \/ ChangeTask(t) \/ CompleteTask(t) \/ CollectLoad(t)
    \/ \E v \in Vehicles : CreateVehicle(v) \/ ChangeVehicle(v) \/ DeleteVehicle(v)
    \/ \E p \in Points : CreatePoint(p) \/ ChangePoint(p) \/ DeletePoint(p)
    \/ LoseCollections
    \/ TimePasses

Spec == Init /\ [][Next]_vars
=============================================================================

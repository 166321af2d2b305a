---------------------------- MODULE DispatchRows ----------------------------
(***************************************************************************)
(* The rows of the tables vehicles, collection_points and collection_tasks *)
(* and the domain methods that change one row held in memory               *)
(* (internal/domain).  Columns no transition depends on (names, notes,     *)
(* priority, addresses, timestamps other than started_at) are left out.    *)
(*                                                                         *)
(* A table is a function from ids to rows.  The row of an id that was      *)
(* never inserted is the No... row of its table, with version 0; `live`    *)
(* says whether a SELECT finds the row.  Ids are UUIDs, so an id that was  *)
(* deleted never comes back: an INSERT takes an id whose version is 0.     *)
(***************************************************************************)
EXTENDS Integers

CONSTANTS Tasks, Vehicles, Points,  \* the ids of each table
          Drivers,                  \* driver ids a request may carry
          Capacity,                 \* capacity_kg of each point
          None                      \* the id an unused reference holds

ASSUME NoneAssumption == None \notin Tasks \cup Vehicles \cup Points
\* The route that assigns a driver refuses an empty driver_id.
ASSUME DriversAssumption == "" \notin Drivers
\* The route that creates a point refuses a capacity that is not positive.
ASSUME CapacityAssumption == Capacity \in [Points -> Nat \ {0}]

TaskStatuses    == {"scheduled", "in_progress", "completed", "failed", "cancelled"}
VehicleStatuses == {"idle", "dispatched", "in_service", "maintenance", "retired"}
PointStatuses   == {"active", "full", "suspended", "closed"}

\* The failure_reason column: empty, given by a caller, or written by the
\* recovery worker.
Reasons == {"", "reported", "auto-recovery"}

\* started_at: NULL, or a time.
NotStarted == -1
Times == Nat \cup {NotStarted}

TaskRow == [live: BOOLEAN, status: TaskStatuses, point: Points \cup {None},
            vehicle: Vehicles \cup {None}, startedAt: Times, kg: Nat,
            reason: Reasons, version: Nat]
VehicleRow == [live: BOOLEAN, status: VehicleStatuses,
               driver: Drivers \cup {""}, version: Nat]
PointRow == [live: BOOLEAN, status: PointStatuses, load: Nat, version: Nat]

NoTask == [live |-> FALSE, status |-> "scheduled", point |-> None,
           vehicle |-> None, startedAt |-> NotStarted, kg |-> 0,
           reason |-> "", version |-> 0]
NoVehicle == [live |-> FALSE, status |-> "idle", driver |-> "", version |-> 0]
NoPoint == [live |-> FALSE, status |-> "active", load |-> 0, version |-> 0]

\* What Create of each repository inserts for the rows its service builds.
InsertedTask(p, v) ==
    [NoTask EXCEPT !.live = TRUE, !.point = p, !.vehicle = v, !.version = 1]
InsertedVehicle == [NoVehicle EXCEPT !.live = TRUE, !.version = 1]
InsertedPoint == [NoPoint EXCEPT !.live = TRUE, !.version = 1]

Fresh(row) == row.version = 0
Deleted(row) == [row EXCEPT !.live = FALSE]

(***************************************************************************)
(* UPDATE ... WHERE id = ? AND version = ?: the row a request holds in     *)
(* memory carries the version it read, and the statement touches a row     *)
(* only if that version is still the stored one.                           *)
(***************************************************************************)
\* Mutant: an UPDATE without "AND version = ?".
SameVersionIgnored(stored, row) == stored.live

SameVersion(stored, row) == stored.live /\ stored.version = row.version
NextVersion(row) == [row EXCEPT !.version = @ + 1]

-----------------------------------------------------------------------------
(* CollectionTask *)

\* Mutant: a task in progress may be cancelled.
TaskTransitionsWider ==
    {<<"scheduled", "in_progress">>, <<"scheduled", "cancelled">>,
     <<"in_progress", "completed">>, <<"in_progress", "failed">>,
     <<"in_progress", "cancelled">>, <<"failed", "scheduled">>}

TaskTransitions ==
    {<<"scheduled", "in_progress">>, <<"scheduled", "cancelled">>,
     <<"in_progress", "completed">>, <<"in_progress", "failed">>,
     <<"failed", "scheduled">>}

TaskCanTransitionTo(s, next) == <<s, next>> \in TaskTransitions

StartRow(row, now) == [row EXCEPT !.startedAt = now, !.status = "in_progress"]
CompleteRow(row, kg) == [row EXCEPT !.kg = kg, !.status = "completed"]
FailRow(row, reason) == [row EXCEPT !.reason = reason, !.status = "failed"]
CancelRow(row) == [row EXCEPT !.status = "cancelled"]

\* ListStaleInProgress: the rows the recovery worker selects at a cutoff.
StaleRow(row, cutoff) ==
    /\ row.live
    /\ row.status = "in_progress"
    /\ row.startedAt # NotStarted
    /\ row.startedAt < cutoff

-----------------------------------------------------------------------------
(* Vehicle *)

VehicleTransitions ==
    {<<"idle", "dispatched">>, <<"idle", "maintenance">>, <<"idle", "retired">>,
     <<"dispatched", "in_service">>, <<"dispatched", "idle">>,
     <<"in_service", "idle">>, <<"in_service", "maintenance">>,
     <<"maintenance", "idle">>, <<"maintenance", "retired">>}

VehicleCanTransitionTo(s, next) == <<s, next>> \in VehicleTransitions

AssignRow(row, d) == [row EXCEPT !.driver = d, !.status = "dispatched"]
\* Mutant: the released vehicle keeps its driver.
ReleaseRowKeepsDriver(row) == [row EXCEPT !.status = "idle"]

ReleaseRow(row) == [row EXCEPT !.driver = "", !.status = "idle"]

-----------------------------------------------------------------------------
(* CollectionPoint *)

\* FillRatio() >= 1.0 for a positive capacity.
IsFull(load, capacity) == load >= capacity

\* UpdateStatus: a suspended or closed point keeps its status.
UpdateStatus(row, capacity) ==
    IF row.status \in {"suspended", "closed"}
    THEN row
    ELSE [row EXCEPT !.status = IF IsFull(row.load, capacity) THEN "full" ELSE "active"]

\* Mutant: the status is not derived from the new load.
LoadRowStatusKept(row, load, capacity) == [row EXCEPT !.load = load]

LoadRow(row, load, capacity) == UpdateStatus([row EXCEPT !.load = load], capacity)

\* Mutant: the load may become negative.
CollectRowUnclamped(row, kg, capacity) == LoadRow(row, row.load - kg, capacity)

\* The load after kg were collected, never below zero.
CollectRow(row, kg, capacity) ==
    LoadRow(row, IF kg > row.load THEN 0 ELSE row.load - kg, capacity)
=============================================================================

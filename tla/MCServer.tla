------------------------------ MODULE MCServer ------------------------------
(***************************************************************************)
(* Instances of Server for TLC.                                            *)
(***************************************************************************)
EXTENDS Server, TLC

\* Loads below the capacity and loads that reach it occur.
MCCapacity == [p \in Points |-> 2]

\* One operation of each shape: what writes a task, a vehicle or a point, and
\* the insertions and deletions they may meet; then those on vehicles alone.
StopRunOps == {"CreateTask", "StartTask", "CompleteTask",
               "CreateVehicle", "AssignDriver", "DeleteVehicle",
               "CreatePoint", "UpdateLoad", "DeletePoint"}
VehicleRunOps == {"CreateVehicle", "AssignDriver", "ReleaseVehicle"}

Symmetry == Permutations(Requests)
=============================================================================

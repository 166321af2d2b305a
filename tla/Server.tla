------------------------------- MODULE Server -------------------------------
(***************************************************************************)
(* The server process around Dispatch: it serves, is told to stop, drains, *)
(* stops or is cut off, and is started again on the same database; and     *)
(* what its handlers answer to a request.                                  *)
(*                                                                         *)
(* The signal cancels the workers first.  Their context is the one of      *)
(* every statement they make: the one under way may still take effect, and *)
(* each later one fails at once.  Handlers have contexts of their own and  *)
(* go on.  A connection accepted before the listener closed may bring a    *)
(* request while the server drains, so calls are made then too.  Once no   *)
(* request is in progress, or ShutdownTimeout is over, main returns, which *)
(* ends every goroutine where it is.                                       *)
(*                                                                         *)
(* Time passes in every phase.  MaxStops bounds the signals; a crash is a  *)
(* fault.                                                                  *)
(***************************************************************************)
EXTENDS Dispatch

CONSTANT MaxStops

ASSUME StopsAssumption == MaxStops \in Nat

VARIABLES phase,  \* what the process does
          stops   \* signals so far

Phases == {"serving", "draining", "stopped", "killed"}

process == <<phase, stops>>
serverVars == <<vars, process>>

ServerInit == Init /\ phase = "serving" /\ stops = 0

-----------------------------------------------------------------------------
(* What Dispatch does while the process is up. *)

Running == phase \in {"serving", "draining"}

Handle ==
    /\ Running
    /\ \/ \E r \in Requests :
             TaskCall(r) \/ VehicleCall(r) \/ PointCall(r) \/ Proceed(r) \/ Abandon(r)
       \/ \E v \in Vehicles : CreateVehicle(v) \/ DeleteVehicle(v)
       \/ \E p \in Points : CreatePoint(p) \/ DeletePoint(p)
    /\ UNCHANGED process

\* A tick selected after the signal finds its context cancelled.
Recover ==
    /\ phase = "serving"
    /\ Recovery
    /\ UNCHANGED process

\* The statement the signal found under way takes effect, or does not.
LastRecovery ==
    /\ phase = "draining"
    /\ \E t \in Tasks : RecoverTask(t)
    /\ UNCHANGED process

SkipRecovery ==
    /\ Running
    /\ \E t \in Tasks : SkipStale(t)
    /\ UNCHANGED process

Pass == Tick /\ UNCHANGED process

-----------------------------------------------------------------------------
(* The life of the process *)

\* What is left of the worker's list: the task being written, or nothing.
Cancelled(list) ==
    [stale |-> list, rows |-> [t \in Tasks |-> IF t \in list THEN recovery.rows[t]
                                                ELSE NoTask]]

Stop ==
    /\ phase = "serving" /\ stops < MaxStops
    /\ phase' = "draining"
    /\ stops' = stops + 1
    /\ \/ recovery' = Cancelled({})
       \/ \E t \in Tasks : NextStale(t) /\ recovery' = Cancelled({t})
    /\ UNCHANGED <<db, req, clock, faults>>

\* The process ends: what its goroutines held in memory is gone.
End ==
    /\ req' = [r \in Requests |-> NoRequest]
    /\ recovery' = NoRecovery
    /\ UNCHANGED <<db, clock, stops>>

\* Mutant: main returns without waiting for the handlers.
DrainedAtOnce ==
    /\ phase = "draining"
    /\ phase' = "stopped"
    /\ End
    /\ UNCHANGED faults

\* Shutdown returns nil: every connection was idle.
Drained ==
    /\ phase = "draining"
    /\ \A r \in Requests : req[r].pc = "idle"
    /\ phase' = "stopped"
    /\ End
    /\ UNCHANGED faults

\* Shutdown returns the error of its context.
TimeOut ==
    /\ phase = "draining"
    /\ phase' = "killed"
    /\ End
    /\ UNCHANGED faults

Kill ==
    /\ Running
    /\ Fault
    /\ phase' = "killed"
    /\ End

Restart ==
    /\ ~Running
    /\ phase' = "serving"
    /\ UNCHANGED <<vars, stops>>

ServerNext ==
    \/ Handle \/ Recover \/ LastRecovery \/ SkipRecovery \/ Pass
    \/ Stop \/ Drained \/ TimeOut \/ Kill \/ Restart

ServerSpec == ServerInit /\ [][ServerNext]_serverVars

(***************************************************************************)
(* The worker runs whenever the server serves.  No handler need ever       *)
(* return, and nothing makes anyone start the server again.                *)
(***************************************************************************)
ServerFairSpec == ServerSpec /\ WF_serverVars(Recover)

-----------------------------------------------------------------------------
(***************************************************************************)
(* What the handler answers to a request whose next statement is its last. *)
(***************************************************************************)

\* Mutant: CompleteTask returns the error of its second part.
FailedAnswerStrict(r) == 500

\* The statement fails.  A point that cannot be read or written after a
\* completion is no error.
FailedAnswer(r) == IF Collects(r) THEN 200 ELSE 500

\* The row a request is about to write is still the one it read.
CanSave(r) ==
    CASE req[r].pc \in {"saveTask", "saveCompleted"} ->
            SameVersion(tasks[req[r].task], req[r].t)
      [] req[r].pc = "saveVehicle" -> SameVersion(vehicles[req[r].vehicle], req[r].v)
      [] req[r].pc \in {"savePoint", "saveCollected"} -> CanSavePoint(r)
      [] OTHER -> TRUE

\* UpdateWithVersion touched no row.  The handlers compare the error with ==,
\* which the vehicle service has wrapped; CompleteTask only logs the second.
ConflictAnswer(r) ==
    CASE req[r].pc = "saveCollected" -> 200
      [] req[r].pc = "saveVehicle" -> 500
      [] OTHER -> 409

\* CreateTask.  A vehicle that is not found is a wrapped error too, and a
\* foreign key that is missing is one of the database.
CreateAnswer(r) ==
    CASE req[r].pc = "getVehicle" ->
            IF vehicles[req[r].vehicle].live THEN 422 ELSE 500
      [] req[r].pc = "insertTask" ->
            IF points[req[r].point].live /\ vehicles[req[r].vehicle].live
            THEN 201 ELSE 500

Answer(r) ==
    CASE req[r].pc \in {"getVehicle", "insertTask"} -> CreateAnswer(r)
      [] ~CanSave(r) -> ConflictAnswer(r)
      [] OTHER -> 200

-----------------------------------------------------------------------------
(* Properties *)

\* In this step the handler of r returns, not cut off with the process.
Returns(r) == req[r].pc # "idle" /\ req'[r].pc = "idle" /\ phase' = phase

Answered(r) == IF faults' = faults THEN Answer(r) ELSE FailedAnswer(r)

\* After this step the row r was called to write is in its table.
Stored(r) ==
    LET q == req[r] IN
    \/ /\ q.pc \in {"saveTask", "getCollected", "saveCollected"}
       /\ tasks'[q.task] = NextVersion(q.t)
    \/ q.pc = "insertTask" /\ tasks'[q.task] = InsertedTask(q.point, q.vehicle)
    \/ q.pc = "saveVehicle" /\ vehicles'[q.vehicle] = NextVersion(q.v)
    \/ q.pc = "savePoint" /\ points'[q.point] = NextVersion(q.p)

(***************************************************************************)
(* A client can act on the answer: a success says that the change is       *)
(* stored, for a completion also when its second part failed and whatever  *)
(* ran since the first; an error says that this request changed nothing,   *)
(* in no earlier statement either, so repeating it repeats nothing.        *)
(***************************************************************************)
AnswersTrue ==
    [][\A r \in Requests : Returns(r) =>
          IF Answered(r) < 300 THEN Stored(r) ELSE UNCHANGED db /\ ~Collects(r)]_serverVars

\* What the handlers answer in their conflict cases: "concurrent modification
\* detected, please retry".  An update that finds another version is told so.
ConflictTold ==
    [][\A r \in Requests :
          Returns(r) /\ faults' = faults /\ ~CanSave(r) /\ req[r].pc # "saveCollected"
             => Answered(r) = 409]_serverVars

\* In this step the load of the point becomes, from what is stored there now,
\* what r has collected by the task as stored.
Subtracted(r) ==
    LET row == tasks[req[r].task]
        p == row.point IN
    points'[p] = NextVersion(CollectRow(points[p], row.kg, Capacity[p]))

\* Another write reached the point since r read it.
Overtaken(r) ==
    /\ req[r].pc = "saveCollected"
    /\ req[r].p.version < points[req[r].point].version

(***************************************************************************)
(* Every stored completion is subtracted from the load of its point as it  *)
(* is by then, unless a statement failed, the process was cut off, or      *)
(* another write to the point came between the read and the update of      *)
(* CompleteTask.  A graceful stop loses none, and neither does a point     *)
(* that cannot be found, which CompleteTask would ignore.                  *)
(***************************************************************************)
CollectionsAccounted ==
    [][\A r \in Requests : Collects(r) /\ ~Collects(r)' =>
          \/ Subtracted(r)
          \/ faults' # faults \/ phase' = "killed"
          \/ phase' = phase /\ Overtaken(r)]_serverVars

\* Once the server stays up, stale tasks leave, those included that the stops
\* and crashes before left behind, listed or not.
RecoversOnceUp ==
    <>[](phase = "serving") =>
        \A t \in Tasks : Stale(t) ~> tasks[t].status # "in_progress"
=============================================================================

---------------------------- MODULE Server_proofs ----------------------------
(***************************************************************************)
(* Theorems about Server: what Dispatch keeps, it keeps through stops,     *)
(* kills and restarts, and what the handlers answer is true.               *)
(***************************************************************************)
EXTENDS Server, Rows_proofs

\* What is known of the dispatch variables after every step of the server.
SInv == IInv /\ CInv

-----------------------------------------------------------------------------
(***************************************************************************)
(* To Dispatch, a step of the server is one of its own, the cancellation   *)
(* of the worker, or the end of the process.                               *)
(***************************************************************************)
LEMMA StepKinds ==
    ASSUME [ServerNext]_serverVars
    PROVE  [Next]_vars \/ Stop \/ (End /\ faults' \in {faults, faults + 1})
<1>1. Handle \/ Recover \/ LastRecovery \/ SkipRecovery \/ Pass => Next
  BY DEF Handle, Recover, LastRecovery, SkipRecovery, Pass, Next, Recovery
<1>2. Drained \/ TimeOut \/ Kill => End /\ faults' \in {faults, faults + 1}
  BY DEF Drained, TimeOut, Kill, Fault
<1>3. Restart \/ UNCHANGED serverVars => UNCHANGED vars
  BY DEF Restart, serverVars
<1> QED
  BY <1>1, <1>2, <1>3 DEF ServerNext

LEMMA CancelledList ==
    ASSUME TypeOK, Stop
    PROVE  /\ recovery'.stale \subseteq recovery.stale
           /\ \A t \in recovery'.stale : recovery'.rows[t] = recovery.rows[t]
           /\ recovery' \in [stale: SUBSET Tasks, rows: [Tasks -> TaskRow]]
<1>1. PICK list \in SUBSET recovery.stale : recovery' = Cancelled(list)
  BY DEF Stop, NextStale
<1>2. recovery.stale \subseteq Tasks /\ recovery.rows \in [Tasks -> TaskRow]
  BY DEF TypeOK
<1>3. [t \in Tasks |-> IF t \in list THEN recovery.rows[t] ELSE NoTask] \in [Tasks -> TaskRow]
  BY <1>2, EmptyRowTypes
<1> QED
  BY <1>1, <1>2, <1>3 DEF Cancelled

LEMMA StopKeeps ==
    ASSUME SInv, Stop
    PROVE  SInv'
<1>1. TypeOK /\ UNCHANGED <<tasks, vehicles, points, req, clock, faults>>
  BY DEF SInv, IInv, Stop, db
<1>2. /\ recovery'.stale \subseteq recovery.stale
      /\ \A t \in recovery'.stale : recovery'.rows[t] = recovery.rows[t]
      /\ recovery' \in [stale: SUBSET Tasks, rows: [Tasks -> TaskRow]]
  BY <1>1, CancelledList
<1>3. TypeOK'
  BY <1>1, <1>2 DEF TypeOK
<1>4. InsertsFresh'
  BY <1>1 DEF SInv, IInv, InsertsFresh
<1>5. \A r \in Requests : RequestWriteLegal(r)'
  <2>1. \A r \in Requests : RequestWriteLegal(r)
    BY DEF SInv, IInv, PendingWritesLegal
  <2> QED
    BY <1>1, <2>1 DEF RequestWriteLegal, TaskWriteLegal, VehicleWriteLegal, PointWriteLegal,
       Atomic!Starts
<1>6. \A t \in recovery'.stale : RecoveryWriteLegal(t)'
  <2>1. \A t \in recovery.stale : RecoveryWriteLegal(t)
    BY DEF SInv, IInv, PendingWritesLegal
  <2> QED
    BY <1>1, <1>2, <2>1 DEF RecoveryWriteLegal, Atomic!Recovers
<1>7. CInv'
  BY <1>1 DEF SInv, CInv, CollectedOnce, CollectionMatchesTask, Collects
<1> QED
  BY <1>3, <1>4, <1>5, <1>6, <1>7 DEF SInv, IInv, PendingWritesLegal

LEMMA EndKeeps ==
    ASSUME SInv, End, faults' \in Nat
    PROVE  SInv'
<1>1. /\ TypeOK /\ UNCHANGED <<tasks, vehicles, points, clock>>
      /\ req' = [r \in Requests |-> NoRequest] /\ recovery' = NoRecovery
  BY DEF SInv, IInv, End, db
<1>2. TypeOK'
  BY <1>1, IdleRequest, EmptyRowTypes DEF TypeOK, NoRecovery
<1>3. InsertsFresh'
  BY <1>1 DEF SInv, IInv, InsertsFresh, NoRequest
<1>4. PendingWritesLegal'
  BY <1>1 DEF PendingWritesLegal, RequestWriteLegal, NoRequest, NoRecovery
<1>5. CInv'
  BY <1>1 DEF CInv, CollectedOnce, CollectionMatchesTask, Collects, NoRequest
<1> QED
  BY <1>2, <1>3, <1>4, <1>5 DEF SInv, IInv

LEMMA SInvStep ==
    ASSUME SInv, [ServerNext]_serverVars
    PROVE  SInv'
<1>1. CASE [Next]_vars
  <2>1. IInv'
    BY <1>1, InvStep DEF SInv
  <2> QED
    BY <1>1, <2>1, CollectedOnceStep, CollectionMatchesStep DEF SInv, CInv
<1>2. CASE Stop
  BY <1>2, StopKeeps
<1>3. CASE End /\ faults' \in {faults, faults + 1}
  <2>1. faults' \in Nat
    BY <1>3 DEF SInv, IInv, TypeOK
  <2> QED
    BY <1>3, <2>1, EndKeeps
<1> QED
  BY <1>1, <1>2, <1>3, StepKinds

LEMMA SInvHolds == ServerSpec => []SInv
<1>1. ServerInit => SInv
  BY InvInit DEF ServerInit, SInv, Init, CInv, CollectedOnce, CollectionMatchesTask, Collects,
     NoRequest
<1> QED
  BY <1>1, SInvStep, PTL DEF ServerSpec

-----------------------------------------------------------------------------
(* What Dispatch promises, the server keeps. *)

\* The worker fails only tasks that are stale at that step, also with the write
\* that was under way when its context was cancelled.
THEOREM RecoversStillStale == ServerSpec => RecoversOnlyStale
<1>1. ASSUME SInv, [ServerNext]_serverVars
      PROVE  [\A t \in Tasks :
                 tasks'[t].reason = "auto-recovery" /\ tasks[t].reason # "auto-recovery"
                    => Stale(t)]_vars
  <2>1. CASE [Next]_vars
    BY <1>1, <2>1, RecoveryStep DEF SInv
  <2>2. CASE Stop \/ End
    BY <2>2 DEF Stop, End, db
  <2> QED
    BY <1>1, <2>1, <2>2, StepKinds
<1> QED
  BY <1>1, SInvHolds, PTL DEF ServerSpec, RecoversOnlyStale

\* What neither a stop nor the end of the process touches.
LEMMA TablesKept == Stop \/ End => UNCHANGED <<tasks, vehicles, points, clock>>
  BY DEF Stop, End, db

\* A stored outcome stays through stops, kills and restarts: the worker of the
\* next process does not fail what the last one completed.
THEOREM OutcomesStay == ServerSpec => OutcomeFinal
<1>1. ASSUME SInv, [ServerNext]_serverVars
      PROVE  [\A t \in Tasks : OutcomeKept(t)]_vars
  BY <1>1, OutcomeStep, TablesKept, StepKinds DEF SInv, OutcomeKept
<1> QED
  BY <1>1, SInvHolds, PTL DEF ServerSpec, OutcomeFinal

\* No collection is subtracted twice, and each is that of its task: a process
\* that ends between the two parts of a completion leaves none to the next.
THEOREM CollectionsStay == ServerSpec => [](CollectedOnce /\ CollectionMatchesTask)
  BY SInvHolds, PTL DEF SInv, CInv

\* What the rows say of each other stays true over the lives of the process: a
\* task refers to a point and a vehicle that exist, and tells a history that
\* can have happened.
THEOREM TasksStay == ServerSpec => [](ReferencesLive /\ HistoryConsistent)
<1> DEFINE RowsRight == ReferencesLive /\ HistoryConsistent
<1>1. ServerInit => RowsRight
  BY ReferencesInit, HistoryInit DEF ServerInit
<1>2. ASSUME SInv, RowsRight, [ServerNext]_serverVars
      PROVE  RowsRight'
  <2>1. CASE [Next]_vars
    BY <1>2, <2>1, ReferencesStep, HistoryStep DEF SInv
  <2>2. CASE Stop \/ End
    BY <1>2, <2>2, TablesKept DEF ReferencesLive, HistoryConsistent
  <2> QED
    BY <1>2, <2>1, <2>2, StepKinds
<1> QED
  BY <1>1, <1>2, SInvHolds, PTL DEF ServerSpec

\* With the routed operations the status of a point follows its load and the
\* driver of a vehicle its status, over the lives of the process.
THEOREM StatusesStay ==
    Ops \subseteq RoutedOps => (ServerSpec => [](StatusMatchesLoad /\ DriverMatchesStatus))
<1> SUFFICES ASSUME Ops \subseteq RoutedOps
             PROVE  ServerSpec => [](StatusMatchesLoad /\ DriverMatchesStatus)
  OBVIOUS
<1>1. ServerInit => LoadInv /\ DriverInv
  BY LoadInit, DriverInit DEF ServerInit
<1>2. ASSUME SInv, LoadInv, DriverInv, [ServerNext]_serverVars
      PROVE  LoadInv' /\ DriverInv'
  <2>1. CASE [Next]_vars
    BY <1>2, <2>1, LoadStep, DriverStep DEF SInv
  <2>2. CASE Stop \/ End
    <3>1. /\ StatusMatchesLoad' /\ DriverMatchesStatus'
          /\ req' = req \/ req' = [r \in Requests |-> NoRequest]
      BY <1>2, <2>2, TablesKept DEF LoadInv, DriverInv, StatusMatchesLoad,
         DriverMatchesStatus, Stop, End
    <3>2. NoRequest.pc = "idle"
      BY DEF NoRequest
    <3> QED
      BY <1>2, <3>1, <3>2 DEF LoadInv, DriverInv, HeldPointMatches, HeldVehicleDriven
  <2> QED
    BY <1>2, <2>1, <2>2, StepKinds
<1>3. LoadInv /\ DriverInv => StatusMatchesLoad /\ DriverMatchesStatus
  BY DEF LoadInv, DriverInv
<1> QED
  BY <1>1, <1>2, <1>3, SInvHolds, PTL DEF ServerSpec

\* Stops, kills and restarts look to a caller like lost collections at worst.
THEOREM ServerRefinement == ServerSpec => ImplementsAtomic
<1>1. ASSUME SInv, [ServerNext]_serverVars
      PROVE  [Atomic!Next]_(Atomic!vars)
  <2>1. CASE [Next]_vars
    BY <1>1, <2>1, AtomicStep DEF SInv
  <2>2. CASE Stop
    <3>1. UNCHANGED <<tasks, vehicles, points, req, clock>>
      BY <2>2 DEF Stop, db
    <3>2. Collecting' = Collecting
      BY <3>1, SameRequestsQuiet, QuietStutters
    <3> QED
      BY <3>1, <3>2 DEF Atomic!vars
  <2>3. CASE End
    <3>1. Collecting' = {}
      BY <2>3 DEF End, Collecting, Collects, NoRequest
    <3> QED
      BY <2>3, <3>1, LoseStep DEF End, db
  <2> QED
    BY <1>1, <2>1, <2>2, <2>3, StepKinds
<1>2. ServerInit => Atomic!Init
  BY AtomicInit DEF ServerInit
<1> QED
  BY <1>1, <1>2, SInvHolds, PTL DEF ServerSpec, ImplementsAtomic, Atomic!Spec

-----------------------------------------------------------------------------
(***************************************************************************)
(* Only a step of its own takes a request further while the process is up: *)
(* its next statement, or the failure of that.                             *)
(***************************************************************************)
LEMMA OwnSteps ==
    ASSUME SInv, [ServerNext]_serverVars, NEW r \in Requests, phase' = phase,
           req[r].pc # "idle", req'[r] # req[r]
    PROVE  Proceed(r) \/ Abandon(r)
<1>1. TypeOK
  BY DEF SInv, IInv
<1>2. ~UNCHANGED req
  BY <1>1
<1>3. Handle
  BY <1>1, <1>2 DEF ServerNext, Recover, Recovery, ListStale, RecoverTask, LastRecovery,
     SkipRecovery, SkipStale, Pass, Tick, Stop, Drained, TimeOut, Kill, Restart, Running,
     serverVars, vars
<1>4. PICK s \in Requests :
         TaskCall(s) \/ VehicleCall(s) \/ PointCall(s) \/ Proceed(s) \/ Abandon(s)
  BY <1>2, <1>3 DEF Handle, CreateVehicle, DeleteVehicle, CreatePoint, DeletePoint
<1>5. CASE TaskCall(s) \/ VehicleCall(s) \/ PointCall(s)
  BY <1>1, <1>5, CalledStatement, CallsOnlyHold DEF Called, TypeOK
<1>6. CASE Proceed(s) \/ Abandon(s)
  <2>1. s # r => req'[r] = req[r]
    BY <1>1, <1>6 DEF TypeOK, Proceed, Abandon, SaveTask, SaveCompleted, GetCollected,
       SaveCollected, GetTaskVehicle, InsertTask, SaveVehicle, SavePoint, Return
  <2> QED
    BY <1>1, <1>6, <2>1
<1> QED
  BY <1>4, <1>5, <1>6

-----------------------------------------------------------------------------
(* Collections: what becomes of the second part of a completion. *)

\* The task of a collection is stored, and its point and the request's are one.
LEMMA CollectedTask ==
    ASSUME SInv, NEW r \in Requests, Collects(r)
    PROVE  LET t == req[r].task IN
           /\ t \in Tasks /\ tasks[t].live
           /\ tasks[t].point \in Points
           /\ tasks[t].point = req[r].t.point /\ tasks[t].kg = req[r].t.kg
<1> DEFINE t == req[r].task
<1>1. TypeOK /\ t \in Tasks /\ Refers(req[r].t) /\ req[r].t \in TaskRow
  BY DEF SInv, IInv, TypeOK, Collects, NamesRows, Request
<1>2. tasks[t] = NextVersion(req[r].t) /\ tasks[t].status = "completed"
  BY DEF SInv, CInv, CollectionMatchesTask
<1>3. tasks[t].point = req[r].t.point /\ tasks[t].kg = req[r].t.kg
  BY <1>1, <1>2 DEF NextVersion, TaskRow
<1>4. tasks[t].live
  BY <1>1, <1>2, EmptyTaskScheduled DEF SInv, IInv, InsertsFresh
<1> QED
  BY <1>1, <1>3, <1>4 DEF Refers

\* The update lands on the row that was read, or finds a later version.
LEMMA CollectionSaved ==
    ASSUME SInv, ReferencesLive, NEW r \in Requests, SaveCollected(r)
    PROVE  Subtracted(r) \/ Overtaken(r)
<1> DEFINE t == req[r].task
           p == req[r].point
<1>1. /\ TypeOK /\ req[r].pc = "saveCollected" /\ Collects(r)
      /\ p \in Points /\ p = tasks[t].point
  BY DEF SInv, IInv, CInv, TypeOK, NamesRows, SaveCollected, Collects, CollectionMatchesTask
<1>2. CASE CanSavePoint(r)
  <2>1. points'[p] = NextVersion(req[r].p)
    BY <1>1, <1>2 DEF SaveCollected, WritePoint, TypeOK
  <2>2. req[r].p = CollectRow(points[p], tasks[t].kg, Capacity[p])
    BY <1>1, <1>2 DEF CanSavePoint, SInv, CInv, CollectionMatchesTask
  <2> QED
    BY <1>1, <2>1, <2>2 DEF Subtracted
<1>3. CASE ~CanSavePoint(r)
  <2>1. points[p].live
    BY <1>1, CollectedTask DEF ReferencesLive
  <2>2. points[p].version # req[r].p.version
    BY <1>3, <2>1 DEF CanSavePoint, SameVersion
  <2>3. req[r].p.version <= points[p].version
    BY <1>1 DEF SInv, IInv, PendingWritesLegal, RequestWriteLegal, PointWriteLegal
  <2>4. req[r].p.version \in Nat /\ points[p].version \in Nat
    BY <1>1 DEF TypeOK, Request, PointRow
  <2> QED
    BY <1>1, <2>2, <2>3, <2>4 DEF Overtaken
<1> QED
  BY <1>2, <1>3

\* A stored completion is subtracted from the load of its point unless something
\* failed, the process was cut off, or another write to the point came between.
THEOREM CollectionsEnd == ServerSpec => CollectionsAccounted
<1>1. ASSUME SInv, ReferencesLive, [ServerNext]_serverVars
      PROVE  [\A r \in Requests : Collects(r) /\ ~Collects(r)' =>
                 \/ Subtracted(r)
                 \/ faults' # faults \/ phase' = "killed"
                 \/ phase' = phase /\ Overtaken(r)]_serverVars
  <2> SUFFICES ASSUME NEW r \in Requests, Collects(r), ~Collects(r)',
                      faults' = faults, phase' # "killed"
               PROVE  Subtracted(r) \/ (phase' = phase /\ Overtaken(r))
    OBVIOUS
  <2>1. TypeOK /\ req[r].pc # "idle" /\ req'[r] # req[r]
    BY <1>1 DEF SInv, IInv, Collects
  <2>2. phase' = phase
    <3>1. ~Drained /\ ~TimeOut /\ ~Kill
      BY <2>1 DEF Drained, TimeOut, Kill
    <3>2. ~Stop /\ ~Restart
      BY <2>1 DEF Stop, Restart, vars
    <3> QED
      BY <1>1, <3>1, <3>2 DEF ServerNext, Handle, Recover, LastRecovery, SkipRecovery, Pass,
         process, serverVars
  <2>3. Proceed(r)
    BY <1>1, <2>1, <2>2, OwnSteps DEF Abandon, Fault, TypeOK
  <2>4. GetCollected(r) \/ SaveCollected(r)
    BY <2>3 DEF Proceed, SaveTask, SaveCompleted, GetTaskVehicle, InsertTask, SaveVehicle,
       SavePoint, Collects
  <2>5. ~GetCollected(r)
    <3>1. points[req[r].t.point].live
      BY <1>1, CollectedTask DEF ReferencesLive
    <3>2. ASSUME GetCollected(r) PROVE req'[r].pc = "saveCollected"
      <4>1. /\ req \in [Requests -> Request] /\ req[r] \in Request
            /\ req' = [req EXCEPT ![r] =
                          [@ EXCEPT !.pc = "saveCollected", !.point = req[r].t.point,
                                    !.p = CollectRow(points[req[r].t.point], req[r].t.kg,
                                                     Capacity[req[r].t.point])]]
        BY <2>1, <3>1, <3>2 DEF GetCollected, TypeOK
      <4> QED
        BY <4>1 DEF Request
    <3> QED
      BY <3>2 DEF Collects
  <2> QED
    BY <1>1, <2>2, <2>4, <2>5, CollectionSaved
<1>2. ServerSpec => []ReferencesLive
  BY TasksStay, PTL
<1> QED
  BY <1>1, <1>2, SInvHolds, PTL DEF ServerSpec, CollectionsAccounted

-----------------------------------------------------------------------------
(* Answers *)

LEMMA ReturnSteps ==
    ASSUME SInv, [ServerNext]_serverVars, NEW r \in Requests, Returns(r)
    PROVE  Proceed(r) \/ Abandon(r)
  BY OwnSteps DEF Returns

\* A failed statement changes no row, and the requests that answer with success
\* all the same have stored their completion before.
LEMMA FailureAnswered ==
    ASSUME SInv, NEW r \in Requests, Abandon(r)
    PROVE  IF Answered(r) < 300 THEN Stored(r) ELSE UNCHANGED db /\ ~Collects(r)
<1>1. UNCHANGED db /\ faults' # faults
  BY DEF Abandon, Fault, SInv, IInv, TypeOK
<1>2. Answered(r) = FailedAnswer(r)
  BY <1>1 DEF Answered
<1>3. CASE Collects(r)
  <2>1. tasks'[req[r].task] = NextVersion(req[r].t)
    BY <1>1, <1>3, CollectingTask DEF SInv, db
  <2>2. Stored(r)
    BY <1>3, <2>1 DEF Stored, Collects
  <2> QED
    BY <1>2, <1>3, <2>2 DEF FailedAnswer
<1>4. CASE ~Collects(r)
  BY <1>1, <1>2, <1>4 DEF FailedAnswer
<1> QED
  BY <1>3, <1>4

\* The update of a task row: stored, or refused as a conflict.
LEMMA TaskAnswered ==
    ASSUME SInv, NEW r \in Requests, Returns(r), SaveTask(r) \/ SaveCompleted(r)
    PROVE  IF Answer(r) < 300 THEN Stored(r) ELSE UNCHANGED db /\ ~Collects(r)
<1>1. /\ TypeOK /\ req[r].pc \in {"saveTask", "saveCompleted"} /\ ~Collects(r)
      /\ UNCHANGED <<vehicles, points>>
  BY DEF SInv, IInv, SaveTask, SaveCompleted, Collects
<1>2. CASE CanSave(r)
  <2>1. SameVersion(tasks[req[r].task], req[r].t)
    BY <1>1, <1>2 DEF CanSave
  <2>2. SaveTask(r)
    <3>1. ASSUME SaveCompleted(r) PROVE FALSE
      <4>1. req \in [Requests -> Request] /\ req[r] \in Request
        BY <1>1 DEF TypeOK
      <4>2. req' = [req EXCEPT ![r].pc = "getCollected"]
        BY <2>1, <3>1 DEF SaveCompleted
      <4>3. req'[r].pc = "getCollected"
        BY <4>1, <4>2 DEF Request
      <4> QED
        BY <4>3 DEF Returns
    <3> QED
      BY <3>1
  <2>3. tasks'[req[r].task] = NextVersion(req[r].t) /\ req[r].pc = "saveTask"
    BY <1>1, <2>1, <2>2 DEF SaveTask, TypeOK, NamesRows
  <2>4. Answer(r) = 200 /\ Stored(r)
    BY <1>2, <2>3 DEF Answer, Stored
  <2> QED
    BY <2>4
<1>3. CASE ~CanSave(r)
  <2>1. ~SameVersion(tasks[req[r].task], req[r].t)
    BY <1>1, <1>3 DEF CanSave
  <2>2. UNCHANGED db
    BY <1>1, <2>1 DEF SaveTask, SaveCompleted, db
  <2>3. Answer(r) = 409
    BY <1>1, <1>3 DEF Answer, ConflictAnswer
  <2> QED
    BY <1>1, <2>2, <2>3
<1> QED
  BY <1>2, <1>3

LEMMA VehicleAnswered ==
    ASSUME SInv, NEW r \in Requests, SaveVehicle(r)
    PROVE  IF Answer(r) < 300 THEN Stored(r) ELSE UNCHANGED db /\ ~Collects(r)
<1>1. TypeOK /\ req[r].pc = "saveVehicle" /\ ~Collects(r) /\ UNCHANGED <<tasks, points>>
  BY DEF SInv, IInv, SaveVehicle, Collects
<1>2. CASE CanSave(r)
  <2>1. SameVersion(vehicles[req[r].vehicle], req[r].v)
    BY <1>1, <1>2 DEF CanSave
  <2>2. vehicles'[req[r].vehicle] = NextVersion(req[r].v)
    BY <1>1, <2>1 DEF SaveVehicle, TypeOK, NamesRows
  <2>3. Answer(r) = 200 /\ Stored(r)
    BY <1>1, <1>2, <2>2 DEF Answer, Stored
  <2> QED
    BY <2>3
<1>3. CASE ~CanSave(r)
  <2>1. UNCHANGED db
    BY <1>1, <1>3 DEF SaveVehicle, CanSave, db
  <2>2. Answer(r) = 500
    BY <1>1, <1>3 DEF Answer, ConflictAnswer
  <2> QED
    BY <1>1, <2>1, <2>2
<1> QED
  BY <1>2, <1>3

LEMMA PointAnswered ==
    ASSUME SInv, NEW r \in Requests, SavePoint(r)
    PROVE  IF Answer(r) < 300 THEN Stored(r) ELSE UNCHANGED db /\ ~Collects(r)
<1>1. TypeOK /\ req[r].pc = "savePoint" /\ ~Collects(r) /\ UNCHANGED <<tasks, vehicles>>
  BY DEF SInv, IInv, SavePoint, Collects
<1>2. CASE CanSave(r)
  <2>1. CanSavePoint(r)
    BY <1>1, <1>2 DEF CanSave
  <2>2. points'[req[r].point] = NextVersion(req[r].p)
    BY <1>1, <2>1 DEF SavePoint, WritePoint, TypeOK, NamesRows
  <2>3. Answer(r) = 200 /\ Stored(r)
    BY <1>1, <1>2, <2>2 DEF Answer, Stored
  <2> QED
    BY <2>3
<1>3. CASE ~CanSave(r)
  <2>1. UNCHANGED db
    BY <1>1, <1>3 DEF SavePoint, WritePoint, CanSave, db
  <2>2. Answer(r) = 409
    BY <1>1, <1>3 DEF Answer, ConflictAnswer
  <2> QED
    BY <1>1, <2>1, <2>2
<1> QED
  BY <1>2, <1>3

\* CreateTask: refused for its vehicle, or inserted unless a reference is gone.
LEMMA CreateAnswered ==
    ASSUME SInv, NEW r \in Requests, Returns(r), GetTaskVehicle(r) \/ InsertTask(r)
    PROVE  IF Answer(r) < 300 THEN Stored(r) ELSE UNCHANGED db /\ ~Collects(r)
<1>1. TypeOK /\ req[r].pc \in {"getVehicle", "insertTask"} /\ ~Collects(r)
  BY DEF SInv, IInv, GetTaskVehicle, InsertTask, Collects
<1>2. Answer(r) = CreateAnswer(r)
  <2>1. CanSave(r)
    BY <1>1 DEF CanSave
  <2> QED
    BY <1>1, <2>1 DEF Answer
<1>3. CASE GetTaskVehicle(r)
  <2>1. UNCHANGED db /\ req[r].pc = "getVehicle"
    BY <1>3 DEF GetTaskVehicle
  <2>2. CreateAnswer(r) \in {422, 500}
    BY <2>1 DEF CreateAnswer
  <2> QED
    BY <1>1, <1>2, <2>1, <2>2
<1>4. CASE InsertTask(r)
  <2> DEFINE found == points[req[r].point].live /\ vehicles[req[r].vehicle].live
  <2>1. req[r].pc = "insertTask" /\ UNCHANGED <<vehicles, points>> /\ req[r].task \in Tasks
    BY <1>1, <1>4 DEF InsertTask, TypeOK, NamesRows
  <2>2. CASE found
    <3>1. tasks'[req[r].task] = InsertedTask(req[r].point, req[r].vehicle)
      BY <1>1, <1>4, <2>1, <2>2 DEF InsertTask, TypeOK
    <3>2. Stored(r) /\ CreateAnswer(r) = 201
      BY <2>1, <2>2, <3>1 DEF Stored, CreateAnswer
    <3> QED
      BY <1>2, <3>2
  <2>3. CASE ~found
    <3>1. UNCHANGED db
      BY <1>4, <2>1, <2>3 DEF InsertTask, db
    <3>2. CreateAnswer(r) = 500
      BY <2>1, <2>3 DEF CreateAnswer
    <3> QED
      BY <1>1, <1>2, <3>1, <3>2
  <2> QED
    BY <2>2, <2>3
<1> QED
  BY <1>3, <1>4

\* The second part of a completion is answered with success in every case, and
\* the completion is still stored.
LEMMA CollectionAnswered ==
    ASSUME SInv, NEW r \in Requests, GetCollected(r) \/ SaveCollected(r)
    PROVE  IF Answer(r) < 300 THEN Stored(r) ELSE UNCHANGED db /\ ~Collects(r)
<1>1. /\ req[r].pc \in {"getCollected", "saveCollected"} /\ Collects(r)
      /\ UNCHANGED tasks
  BY DEF GetCollected, SaveCollected, Collects, db
<1>2. Answer(r) = 200
  BY <1>1 DEF Answer, CanSave, ConflictAnswer
<1>3. tasks'[req[r].task] = NextVersion(req[r].t)
  BY <1>1, CollectingTask DEF SInv
<1> QED
  BY <1>1, <1>2, <1>3 DEF Stored

\* A success says that the change is stored; an error, that the request has
\* changed nothing.
THEOREM AnswersHold == ServerSpec => AnswersTrue
<1>1. ASSUME SInv, [ServerNext]_serverVars
      PROVE  [\A r \in Requests : Returns(r) =>
                 IF Answered(r) < 300 THEN Stored(r)
                                      ELSE UNCHANGED db /\ ~Collects(r)]_serverVars
  <2> SUFFICES ASSUME NEW r \in Requests, Returns(r)
               PROVE  IF Answered(r) < 300 THEN Stored(r) ELSE UNCHANGED db /\ ~Collects(r)
    OBVIOUS
  <2>1. CASE Abandon(r)
    BY <1>1, <2>1, FailureAnswered
  <2>2. CASE Proceed(r)
    <3>1. Answered(r) = Answer(r)
      BY <2>2 DEF Proceed, SaveTask, SaveCompleted, GetCollected, SaveCollected,
         GetTaskVehicle, InsertTask, SaveVehicle, SavePoint, Answered
    <3> QED
      BY <1>1, <2>2, <3>1, TaskAnswered, VehicleAnswered, PointAnswered, CreateAnswered,
         CollectionAnswered DEF Proceed
  <2> QED
    BY <1>1, <2>1, <2>2, ReturnSteps
<1> QED
  BY <1>1, SInvHolds, PTL DEF ServerSpec, AnswersTrue
=============================================================================

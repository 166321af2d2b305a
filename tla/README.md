# waste-dispatch: formal model

TLA+ modules for the waste-dispatch server (Go, Gin, SQLite): the dispatch core
(tasks, vehicles, points, recovery worker), the server process around it, the
residents' credits, the incidents with their worker, and the sessions. TLC checks
small instances; TLAPS proves the main safety properties for every value of the
constants.

1. [The system](#1-the-system)
2. [From code to model](#2-from-code-to-model)
3. [Modules](#3-modules)
4. [Runs](#4-runs)
5. [Proofs](#5-proofs)
6. [Disagreements between code and text](#6-disagreements-between-code-and-text)
7. [What is not modelled](#7-what-is-not-modelled)
8. [Plan](#8-plan)

To repeat the work, in this directory:

    tlc -workers 2 -config MCDispatch_all.cfg MCDispatch.tla
    tlapm Dispatch_proofs.tla

The configurations of a run are named after it: `MC<module>_<run>.cfg`. Each
passing run takes at most a minute or two on two cores.

## 1. The system

`src/cmd/server/main.go` opens one SQLite database, runs the migrations, builds
repositories and services, starts two worker goroutines and an HTTP server.
Each HTTP request is a goroutine. All of them share nothing but the database.

| component | code under `src/internal` | state | operations |
|---|---|---|---|
| collection tasks | `domain/collection_task.go`, `service/task_service.go`, `repository/sqlite/task_repo.go` | table `collection_tasks`, with a `version` | CreateTask, StartTask, CompleteTask, FailTask, CancelTask, RecoverStale |
| vehicles | `domain/vehicle.go`, `service/vehicle_service.go`, `repository/sqlite/vehicle_repo.go` | table `vehicles`, with a `version` | CreateVehicle, AssignDriver, ReleaseVehicle, UpdateStatus (no route), DeleteVehicle |
| collection points | `domain/collection_point.go`, `service/point_service.go`, `repository/sqlite/point_repo.go` | table `collection_points`, with a `version` | CreatePoint, UpdateLoad, UpdateStatus (no route), DeletePoint |
| task recovery worker | `worker/task_recovery_worker.go` | its list of stale tasks during a tick | fails tasks in progress for longer than `staleAge` |
| resident credits | `domain/credit.go`, `service/credit_service.go`, `repository/sqlite/credit_repo.go` | tables `resident_credits` (versioned) and `credit_transactions` (unique key) | GetBalance, EarnCredit, RedeemCredit |
| incidents | `domain/incident.go`, `service/incident_service.go`, `repository/sqlite/incident_repo.go` | table `incidents`; its `version` is counted and never compared | ReportIncident, AssignIncident, ResolveIncident, CloseIncident (no route) |
| incident worker | `worker/incident_worker.go` | its list of points during a tick | reports an overflow for points at or over the threshold |
| sessions and users | `service/auth_service.go`, `middleware/auth.go`, `httpapi/handler/auth_handler.go`, `repository/sqlite/session_repo.go`, `user_repo.go` | tables `users`, `sessions` (no version); the goroutines that write `last_seen_at` | Register, Login, ValidateToken, Logout; without a caller: RevokeAllForUser, DeleteExpired, Update and Delete of a user |
| audit log | `audit/auditor.go` | table `audit_logs` | none is called |
| SQLite storage | `storage/sqlite/db.go`, `src/migrations` | the file | statements, migrations |
| server process | `src/cmd/server/main.go` | whether it serves, drains or has ended | start, signal, shutdown with a timeout |
| routes and handlers | `httpapi` | none | routing, binding, the answer to each outcome |
| configuration, envelopes, request ids, logger | `config`, `httpapi/response`, `middleware` | none | read once; formatting |

**Interaction.** A handler calls one service operation. A service issues single
SQL statements and nothing wraps two of them in a transaction, so any other
handler, or a worker, may run between two statements of one operation. What
protects a row is the *version*: an operation reads the row, changes it in
memory, and writes it with `UPDATE ... WHERE id = ? AND version = ?`. Incidents
are the exception. Tasks refer to a point and a vehicle by foreign key;
completing a task writes the point in a second statement. The workers share the
tables with the handlers; the recovery worker goes through the task service,
the incident worker reads loads and inserts incidents. Each request passes the
session middleware first, which starts a goroutine of its own for the last-seen
write and waits for nothing. On a signal `main` cancels the workers, without
waiting for them, and then shuts the HTTP server down, which waits for the
handlers until a timeout.

**Hard behaviours.** The interleavings of statements; a list or a row that is
old when it is used; a second statement that conflicts or fails after the first
one succeeded; a crash between two statements; a caller's retry; the liveness
of the workers when writes fail; a shutdown in the middle of a worker's list or
of a request; an answer that does not say what was stored; a background write
after its session ended; a load or a balance at its boundary; legal sequences of
calls that lead to an odd row. `PROJECT.json` lists them with their lines.

**What makes each component correct.**

- *Tasks*: no late write changes an outcome; the row tells a possible history; a task's
  collection is subtracted once and with the weight that was stored; the worker
  fails only what is stale at that moment, and does so eventually; a task never
  refers to a row that is gone.
- *Vehicles, points*: the status follows from the driver, respectively the
  load, whatever operations overlap.
- *Credits*: a key is applied once; by a caller that keeps it to itself again only
  after a failure, and once for each; a balance is never overdrawn; balances
  agree with the recorded transactions.
- *Incidents*: rows are whole; what was taken up does not become open again; an
  overflow is reported, and not again while it is open.
- *Sessions*: what was revoked, has expired or was deleted is never usable again,
  whatever is still written to the row; a session has a user; who logs out is
  logged out.
- *Server*: every stored completion is subtracted from its point, or a fault, a
  cut-off or another write to the point accounts for it, so a graceful stop loses
  none; after a restart the worker finds what the last one left; an answer is true
  of the tables.

## 2. From code to model

- **One action is one SQL statement** with the Go code up to the next one. A
  SQLite statement is atomic, and between statements a goroutine touches only
  its own memory. The first action of an operation is its first `SELECT`, with
  the checks that follow it; a call that this refuses changes nothing and is no
  step. Errors are where an action returns without writing.
- **A request** is a record in `req`: the next statement (`pc`) and the row held
  in memory. A request holds one operation at a time.
- **A table** is a function from ids to rows (incidents: the sequence of rows in
  the order of `created_at`). Ids are UUIDs and never come back, so a deleted
  row keeps its version and is only no longer `live`. An incident's `created_at`
  is read before the statement that inserts it, so its place in the sequence is
  taken first and it becomes `live` later; equal times and a clock that is set back
  are left out.
- **Columns** no decision depends on are dropped. Weights and loads are naturals
  where the code has floats: the code compares, subtracts and clamps them.
  Credits keep their width: `MaxCredit` stands for the largest `int64` and
  `Plus` wraps around. Failure reasons are kept apart only by their origin.
  `started_at` is compared as text by the database, in a format that orders as the
  times do at least down to the second; the model has whole ticks.
- **Failures.** `Abandon` is a statement that fails (or a request whose context
  is cancelled) and ends the operation where it is; `SkipStale` and `SkipPoint`
  are the same for a worker, which goes on with its list; `Crash` (in `Server`:
  `Kill`) loses all requests and lists and keeps the tables. `MaxFaults` bounds
  them together.
- **Callers** may call any operation with any arguments the routes let through,
  at any time, and again after a failure.

| code | `Dispatch` |
|---|---|
| `StartTask`, `FailTask`, `CancelTask` | action of that name, then `SaveTask` |
| `CompleteTask` | `CompleteTask`, `SaveCompleted`, `GetCollected`, `SaveCollected` |
| `CreateTask` | `CreateTask` (point), `GetTaskVehicle`, `InsertTask` |
| `AssignDriver`, `ReleaseVehicle`, vehicle `UpdateStatus` | `AssignDriver`, `ReleaseVehicle`, `UpdateVehicleStatus`, then `SaveVehicle` |
| `UpdateLoad`, point `UpdateStatus` | `UpdateLoad`, `UpdatePointStatus`, then `SavePoint` |
| create and delete of vehicles and points | one action each; the foreign keys refuse to delete a row in use |
| `RecoverStale` | `ListStale`, then `RecoverTask` for each, oldest start first |

| code | `Server` |
|---|---|
| `signal.Notify`, `cancelWorkers` | `Stop`: the worker keeps at most the statement under way |
| a worker's context is cancelled | `LastRecovery` (that statement takes effect) or `SkipRecovery` |
| `httpServer.Shutdown` | `Drained` (no request in progress) or `TimeOut` (`ShutdownTimeout` is over) |
| `main` returns | `End`: memory is gone, the tables stay |
| the process is killed; started | `Kill`; `Restart` |
| handlers of tasks, vehicles, points | `Answer` for each outcome of the last statement, `FailedAnswer` when it fails |

While the server drains, a connection that was accepted before may still bring
a call, so `Handle` goes on. Handlers compare errors with `==`, so what a service
has wrapped is answered as an internal error; `ConflictAnswer` and `CreateAnswer`
follow that.

| code | `Credits` |
|---|---|
| `EarnCredit`, `RedeemCredit` | `CheckKey`, `GetAccount` (and `CreateAccount`, `ReRead`), `UpdateBalance`, `RecordTransaction` |
| `GetBalance` | `GetBalance`, `CreateAccount`, `ReRead`; no step when the account exists |

| code | `Incidents` |
|---|---|
| `ReportIncident` | `Report` (`created_at` is taken), `InsertIncident` |
| `AssignIncident`, `ResolveIncident`, `CloseIncident` | action of that name, then `SaveIncident` |
| `checkOverflows` | `ListOver`, then for each point `CheckPoint` and, when no overflow is listed, `ReportOverflow`, `InsertOverflow` |
| the loads of the points | `LoadChanges`: any point crosses the threshold at any time |

| code | `Sessions` |
|---|---|
| `Register` | `Register` |
| `Login` | `Login` (the user is read), `InsertSession` |
| `Auth` middleware, `ValidateToken` | `GetSession`, `GetUser`; then the goroutine, `UpdateLastSeen` or `SkipLastSeen` |
| `Logout` | after the middleware: `GetLoggedOut`, `Revoke` |
| repository operations no service calls | `RevokeAllForUser`, `DeleteExpired`, `UpdateUser`, `DeleteUser`, at any time |

## 3. Modules

- **`DispatchRows`**: the rows of tasks, vehicles and points, the domain methods
  that change one row in memory (`StartRow`, `CompleteRow`, `CollectRow`, ...),
  the transition tables and the version check. Pure operators, used by the next
  two modules.
- **`AtomicDispatch`**: the abstract specification. Every operation takes effect
  in one step on the rows as they are at that step, a task is failed by recovery
  only while stale, a row in use is never deleted. It has one weakness, because
  the code has it: the load of a completed task leaves its point in a later step
  (`CollectLoad`) or is lost (`LoseCollections`); `collecting` holds the tasks
  whose collection is still open, and each enters and leaves it once.
- **`Dispatch`**: the services and the recovery worker statement by statement.
  Implements `AtomicDispatch` with `collecting <- Collecting`, the tasks of
  requests between the two writes of `CompleteTask`.
- **`Credits`**: the credit service. `writes` is a history variable that counts
  the balance writes made for each key.
- **`Incidents`**: the incident service and its worker. Concurrent reports may be
  inserted in another order than the one they are listed in. Loads are an
  environment (`over`), because the worker only asks which points are over.
- **`Server`**: EXTENDS `Dispatch` with the life of the process: a signal, a
  shutdown that drains or times out, a sudden end, a restart; and with what the
  handlers answer. It composes handlers, recovery worker and process; a crash is
  no longer a step of its own but `Kill` and, perhaps, `Restart`.
- **`Sessions`**: the auth service, its middleware and handler, and the
  goroutines they leave behind. The spellings of the header's scheme are kept because two
  pieces of code read it by two rules.
- **`MCDispatch`, `MCServer`, `MCCredits`, `MCIncidents`, `MCSessions`**: constants
  and symmetry for TLC.
- **`Dispatch_proofs`, `Rows_proofs`, `Server_proofs`**: the theorems about
  dispatch: what is written and when; what the columns of one row say together;
  and the same over the lives of the process. Each builds on the one before.
- **`Credits_proofs`, `CreditLedger_proofs`**: the theorems about one balance
  write, and those that relate the balances to the recorded transactions.
- **`Sums_proofs`**: sums over finite sets, `SumFunctionOnSet` of the module
  `Functions`. About no component; used by `CreditLedger_proofs`.
- **`Incidents_proofs`, `Sessions_proofs`**: the theorems of these components.

The comments `Mutant:` mark broken variants of a definition. Put in place of the
definition that follows, each makes TLC report the property that `PROJECT.json`
pairs it with, so no property holds merely by the shape of the model.

**Fairness.** The two workers are weakly fair: each is a goroutine with a ticker
that runs until its context is cancelled, goes on to the next row when one fails,
and SQLite's busy timeout makes a statement end. Nothing more is assumed: a
handler may hang in any statement, no property waits for a shutdown to end (which
`ShutdownTimeout` sees to), and nothing makes a client call, a load change, time pass, a fault happen or anyone start the server
again.

## 4. Runs

Passing runs:

| run | what it asks |
|---|---|
| `all` | Every operation of the services and the recovery worker, with time and a fault. `PendingWritesLegal`: what the version column is for, a held write is legal whenever it would land. `HistoryConsistent`: a row tells one possible history, although the transition table would let a failed task be scheduled again. `OutcomeFinal`: no late write changes a completed or cancelled task, and a failed one changes at most by being scheduled again, as the table and its test have it. `ImplementsAtomic`: the refinement. |
| `routed` | The operations the server routes, on two tasks, a point and a vehicle. `CollectedOnce`, `CollectionMatchesTask`: racing completions subtract one collection, the stored one. `StatusMatchesLoad`, `DriverMatchesStatus`: columns that are set together stay together. `ReferencesLive`: deletions that run between the checks of `CreateTask` and its insert. |
| `server` | Requests, the recovery worker, a signal, a kill and restarts. `AnswersTrue`: a success is stored, an error changed nothing in any statement. `CollectionsAccounted`: each stored completion is subtracted from the load its point has by then; what is lost is lost to a fault, to a process that was cut off, or to another write that reached the point between its read and its update, and to nothing else, a graceful stop included. `RecoversOnlyStale`: what the worker fails is stale when it is failed, not only when it was listed. `RecoversOnceUp`: once the server stays up, every stale task leaves `in_progress`, those that stops and kills left behind included. |
| `keys` | One caller has a key of its own and one that both share, with a fault. `RetriesBounded`: the own key changes the balance once, and once more for each fault at most, although its caller repeats the call at will. `Reconciled`: the balance is the sum of the transactions as long as each key was applied once and nothing failed. `NeverOverdrawn`. `EntriesBacked`: no transaction without a write. `LandsOnStored`: a write that lands was decided on the balance it replaces. `AccountsKept`: racing creations reset nothing. |
| `incidents` | Two updates that overwrite each other, users that report, and the worker, with a fault. `RowsWhole`: no mixture of two updates. `NeverReopened`: a stale update can undo a resolution, and never makes an incident open. `RepeatsExplained`: the only way to a repeated report is a later incident of another type, whatever order the rows were inserted in. `OverflowReported`: a point that stays over the threshold gets an open overflow. |
| `sessions` | Logins, logouts, last-seen writes, revocations, deletions of sessions and users. `StaysOver`: a session that is over stays over, whatever is still written to it. `SessionsOwned`: a login that races the deletion of its user leaves no orphan. `LogoutSettles`: a logout with the documented header leaves its session over, whatever it races with and whatever it answers, unless a statement fails. |

`TypeOK` is checked once per component (`all`, `keys`, `incidents`, `sessions`); the
two variables `Server` adds take their values from the guards.

Runs that show a disagreement, see section 6: `loses`, `conflict`, `race`,
`overflow`, `repeat`, `logout`.

**Bounds.**

- *Requests*: two, as each hazard of this code is a race of two operations, or of
  one with a worker. `repeat` and `overflow` need one.
- *Tasks, points, vehicles*: two tasks where a worker's list or two collections
  at one point matter (`routed`, `server`), one in the widest run. Rows of
  vehicles and points do not depend on each other, so one of each.
- *Operations*: `all` has all; `server` one of each shape (`StopRunOps`): an insert
  that refers to rows, a task write with and without a second part, a vehicle
  write, a point write, and the inserts and deletions they meet. What differs
  between operations of one shape is covered by `all` and `routed`.
- *Loads and weights*: `Capacity` is 2 and weights are up to 2, so a load is
  below, at and, by a collection of more than was recorded, clamped.
- `MaxVersion` bounds the writes to a vehicle or a point: 2 or 3 leave room for a
  read, a write in between and the refused write. A collection is not bounded by
  it.
- `MaxTime` and `StaleAge`: 2 and 1 in `all`, so that a task becomes stale, is
  listed, and changes after that; 1 and 0 in `server`, where a task is stale one
  tick after its start.
- `MaxFaults`: one failed statement or sudden end at any point. `MaxStops`: one
  signal; with the kill there are two restarts.
- `MaxCredit`: 31 in `keys`, more than the calls can earn, so that nothing wraps
  there; 3 in `overflow`, where it has to.
- `MaxIncidents`: two racing updates need one or two incidents, so 2 in
  `incidents`; a repeated report takes an overflow, an incident of another type
  and the overflow again, so 3 in `repeat`.
- `sessions`: two users that share a name one after the other, two tokens, two
  requests. With `Expiry` and `Retention` 0 and `MaxTime` 1 a session expires, and
  a revoked one may be deleted, a tick later.
- *Symmetry*: requests and ids of a table are interchangeable; it is not used in
  the runs with liveness (`server`, `incidents`).

`CHECK_DEADLOCK FALSE` everywhere: a run ends when the clock, the faults and the
versions have reached their bounds, and a server with nothing to do waits.

## 5. Proofs

All theorems hold for every set of ids, requests, callers, amounts and
operations. They assume only the named `ASSUME`s: `None` is no id, weights and
loads are not negative, a capacity and an amount are positive, ids of drivers,
users and resolutions are not empty, times and bounds are naturals, and the
middleware accepts the two spellings of the scheme. Each is what the routes
refuse, what UUIDs give, or what the configuration can hold. A theorem that needs
more says so in its statement: that only routed operations are called, or that
no earning wraps (`EarnAdds`).

**Dispatch.** The inductive invariant is
`IInv == TypeOK /\ InsertsFresh /\ PendingWritesLegal`. The conjuncts need each
other: a held write says nothing about the stored row except while the version
it read is stored, so the step that stores it is legal only by
`PendingWritesLegal`; that this is kept needs that every other write raises the
version of its row (`StepAdvances`), which an insert does only into an unused id
(`InsertsFresh`, which is what UUIDs give and no result of its own). From it follow
`TypeCorrect` and `WritesLegal`; the action properties `OutcomesFinal` and
`RecoveryOfStale` (a write that lands is legal, and no legal write starts from an
outcome, or fails what is not stale); and `NoDanglingTask`, where the foreign keys
are needed.
`CInv == CollectedOnce /\ CollectionMatchesTask` is inductive relative to `IInv`:
a completion lands only over a task in progress, and who collects holds a task
that is completed and stays so (`NoDoubleCollection`, `CollectionsMatch`).
`Refinement` then maps every step: a call or a refused write is a stutter, a write
that lands is its atomic operation, and a request that ends between the two
writes of a completion loses its collection.

**Rows.** `HistoryTrue`: although the transition table lets a failed task be
scheduled again, no operation uses that, and each legal write adds to the
history what it did (`LegalTells`); a start is read from a clock that does not go
back. `StatusFollowsLoad` and `DriverFollowsStatus` assume
`Ops \subseteq RoutedOps`: the service operations `UpdatePointStatus` and
`UpdateVehicleStatus`, which no route offers, set a status alone. The columns of a
table row agree only if those of the rows held in memory do, so the inductive
invariants `LoadInv` and `DriverInv` say it of both.

**Server.** `SInv == IInv /\ CInv`. A step of the server is, to `Dispatch`, one of
its own steps, or the cancellation of the worker, which only shortens its list
(`StopKeeps`), or the end of the process, which only empties memory (`EndKeeps`).
So the proofs of `Dispatch` carry over: `RecoversStillStale`, `ServerRefinement`,
`OutcomesStay`, `CollectionsStay`, `TasksStay` and, for the routed operations,
`StatusesStay`. `CollectionsEnd` follows a completion to its last statement. There
the stored task is the one the request holds (`CollectedTask`), so its point exists
(`ReferencesLive`), and the point is either the row that was read, and the write
is the collection (`CollectionSaved`), or another write has come between.
`AnswersHold` needs both conjuncts: a handler returns in a call's last statement
(`ReturnSteps`), and for each kind of statement (`TaskAnswered`,
`CreateAnswered`, ...) a success has stored the row. A completion answers
success after its second part whatever happened to that, so there the lemma
`CollectingTask` is needed: the task is still stored as this request completed it.

**Credits.** `Inv == TypeOK /\ HeldCurrent /\ Created`, where `HeldCurrent` is the
same idea as above: while the version it read is stored, a held balance is the
operation applied to the stored balance. It gives `TypeCorrect`, `WritesLand`
and `AccountsStay`. `RetriesPaid` adds `WritesBounded`: a key that one caller keeps to itself has at most one write more
than there were faults; it has more writes than faults only while its transaction
is recorded or about to be; and not when a call has found it unused and is still
to write. A caller repeats a call whose transaction was lost after
its balance write, but that loss was a fault. For keys that two callers share no
such bound holds (run `race`).

**Credits and their ledger.** A step writes a balance, records a transaction or
is quiet about both (`LedgerSteps`).
`TransactionsBacked`: a write raises the version of its account by one and adds
one call that will record (`AllBacked`); recording moves that call to the ledger,
or to nowhere if the key is taken. The sets that are counted start empty and
change by one element, so they are finite although `Keys` and `Requests` need
not be.
`Covered`: what a call is about to record is the balance it wrote, and that is a
redemption the stored balance covers (`WritesLand`) or an earning. An earning may
wrap around the largest `int64`, which the run `overflow` shows, so the theorem
reads `Spec /\ EarnAdds => []NeverOverdrawn`. The condition is met: `RoomEnough`
derives it while every balance leaves room for one more amount.
`LedgerReconciles` has the same condition. A write adds to the balance what its
call is now about to record, and recording moves that amount into the ledger,
provided that the key has no transaction yet. `WritesCounted` supplies this: a key
that has a transaction, or another call about to record it, beside the call in
question was written twice, which the premise `AppliedOnce` of `Reconciled`
excludes. That premise and `faults = 0` speak of a whole behaviour; since neither
count goes down (`AppliedBefore`, `FaultsCount`), both hold in every earlier state.

**Sums.** The lemmas `SumInt`, `SumOfMore` and `SumOfSame`, which the ledger needs,
rest on induction on finite sets. The library's induction theorem takes an operator as a parameter and cannot be
instantiated, so `MinimalSubset` states it for a set of subsets: if a finite set is
in a collection of sets, the collection has a member no proper subset of which is
in it. Applied to the counterexamples, that gives a smallest one, which then
turns out not to be one.

**Incidents.** `Inv` joins the checked invariants with `HeldWhole` (a held row is
whole) and `ReportHidden` (while the worker is about to report a point, each of
its earlier open reports has a later incident of another type behind it), which
carries what the worker saw to the step where it inserts; `UpdatesLegal` and
`InsertsLegal` say what the requests in progress may write. It gives `TypeCorrect`,
`RowsStayWhole`, `RepeatsOnlyHidden` and `StaysTaken`.

**Sessions.** `Inv` joins `TypeOK`, `SessionsOwned` and what a request in progress
knows of its rows. `NoOrphanSession` rests on the foreign key at the insert and on
the cascade at the deletion. `NeverRevived`: tokens are drawn once, so no insert
meets a row, and every other write leaves a row revoked, expired or deleted if
it was. `LogoutsDone` follows a logout from the statement that finds its session.

**Only model-checked.** `RecoversOnceUp` and `OverflowReported`:
liveness under fairness and everything about ENABLED are out of the prover's
reach. Every invariant and action property of a passing run is proved.

## 6. Disagreements between code and text

- **`loses`**: the comment of `CompleteTask` says it "updates the collection point
  load". If another write reaches the point between its read and its update, the
  conflict is logged, the call succeeds and the load is never corrected. A
  failure or a crash there has the same effect.
- **`conflict`**: the vehicle handler answers `domain.ErrVehicleVersionConflict`
  with "concurrent modification detected, please retry". `AssignDriver` and
  `ReleaseVehicle` wrap that error, the handler compares with `==`, and the client
  is told of an internal error.
- **`logout`**: the route is to "Revoke current session". The middleware accepts
  the scheme of the header in any case, the handler reads it again and takes only
  `Bearer `; with another spelling it looks for an empty token, finds no session,
  answers success, and the session stays usable.
- **`race`**: the credit test says a balance is "credited at most once due to
  idempotency key". Two calls with one key can both find it unused and, one after
  the other, both write the balance; the unique column stops the second
  transaction, after its balance write.
- **`overflow`**: earning "adds credits to a resident's balance"; past the largest
  `int64` it makes the balance negative. No bound is checked.
- **`repeat`**: the incident worker says "Skip if there's already an open overflow
  incident", and asks for the newest open incident of any type: an open incident
  of another type hides the overflow, which is reported again at every tick.

One more disagreement has no run, because no operation reaches it. The comment of
`IsTerminal` (`domain/collection_task.go:29`) says "states that cannot be left", and
the function lists `failed` among them. The transition table (line 40) lets a failed
task be scheduled, and the tests want it so: `domain/collection_task_test.go:23`, and
line 134, "a failed task should be retryable back to scheduled". Only a test calls
`IsTerminal`, and no operation schedules a task again. `OutcomeFinal` takes the
side of the table: it leaves a failed task the way back, and that alone.

## 7. What is not modelled

- *Roles and passwords*: a fixed table of routes and a comparison. They decide
  which calls are refused and change no state; any caller may make any call.
- *Audit log*: `main` builds the auditor and hands it to nothing; no operation
  writes to it.
- *The start of the process*: opening the database, migrations and wiring run
  before anything else, in one goroutine; a start that fails ends the process.
- *The rest of the composition*: `Server` is composed with the dispatch services
  and the recovery worker. Credits, incidents and sessions have their own
  `Crash`, which ends them as `Kill` does; they share no table with dispatch but
  the loads the incident worker reads, which are its environment.
- *Answers* of the credit, incident and auth handlers, and answers to calls that
  are refused by their first read: these change nothing.
- *SQLite*: statements are atomic and foreign keys and unique columns hold, which
  the connection string sets up; locks, WAL and the pool appear as statements
  that fail.
- *`CloseIncident`* ignores the status it compares, against its comment. No route
  calls it; it is an action of `Incidents`, and no run is about it.
- *Logging, request ids, configuration, response envelopes, pagination and
  operations that only read* change no state.

## 8. Plan

Done: `Dispatch` with `AtomicDispatch`, `Server` around it, `Credits`, `Incidents`,
`Sessions`, their runs, and the theorems of section 5. Left, in this order:

1. Theorems about `AtomicDispatch` alone, so that what its clients may rely on
   can be read without `Dispatch`: outcomes stay, references live, the
   collections that enter and leave `collecting`.
2. The exceptions named in section 6 as theorems of their own: by how many writes
   at most a key that several callers share is applied, as `RetriesPaid` says for
   the others.
3. The other components in the composition with `Server`.

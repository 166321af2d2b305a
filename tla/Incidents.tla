----------------------------- MODULE Incidents -----------------------------
(***************************************************************************)
(* IncidentService over the SQLite incident repository, and the incident   *)
(* worker that reports points over their capacity threshold.               *)
(*                                                                         *)
(* Unlike tasks, vehicles and points, an incident is saved without         *)
(* comparing versions: an operation reads the row, changes it in memory    *)
(* and later overwrites whatever is stored.  The version column is counted *)
(* but never compared and is left out, as are severity, description and    *)
(* times; resolved_at is set exactly when resolution is.                   *)
(*                                                                         *)
(* A row gets its created_at before the statement that inserts it, so rows *)
(* may become visible in another order than the one they are listed in.    *)
(* The table is the sequence of its rows in the order of created_at, and   *)
(* an id is an index; a row that is not `live` is one still to be          *)
(* inserted, or whose INSERT never came.  No row is ever deleted.          *)
(***************************************************************************)
EXTENDS Integers, Sequences

CONSTANTS Requests,       \* handler goroutines
          Points,         \* collection points
          Users,          \* ids of users
          Resolutions,    \* resolution texts
          ReportedTypes,  \* types of the incidents users report
          ReportedPoints, \* and the points they name, or None
          None,           \* no point
          MaxIncidents, MaxFaults

ASSUME NoneAssumption == None \notin Points
\* User ids are UUIDs; a resolution is required by its route.
ASSUME TextsAssumption == {"", "system"} \cap Users = {} /\ "" \notin Resolutions
ASSUME BoundsAssumption == MaxIncidents \in Nat /\ MaxFaults \in Nat

IncidentTypes == {"overflow", "other"}
ASSUME ReportsAssumption ==
    ReportedTypes \subseteq IncidentTypes /\ ReportedPoints \subseteq Points \cup {None}

IncidentStatuses == {"open", "in_progress", "resolved", "closed"}

VARIABLES incidents,   \* the table
          over,        \* the points at or over the worker's threshold
          req,         \* the reports and updates in progress
          worker,      \* points still to be checked, the one to report, the row of it
          faults       \* statements failed and crashes so far

vars == <<incidents, over, req, worker, faults>>

Incident == [live: BOOLEAN, type: IncidentTypes, status: IncidentStatuses,
             point: Points \cup {None}, reporter: Users \cup {"system"},
             assignee: Users \cup {""}, resolution: Resolutions \cup {""}]

NewIncident(type, p, reporter) ==
    [live |-> FALSE, type |-> type, status |-> "open", point |-> p, reporter |-> reporter,
     assignee |-> "", resolution |-> ""]

\* An update in progress holds the changed row it is going to write.
NoRequest == [pc |-> "idle", id |-> 0, row |-> NewIncident("other", None, "system")]
NoWork == [todo |-> {}, point |-> None, id |-> 0]

Init ==
    /\ incidents = <<>>
    /\ over = {}
    /\ req = [r \in Requests |-> NoRequest]
    /\ worker = NoWork
    /\ faults = 0

-----------------------------------------------------------------------------
(* IncidentService *)

\* The row to insert is made and gets its created_at; neither the type nor the
\* ids are checked.
ReportIncident(type, p, reporter) ==
    /\ Len(incidents) < MaxIncidents
    /\ incidents' = Append(incidents, NewIncident(type, p, reporter))

Insert(i) == incidents' = [incidents EXCEPT ![i].live = TRUE]

Report(r) ==
    /\ req[r].pc = "idle"
    /\ \E type \in ReportedTypes, p \in ReportedPoints, u \in Users :
          ReportIncident(type, p, u)
    /\ req' = [req EXCEPT ![r].pc = "insert", ![r].id = Len(incidents) + 1]
    /\ UNCHANGED <<over, worker, faults>>

InsertIncident(r) ==
    /\ req[r].pc = "insert"
    /\ Insert(req[r].id)
    /\ req' = [req EXCEPT ![r] = NoRequest]
    /\ UNCHANGED <<over, worker, faults>>

\* Incident i was read by GetByID and changed in memory to row.
Hold(r, i, row) ==
    /\ req[r].pc = "idle"
    /\ req' = [req EXCEPT ![r] = [pc |-> "save", id |-> i, row |-> row]]
    /\ UNCHANGED <<incidents, over, worker, faults>>

\* Mutant: the status is left as it was read.
AssignIncidentKeepsStatus(r, i, u) ==
    Hold(r, i, [incidents[i] EXCEPT !.assignee = u])

\* Whatever the status was.
AssignIncident(r, i, u) ==
    Hold(r, i, [incidents[i] EXCEPT !.assignee = u, !.status = "in_progress"])

ResolveIncident(r, i, u, text) ==
    /\ incidents[i].status \notin {"resolved", "closed"}
    /\ Hold(r, i, [incidents[i] EXCEPT !.resolution = text, !.assignee = u,
                                       !.status = "resolved"])

\* Both branches of the code close the incident.
CloseIncident(r, i) == Hold(r, i, [incidents[i] EXCEPT !.status = "closed"])

\* Mutant: assigned_to is not among the columns that are set.
SaveIncidentPartly(r) ==
    LET i == req[r].id IN
    /\ req[r].pc = "save"
    /\ incidents' = [incidents EXCEPT ![i] =
                        [req[r].row EXCEPT !.assignee = incidents[i].assignee]]
    /\ req' = [req EXCEPT ![r] = NoRequest]
    /\ UNCHANGED <<over, worker, faults>>

\* Update sets every column, whatever was stored in between.
SaveIncident(r) ==
    /\ req[r].pc = "save"
    /\ incidents' = [incidents EXCEPT ![req[r].id] = req[r].row]
    /\ req' = [req EXCEPT ![r] = NoRequest]
    /\ UNCHANGED <<over, worker, faults>>

-----------------------------------------------------------------------------
(***************************************************************************)
(* IncidentWorker: at every tick it lists the points over the threshold    *)
(* once and goes through the list.  For each it reads the newest open      *)
(* incident of the point, of whatever type, and reports an overflow unless *)
(* that one is an overflow.  The order of the list is left open.           *)
(***************************************************************************)
\* Mutant: the point stays the one to report.
NextPointKept(p) == worker' = [worker EXCEPT !.todo = @ \ {p}]

NextPoint(p) == worker' = [NoWork EXCEPT !.todo = worker.todo \ {p}]

ListOver ==
    /\ worker.todo = {}
    /\ over # {}
    /\ worker' = [NoWork EXCEPT !.todo = over]
    /\ UNCHANGED <<incidents, over, req, faults>>

OpenAt(p) ==
    {i \in DOMAIN incidents :
        incidents[i].live /\ incidents[i].point = p /\ incidents[i].status = "open"}

\* Mutant: the list is not filtered by status.
NoOverflowListedEver(p) ==
    LET at == {i \in DOMAIN incidents : incidents[i].live /\ incidents[i].point = p} IN
    \/ at = {}
    \/ \E i \in at : incidents[i].type # "overflow" /\ \A j \in at : j <= i

\* List(Status: open, PointID: p, Limit: 1) shows no overflow.
NoOverflowListed(p) ==
    \/ OpenAt(p) = {}
    \/ \E i \in OpenAt(p) : incidents[i].type # "overflow" /\ \A j \in OpenAt(p) : j <= i

\* Mutant: a point is reported whatever is open.
CheckPointAlways(p) ==
    /\ p \in worker.todo /\ worker.point = None
    /\ worker' = [worker EXCEPT !.point = p]
    /\ UNCHANGED <<incidents, over, req, faults>>

CheckPoint(p) ==
    /\ p \in worker.todo /\ worker.point = None
    /\ IF NoOverflowListed(p)
       THEN worker' = [worker EXCEPT !.point = p]
       ELSE NextPoint(p)
    /\ UNCHANGED <<incidents, over, req, faults>>

ReportOverflow ==
    /\ worker.point # None /\ worker.id = 0
    /\ ReportIncident("overflow", worker.point, "system")
    /\ worker' = [worker EXCEPT !.id = Len(incidents) + 1]
    /\ UNCHANGED <<over, req, faults>>

InsertOverflow ==
    /\ worker.id # 0
    /\ Insert(worker.id)
    /\ NextPoint(worker.point)
    /\ UNCHANGED <<over, req, faults>>

-----------------------------------------------------------------------------
(* The points, and faults *)

\* A load reading, a collection or a deletion moves a point over the threshold
\* or back.
LoadChanges(p) ==
    /\ over' = IF p \in over THEN over \ {p} ELSE over \cup {p}
    /\ UNCHANGED <<incidents, req, worker, faults>>

Fault == faults < MaxFaults /\ faults' = faults + 1

\* The INSERT or the UPDATE of a request fails.
Abandon(r) ==
    /\ req[r].pc # "idle"
    /\ Fault
    /\ req' = [req EXCEPT ![r] = NoRequest]
    /\ UNCHANGED <<incidents, over, worker>>

\* The SELECT or the INSERT for one point fails: the worker goes on.
SkipPoint(p) ==
    /\ p \in worker.todo /\ worker.point \in {None, p}
    /\ Fault
    /\ NextPoint(p)
    /\ UNCHANGED <<incidents, over, req>>

\* The process dies and is started again on the same database.
Crash ==
    /\ Fault
    /\ req' = [r \in Requests |-> NoRequest]
    /\ worker' = NoWork
    /\ UNCHANGED <<incidents, over>>

-----------------------------------------------------------------------------

Call(r) ==
    \E i \in {j \in DOMAIN incidents : incidents[j].live} :
       \/ \E u \in Users :
             \/ AssignIncident(r, i, u)
             \/ \E text \in Resolutions : ResolveIncident(r, i, u, text)
       \/ CloseIncident(r, i)

Worker ==
    \/ ListOver
    \/ \E p \in Points : CheckPoint(p)
    \/ ReportOverflow \/ InsertOverflow

Next ==
    \/ \E r \in Requests :
          Report(r) \/ InsertIncident(r) \/ Call(r) \/ SaveIncident(r) \/ Abandon(r)
    \/ Worker
    \/ \E p \in Points : LoadChanges(p) \/ SkipPoint(p)
    \/ Crash

Spec == Init /\ [][Next]_vars

\* The worker goroutine runs for as long as the server does.
FairSpec == Spec /\ WF_vars(Worker)

-----------------------------------------------------------------------------
(* Properties *)

\* Every variable holds incidents, updates and work of the declared shape.
TypeOK ==
    /\ incidents \in Seq(Incident)
    /\ over \in SUBSET Points
    /\ req \in [Requests -> [pc: {"idle", "insert", "save"}, id: Nat, row: Incident]]
    /\ worker \in [todo: SUBSET Points, point: Points \cup {None}, id: Nat]
    /\ worker.point # None => worker.point \in worker.todo
    /\ faults \in Nat

SameSubject(a, b) == a.type = b.type /\ a.point = b.point /\ a.reporter = b.reporter

Whole(row) ==
    /\ row.status = "open" => row.assignee = "" /\ row.resolution = ""
    /\ row.status = "in_progress" => row.assignee # ""
    /\ row.status = "resolved" => row.assignee # "" /\ row.resolution # ""

\* Although updates overwrite each other, a row is always what some update
\* wrote as a whole: an open incident has no assignee and no resolution, a
\* resolved one has both.
RowsWhole == \A i \in DOMAIN incidents : Whole(incidents[i])

\* A reported incident stays reported.  Once taken up it is never open again, by
\* no stale update, and it keeps its type, point and reporter.
NeverReopened ==
    [][\A i \in DOMAIN incidents :
          /\ i \in DOMAIN incidents'
          /\ incidents[i].live => incidents'[i].live
          /\ SameSubject(incidents'[i], incidents[i])
          /\ incidents[i].status # "open" => incidents'[i].status # "open"]_vars

\* The open overflows the worker reported for p.
Detected(p) ==
    {i \in OpenAt(p) : incidents[i].type = "overflow" /\ incidents[i].reporter = "system"}

\* The worker reports an overflow again while its earlier report is open only
\* if an incident of another type was reported at the point in between, in
\* whatever order the rows were inserted.
RepeatsExplained ==
    \A p \in Points : \A i, j \in Detected(p) : i < j =>
        \E k \in DOMAIN incidents :
            /\ i < k /\ k < j /\ incidents[k].live
            /\ incidents[k].point = p /\ incidents[k].type # "overflow"

\* A point over the threshold gets an open overflow incident, unless it is
\* emptied before, until the bound on incidents is reached.
OverflowReported ==
    \A p \in Points : p \in over ~>
        \/ p \notin over
        \/ \E i \in OpenAt(p) : incidents[i].type = "overflow"
        \/ Len(incidents) = MaxIncidents

\* What the comment of checkOverflows says: "Skip if there's already an open
\* overflow incident."
OverflowReportedOnce == \A p \in Points : \A i, j \in Detected(p) : i = j
=============================================================================

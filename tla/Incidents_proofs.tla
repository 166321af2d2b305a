-------------------------- MODULE Incidents_proofs --------------------------
(***************************************************************************)
(* Theorems about Incidents: type correctness, rows written as a whole, no *)
(* incident reopened, and the only way the worker repeats a report.        *)
(***************************************************************************)
EXTENDS Incidents, SequenceTheorems, TLAPS

\* An update in progress is one of a reported incident and does not change what
\* the incident is about; no operation writes the status open.
UpdatesLegal ==
    \A r \in Requests : req[r].pc = "save" =>
        /\ req[r].id \in DOMAIN incidents
        /\ incidents[req[r].id].live /\ req[r].row.live
        /\ SameSubject(req[r].row, incidents[req[r].id])
        /\ req[r].row.status # "open"

\* A row held in memory is whole.
HeldWhole == \A r \in Requests : req[r].pc = "save" => Whole(req[r].row)

\* A request is about to insert a row of a user, the worker one of its point.
InsertsLegal ==
    /\ \A r \in Requests : req[r].pc = "insert" =>
          req[r].id \in DOMAIN incidents /\ incidents[req[r].id].reporter # "system"
    /\ worker.id # 0 =>
          /\ worker.point # None /\ worker.id \in DOMAIN incidents
          /\ incidents[worker.id].point = worker.point

\* While the worker is about to report a point, every earlier report of its own
\* that is open is hidden by a later incident of another type, which got its
\* created_at before the report the worker is going to insert.
ReportHidden ==
    worker.point # None => \A i \in Detected(worker.point) :
        \E k \in DOMAIN incidents :
            /\ i < k /\ incidents[k].live
            /\ incidents[k].point = worker.point /\ incidents[k].type # "overflow"
            /\ worker.id # 0 => k < worker.id

Inv ==
    /\ TypeOK /\ UpdatesLegal /\ HeldWhole /\ InsertsLegal /\ RowsWhole
    /\ RepeatsExplained /\ ReportHidden

\* What NeverReopened says of one step.
StaysTakenUp ==
    \A i \in DOMAIN incidents :
        /\ i \in DOMAIN incidents'
        /\ incidents[i].live => incidents'[i].live
        /\ SameSubject(incidents'[i], incidents[i])
        /\ incidents[i].status # "open" => incidents'[i].status # "open"

\* The table is a sequence of incidents.
LEMMA Table ==
    ASSUME TypeOK
    PROVE  /\ Len(incidents) \in Nat /\ DOMAIN incidents = 1 .. Len(incidents)
           /\ \A i \in DOMAIN incidents : incidents[i] \in Incident
  BY LenProperties, ElementOfSeq DEF TypeOK

\* A new incident is a row not yet inserted, open, and whole.
LEMMA NewRow ==
    ASSUME NEW type \in IncidentTypes, NEW p \in Points \cup {None},
           NEW u \in Users \cup {"system"}
    PROVE  LET row == NewIncident(type, p, u) IN
           /\ row \in Incident /\ Whole(row)
           /\ ~row.live /\ row.type = type /\ row.status = "open" /\ row.point = p /\ row.reporter = u
  BY DEF NewIncident, Incident, Whole, IncidentStatuses

\* One row more, the others as they were.
LEMMA Appended ==
    ASSUME TypeOK, NEW row \in Incident, incidents' = Append(incidents, row)
    PROVE  /\ incidents' \in Seq(Incident)
           /\ DOMAIN incidents' = 1 .. Len(incidents) + 1
           /\ \A i \in DOMAIN incidents : incidents'[i] = incidents[i]
           /\ incidents'[Len(incidents) + 1] = row
<1>1. incidents \in Seq(Incident)
  BY DEF TypeOK
<1>2. incidents' \in Seq(Incident) /\ Len(incidents') = Len(incidents) + 1
  BY <1>1, AppendProperties
<1>3. DOMAIN incidents' = 1 .. Len(incidents')
  BY <1>2, LenProperties
<1> QED
  BY <1>1, <1>2, <1>3, AppendProperties, LenProperties

\* One row replaced, the others as they were.
LEMMA Updated ==
    ASSUME TypeOK, NEW i \in DOMAIN incidents, NEW row \in Incident,
           incidents' = [incidents EXCEPT ![i] = row]
    PROVE  /\ incidents' \in Seq(Incident)
           /\ DOMAIN incidents' = DOMAIN incidents
           /\ incidents'[i] = row
           /\ \A j \in DOMAIN incidents \ {i} : incidents'[j] = incidents[j]
<1>1. incidents \in Seq(Incident) /\ DOMAIN incidents = 1 .. Len(incidents)
  BY Table DEF TypeOK
<1>2. incidents' \in Seq(Incident)
  BY <1>1, ExceptSeq
<1> QED
  BY <1>1, <1>2

LEMMA InvInit == Init => Inv
<1> SUFFICES ASSUME Init PROVE Inv
  OBVIOUS
<1>1. DOMAIN incidents = {} /\ incidents \in Seq(Incident)
  BY EmptySeq, LenProperties DEF Init
<1>2. NewIncident("other", None, "system") \in Incident
  BY NewRow DEF IncidentTypes
<1>3. TypeOK
  BY <1>1, <1>2, BoundsAssumption DEF Init, TypeOK, NoRequest, NoWork
<1>4. UpdatesLegal /\ HeldWhole /\ InsertsLegal
  BY DEF Init, NoRequest, NoWork, UpdatesLegal, HeldWhole, InsertsLegal
<1>5. RowsWhole /\ RepeatsExplained /\ ReportHidden
  BY <1>1 DEF Init, NoWork, RowsWhole, RepeatsExplained, ReportHidden, Detected, OpenAt
<1> QED
  BY <1>3, <1>4, <1>5 DEF Inv

-----------------------------------------------------------------------------
(* What a step preserves, by the parts of the state it leaves alone. *)

\* A report in the making disturbs neither the rows there are nor what is about
\* to be written.
LEMMA AppendStep ==
    ASSUME Inv, NEW row \in Incident, Whole(row), ~row.live,
           incidents' = Append(incidents, row)
    PROVE  /\ RowsWhole' /\ StaysTakenUp
           /\ req' = req => UpdatesLegal' /\ HeldWhole'
           /\ DOMAIN incidents' = DOMAIN incidents \cup {Len(incidents) + 1}
           /\ incidents' \in Seq(Incident) /\ incidents'[Len(incidents) + 1] = row
           /\ \A i \in DOMAIN incidents : incidents'[i] = incidents[i]
           /\ \A q : Detected(q)' = Detected(q)
<1>1. TypeOK /\ UpdatesLegal /\ HeldWhole /\ RowsWhole
  BY DEF Inv
<1>2. /\ DOMAIN incidents = 1 .. Len(incidents) /\ Len(incidents) \in Nat
      /\ DOMAIN incidents' = 1 .. Len(incidents) + 1
      /\ \A i \in DOMAIN incidents : incidents'[i] = incidents[i]
      /\ incidents' \in Seq(Incident) /\ incidents'[Len(incidents) + 1] = row
  BY <1>1, Table, Appended
<1>3. DOMAIN incidents' = DOMAIN incidents \cup {Len(incidents) + 1}
  BY <1>2
<1>4. ASSUME req' = req PROVE UpdatesLegal' /\ HeldWhole'
  BY <1>1, <1>2, <1>3, <1>4 DEF UpdatesLegal, HeldWhole
<1>5. RowsWhole'
  BY <1>1, <1>2, <1>3 DEF RowsWhole
<1>6. StaysTakenUp
  BY <1>2, <1>3 DEF StaysTakenUp, SameSubject
<1>7. ASSUME NEW q PROVE Detected(q)' = Detected(q)
  BY <1>2, <1>3 DEF Detected, OpenAt
<1> QED
  BY <1>2, <1>3, <1>4, <1>5, <1>6, <1>7

\* INSERT: a row becomes live and nothing else changes.
LEMMA InsertStep ==
    ASSUME Inv, NEW i \in DOMAIN incidents, Insert(i)
    PROVE  /\ RowsWhole' /\ StaysTakenUp
           /\ incidents' \in Seq(Incident) /\ DOMAIN incidents' = DOMAIN incidents
           /\ \A j \in DOMAIN incidents : SameSubject(incidents'[j], incidents[j])
           /\ \A j \in DOMAIN incidents \ {i} : incidents'[j] = incidents[j]
<1> DEFINE row == [incidents[i] EXCEPT !.live = TRUE]
<1>1. TypeOK /\ UpdatesLegal /\ HeldWhole /\ RowsWhole
  BY DEF Inv
<1>2. incidents[i] \in Incident /\ incidents' = [incidents EXCEPT ![i] = row]
  BY <1>1, Table DEF Insert
<1>3. /\ row \in Incident /\ row.live /\ SameSubject(row, incidents[i])
      /\ row.status = incidents[i].status /\ Whole(row)
  BY <1>1, <1>2 DEF Incident, SameSubject, Whole, RowsWhole
<1> HIDE DEF row
<1>4. /\ incidents' \in Seq(Incident) /\ DOMAIN incidents' = DOMAIN incidents
      /\ incidents'[i] = row
      /\ \A j \in DOMAIN incidents \ {i} : incidents'[j] = incidents[j]
  BY <1>1, <1>2, <1>3, Updated
<1>5. RowsWhole'
  BY <1>1, <1>3, <1>4 DEF RowsWhole
<1>6. StaysTakenUp
  BY <1>3, <1>4 DEF StaysTakenUp, SameSubject
<1>7. \A j \in DOMAIN incidents : SameSubject(incidents'[j], incidents[j])
  BY <1>3, <1>4 DEF SameSubject
<1> QED
  BY <1>4, <1>5, <1>6, <1>7

\* Rows that only gain ground keep every repetition of the worker explained, as
\* long as none of its reports shows up or opens again.
LEMMA StillExplained ==
    ASSUME Inv, StaysTakenUp, worker' = worker, \A q : Detected(q)' \subseteq Detected(q)
    PROVE  RepeatsExplained' /\ ReportHidden'
<1>1. ASSUME NEW q \in Points, NEW i \in Detected(q)', NEW j \in Detected(q)', i < j
      PROVE  \E k \in DOMAIN incidents' :
                /\ i < k /\ k < j /\ incidents'[k].live
                /\ incidents'[k].point = q /\ incidents'[k].type # "overflow"
  <2>1. PICK k \in DOMAIN incidents :
           /\ i < k /\ k < j /\ incidents[k].live
           /\ incidents[k].point = q /\ incidents[k].type # "overflow"
    BY <1>1 DEF Inv, RepeatsExplained
  <2> QED
    BY <2>1 DEF StaysTakenUp, SameSubject
<1>2. ASSUME worker.point # None, NEW i \in Detected(worker.point)'
      PROVE  \E k \in DOMAIN incidents' :
                /\ i < k /\ incidents'[k].live
                /\ incidents'[k].point = worker.point /\ incidents'[k].type # "overflow"
                /\ worker.id # 0 => k < worker.id
  <2>1. PICK k \in DOMAIN incidents :
           /\ i < k /\ incidents[k].live
           /\ incidents[k].point = worker.point /\ incidents[k].type # "overflow"
           /\ worker.id # 0 => k < worker.id
    BY <1>2 DEF Inv, ReportHidden
  <2> QED
    BY <2>1 DEF StaysTakenUp, SameSubject
<1>3. ReportHidden'
  BY <1>2 DEF ReportHidden, Detected, OpenAt
<1> QED
  BY <1>1, <1>3 DEF RepeatsExplained

\* A step that leaves the table alone.
LEMMA TableKept ==
    ASSUME Inv, incidents' = incidents
    PROVE  /\ RowsWhole' /\ RepeatsExplained' /\ StaysTakenUp
           /\ req' = req => UpdatesLegal' /\ HeldWhole'
           /\ req' = req /\ worker'.id = 0 => InsertsLegal'
           /\ worker' = worker \/ worker'.point = None => ReportHidden'
           /\ req' = req /\ worker' = worker => InsertsLegal'
<1>1. RowsWhole' /\ RepeatsExplained'
  BY DEF Inv, RowsWhole, RepeatsExplained, Detected, OpenAt
<1>2. StaysTakenUp
  BY DEF StaysTakenUp, SameSubject
<1>3. ASSUME req' = req PROVE UpdatesLegal' /\ HeldWhole'
  BY <1>3 DEF Inv, UpdatesLegal, HeldWhole
<1>4. ASSUME worker' = worker \/ worker'.point = None PROVE ReportHidden'
  BY <1>4 DEF Inv, ReportHidden, Detected, OpenAt
<1>5. ASSUME req' = req, worker'.id = 0 PROVE InsertsLegal'
  BY <1>5 DEF Inv, InsertsLegal
<1>6. ASSUME req' = req, worker' = worker PROVE InsertsLegal'
  BY <1>6 DEF Inv, InsertsLegal
<1> QED
  BY <1>1, <1>2, <1>3, <1>4, <1>5, <1>6

\* Requests that return hold nothing.
LEMMA Returned ==
    ASSUME Inv, incidents' = incidents,
           \A r \in Requests : req'[r] = req[r] \/ req'[r] = NoRequest
    PROVE  /\ UpdatesLegal' /\ HeldWhole'
           /\ worker' = worker \/ worker'.id = 0 => InsertsLegal'
<1>1. NoRequest.pc = "idle"
  BY DEF NoRequest
<1> QED
  BY <1>1 DEF Inv, UpdatesLegal, HeldWhole, InsertsLegal

LEMMA NobodyHolds == NoRequest \in [pc: {"idle", "insert", "save"}, id: Nat, row: Incident]
  BY NewRow DEF NoRequest, IncidentTypes

-----------------------------------------------------------------------------
(* One lemma per action. *)

LEMMA ReportStep ==
    ASSUME Inv, NEW r \in Requests, Report(r)
    PROVE  Inv' /\ StaysTakenUp
<1>1. PICK type \in ReportedTypes, p \in ReportedPoints, u \in Users :
         incidents' = Append(incidents, NewIncident(type, p, u))
  BY DEF Report, ReportIncident
<1> DEFINE row == NewIncident(type, p, u)
           new == Len(incidents) + 1
<1>2. /\ UNCHANGED <<over, worker, faults>> /\ TypeOK /\ req[r].pc = "idle"
      /\ req' = [req EXCEPT ![r].pc = "insert", ![r].id = new]
  BY DEF Report, Inv
<1>3. /\ row \in Incident /\ Whole(row) /\ ~row.live /\ row.reporter \in Users
  BY NewRow, ReportsAssumption
<1>4. new \in Nat
  BY <1>2, Table
<1> HIDE DEF row, new
<1>5. /\ RowsWhole' /\ StaysTakenUp
      /\ DOMAIN incidents' = DOMAIN incidents \cup {new}
      /\ incidents' \in Seq(Incident) /\ incidents'[new] = row
      /\ \A i \in DOMAIN incidents : incidents'[i] = incidents[i]
      /\ \A q : Detected(q)' = Detected(q)
  BY <1>1, <1>3, AppendStep DEF row, new
<1>6. /\ req' \in [Requests -> [pc: {"idle", "insert", "save"}, id: Nat, row: Incident]]
      /\ req'[r].pc = "insert" /\ req'[r].id = new
      /\ \A s \in Requests \ {r} : req'[s] = req[s]
  BY <1>2, <1>4 DEF TypeOK
<1>7. TypeOK'
  BY <1>2, <1>5, <1>6 DEF TypeOK
<1>8. UpdatesLegal' /\ HeldWhole'
  BY <1>5, <1>6 DEF Inv, UpdatesLegal, HeldWhole
<1>9. row.reporter # "system"
  BY <1>3, TextsAssumption
<1>10. InsertsLegal'
  BY <1>2, <1>5, <1>6, <1>9 DEF Inv, InsertsLegal
<1>11. RepeatsExplained' /\ ReportHidden'
  BY <1>2, <1>5, StillExplained
<1> QED
  BY <1>5, <1>7, <1>8, <1>10, <1>11 DEF Inv

LEMMA InsertIncidentStep ==
    ASSUME Inv, NEW r \in Requests, InsertIncident(r)
    PROVE  Inv' /\ StaysTakenUp
<1> DEFINE i == req[r].id
<1>1. /\ TypeOK /\ req[r].pc = "insert" /\ Insert(i)
      /\ req' = [req EXCEPT ![r] = NoRequest]
      /\ UNCHANGED <<over, worker, faults>>
  BY DEF Inv, InsertIncident
<1>2. i \in DOMAIN incidents /\ incidents[i].reporter # "system"
  BY <1>1 DEF Inv, InsertsLegal
<1>3. /\ req' \in [Requests -> [pc: {"idle", "insert", "save"}, id: Nat, row: Incident]]
      /\ req'[r].pc = "idle" /\ \A s \in Requests \ {r} : req'[s] = req[s]
  BY <1>1, NobodyHolds DEF TypeOK, NoRequest
<1> HIDE DEF i
<1>4. /\ RowsWhole' /\ StaysTakenUp
      /\ incidents' \in Seq(Incident) /\ DOMAIN incidents' = DOMAIN incidents
      /\ \A j \in DOMAIN incidents : SameSubject(incidents'[j], incidents[j])
      /\ \A j \in DOMAIN incidents \ {i} : incidents'[j] = incidents[j]
  BY <1>1, <1>2, InsertStep
<1>5. TypeOK'
  BY <1>1, <1>3, <1>4 DEF TypeOK
<1>6. UpdatesLegal' /\ HeldWhole' /\ InsertsLegal'
  BY <1>1, <1>3, <1>4 DEF Inv, UpdatesLegal, HeldWhole, InsertsLegal, StaysTakenUp, SameSubject
<1>7. ASSUME NEW q PROVE Detected(q)' \subseteq Detected(q)
  BY <1>2, <1>4 DEF Detected, OpenAt, SameSubject
<1>8. RepeatsExplained' /\ ReportHidden'
  BY <1>1, <1>4, <1>7, StillExplained
<1> QED
  BY <1>4, <1>5, <1>6, <1>8 DEF Inv

\* The report of the worker gets its created_at: whatever hides its earlier
\* reports got one before.
LEMMA ReportOverflowStep ==
    ASSUME Inv, ReportOverflow
    PROVE  Inv' /\ StaysTakenUp
<1> DEFINE w == worker.point
           row == NewIncident("overflow", w, "system")
           new == Len(incidents) + 1
<1>1. /\ TypeOK /\ w \in Points /\ w # None
      /\ incidents' = Append(incidents, row)
      /\ worker' = [worker EXCEPT !.id = new]
      /\ UNCHANGED <<over, req, faults>>
  BY DEF Inv, TypeOK, ReportOverflow, ReportIncident
<1>2. /\ row \in Incident /\ Whole(row) /\ ~row.live /\ row.point = w
  BY <1>1, NewRow DEF IncidentTypes
<1>3. new \in Nat /\ DOMAIN incidents = 1 .. Len(incidents) /\ Len(incidents) \in Nat
  BY <1>1, Table
<1>4. \A i \in DOMAIN incidents : i < new
  BY <1>3
<1> HIDE DEF row, new
<1>5. /\ RowsWhole' /\ StaysTakenUp /\ UpdatesLegal' /\ HeldWhole'
      /\ DOMAIN incidents' = DOMAIN incidents \cup {new}
      /\ incidents' \in Seq(Incident) /\ incidents'[new] = row
      /\ \A i \in DOMAIN incidents : incidents'[i] = incidents[i]
      /\ \A q : Detected(q)' = Detected(q)
  BY <1>1, <1>2, AppendStep DEF new
<1>6. /\ worker' \in [todo: SUBSET Points, point: Points \cup {None}, id: Nat]
      /\ worker'.point = w /\ worker'.id = new /\ worker'.todo = worker.todo
  BY <1>1, <1>3 DEF TypeOK
<1>7. TypeOK'
  BY <1>1, <1>5, <1>6 DEF TypeOK
<1>8. InsertsLegal'
  BY <1>1, <1>2, <1>5, <1>6 DEF Inv, InsertsLegal
<1>9. ReportHidden'
  <2>1. ASSUME NEW i \in Detected(w)
        PROVE  \E k \in DOMAIN incidents' :
                  /\ i < k /\ incidents'[k].live /\ incidents'[k].point = w
                  /\ incidents'[k].type # "overflow" /\ k < new
    <3>1. PICK k \in DOMAIN incidents :
             /\ i < k /\ incidents[k].live /\ incidents[k].point = w
             /\ incidents[k].type # "overflow"
      BY <1>1 DEF Inv, ReportHidden
    <3> QED
      BY <1>4, <1>5, <3>1
  <2> QED
    BY <1>5, <1>6, <2>1 DEF ReportHidden, Detected, OpenAt
<1>10. RepeatsExplained'
  <2>1. ASSUME NEW q \in Points, NEW i \in Detected(q), NEW j \in Detected(q), i < j
        PROVE  \E k \in DOMAIN incidents' :
                  /\ i < k /\ k < j /\ incidents'[k].live
                  /\ incidents'[k].point = q /\ incidents'[k].type # "overflow"
    <3>1. PICK k \in DOMAIN incidents :
             /\ i < k /\ k < j /\ incidents[k].live
             /\ incidents[k].point = q /\ incidents[k].type # "overflow"
      BY <2>1 DEF Inv, RepeatsExplained
    <3> QED
      BY <1>5, <3>1
  <2> QED
    BY <1>5, <2>1 DEF RepeatsExplained
<1> QED
  BY <1>5, <1>7, <1>8, <1>9, <1>10 DEF Inv

LEMMA InsertOverflowStep ==
    ASSUME Inv, InsertOverflow
    PROVE  Inv' /\ StaysTakenUp
<1> DEFINE w == worker.point
           new == worker.id
<1>1. /\ TypeOK /\ new # 0 /\ Insert(new)
      /\ worker' = [todo |-> worker.todo \ {w}, point |-> None, id |-> 0]
      /\ UNCHANGED <<over, req, faults>>
  BY DEF Inv, InsertOverflow, NextPoint, NoWork
<1>2. /\ new \in DOMAIN incidents /\ w # None /\ incidents[new].point = w
      /\ DOMAIN incidents = 1 .. Len(incidents) /\ Len(incidents) \in Nat
  BY <1>1, Table DEF Inv, InsertsLegal
<1>3. \A i \in Detected(w) : \E k \in DOMAIN incidents :
         /\ i < k /\ k < new /\ incidents[k].live
         /\ incidents[k].point = w /\ incidents[k].type # "overflow"
  BY <1>1, <1>2 DEF Inv, ReportHidden
<1>4. TypeOK => worker'.todo \in SUBSET Points
  BY <1>1 DEF TypeOK
<1> HIDE DEF w, new
<1>5. /\ RowsWhole' /\ StaysTakenUp
      /\ incidents' \in Seq(Incident) /\ DOMAIN incidents' = DOMAIN incidents
      /\ \A j \in DOMAIN incidents : SameSubject(incidents'[j], incidents[j])
      /\ \A j \in DOMAIN incidents \ {new} : incidents'[j] = incidents[j]
  BY <1>1, <1>2, InsertStep
<1>6. TypeOK'
  BY <1>1, <1>4, <1>5 DEF TypeOK
<1>7. UpdatesLegal' /\ HeldWhole' /\ InsertsLegal'
  BY <1>1, <1>5 DEF Inv, UpdatesLegal, HeldWhole, InsertsLegal, StaysTakenUp, SameSubject
<1>8. ReportHidden'
  BY <1>1 DEF ReportHidden
<1>9. ASSUME NEW q \in Points, NEW i \in Detected(q)', NEW j \in Detected(q)', i < j
      PROVE  \E k \in DOMAIN incidents :
                /\ i < k /\ k < j /\ incidents[k].live
                /\ incidents[k].point = q /\ incidents[k].type # "overflow"
  <2>1. /\ i \in DOMAIN incidents /\ j \in DOMAIN incidents
        /\ i # new => i \in Detected(q)
        /\ j # new => j \in Detected(q)
        /\ i = new \/ j = new => q = w
    BY <1>2, <1>5 DEF Detected, OpenAt, SameSubject
  <2>2. CASE i # new /\ j # new
    BY <1>9, <2>1, <2>2 DEF Inv, RepeatsExplained
  <2>3. CASE j = new
    BY <1>2, <1>3, <1>9, <2>1, <2>3
  <2>4. CASE i = new
    <3>1. j \in Detected(w)
      BY <1>2, <1>9, <2>1, <2>4
    <3>2. PICK k \in DOMAIN incidents : j < k /\ k < new
      BY <1>3, <3>1
    <3> QED
      BY <1>2, <1>9, <2>1, <2>4, <3>2
  <2> QED
    BY <2>2, <2>3, <2>4
<1>10. RepeatsExplained'
  <2>1. \A k \in DOMAIN incidents : incidents[k].live => incidents'[k].live
    BY <1>5 DEF StaysTakenUp
  <2> QED
    BY <1>5, <1>9, <2>1 DEF RepeatsExplained, SameSubject
<1> QED
  BY <1>5, <1>6, <1>7, <1>8, <1>10 DEF Inv

\* A call of AssignIncident, ResolveIncident or CloseIncident.
LEMMA CallStep ==
    ASSUME Inv, NEW r \in Requests, Call(r)
    PROVE  Inv' /\ StaysTakenUp
<1>1. TypeOK /\ RowsWhole
  BY DEF Inv
<1>2. PICK i \in DOMAIN incidents, row \in Incident :
         /\ Hold(r, i, row) /\ incidents[i].live /\ row.live
         /\ SameSubject(row, incidents[i])
         /\ row.status # "open" /\ Whole(row)
  <2>1. PICK i \in DOMAIN incidents :
           /\ incidents[i].live
           /\ \/ \E u \in Users : AssignIncident(r, i, u)
              \/ \E u \in Users, text \in Resolutions : ResolveIncident(r, i, u, text)
              \/ CloseIncident(r, i)
    BY DEF Call
  <2>2. incidents[i] \in Incident /\ i \in Nat
    BY <1>1, Table
  <2>3. CASE \E u \in Users : AssignIncident(r, i, u)
    <3>1. PICK u \in Users : AssignIncident(r, i, u)
      BY <2>3
    <3> DEFINE row == [incidents[i] EXCEPT !.assignee = u, !.status = "in_progress"]
    <3>2. /\ row \in Incident /\ row.live
          /\ SameSubject(row, incidents[i]) /\ row.status # "open"
      BY <2>1, <2>2 DEF Incident, IncidentStatuses, SameSubject
    <3>3. Whole(row)
      BY <2>2, TextsAssumption DEF Incident, Whole
    <3> QED
      BY <2>1, <3>1, <3>2, <3>3 DEF AssignIncident
  <2>4. CASE \E u \in Users, text \in Resolutions : ResolveIncident(r, i, u, text)
    <3>1. PICK u \in Users, text \in Resolutions : ResolveIncident(r, i, u, text)
      BY <2>4
    <3> DEFINE row == [incidents[i] EXCEPT !.resolution = text, !.assignee = u,
                                           !.status = "resolved"]
    <3>2. /\ row \in Incident /\ row.live
          /\ SameSubject(row, incidents[i]) /\ row.status # "open"
      BY <2>1, <2>2 DEF Incident, IncidentStatuses, SameSubject
    <3>3. Whole(row)
      BY <2>2, TextsAssumption DEF Incident, Whole
    <3> QED
      BY <2>1, <3>1, <3>2, <3>3 DEF ResolveIncident
  <2>5. CASE CloseIncident(r, i)
    <3> DEFINE row == [incidents[i] EXCEPT !.status = "closed"]
    <3>2. /\ row \in Incident /\ row.live
          /\ SameSubject(row, incidents[i]) /\ row.status # "open"
      BY <2>1, <2>2 DEF Incident, IncidentStatuses, SameSubject
    <3>3. Whole(row)
      BY <2>2 DEF Incident, Whole
    <3> QED
      BY <2>1, <2>5, <3>2, <3>3 DEF CloseIncident
  <2> QED
    BY <2>1, <2>3, <2>4, <2>5
<1>3. /\ req' = [req EXCEPT ![r] = [pc |-> "save", id |-> i, row |-> row]]
      /\ UNCHANGED <<incidents, over, worker, faults>>
  BY <1>2 DEF Hold
<1>4. i \in Nat
  BY <1>1, Table
<1>5. TypeOK'
  BY <1>1, <1>2, <1>3, <1>4 DEF TypeOK
<1>6. /\ req'[r] = [pc |-> "save", id |-> i, row |-> row]
      /\ \A s \in Requests \ {r} : req'[s] = req[s]
  BY <1>1, <1>3 DEF TypeOK
<1>7. UpdatesLegal' /\ HeldWhole' /\ InsertsLegal'
  BY <1>2, <1>3, <1>6 DEF Inv, UpdatesLegal, HeldWhole, InsertsLegal
<1> QED
  BY <1>3, <1>5, <1>7, TableKept DEF Inv

LEMMA SaveStep ==
    ASSUME Inv, NEW r \in Requests, SaveIncident(r)
    PROVE  Inv' /\ StaysTakenUp
<1> DEFINE i == req[r].id
           row == req[r].row
<1>1. /\ TypeOK /\ UpdatesLegal /\ HeldWhole /\ RowsWhole
      /\ req[r].pc = "save"
      /\ incidents' = [incidents EXCEPT ![i] = row]
      /\ req' = [req EXCEPT ![r] = NoRequest]
      /\ UNCHANGED <<over, worker, faults>>
  BY DEF Inv, SaveIncident
<1>2. /\ i \in DOMAIN incidents /\ row \in Incident
      /\ SameSubject(row, incidents[i]) /\ row.status # "open" /\ Whole(row)
      /\ row.live /\ incidents[i].live
  BY <1>1 DEF TypeOK, UpdatesLegal, HeldWhole
<1>3. /\ req' \in [Requests -> [pc: {"idle", "insert", "save"}, id: Nat, row: Incident]]
      /\ req'[r].pc = "idle" /\ \A s \in Requests \ {r} : req'[s] = req[s]
  BY <1>1, NobodyHolds DEF TypeOK, NoRequest
<1>4. /\ incidents' \in Seq(Incident) /\ DOMAIN incidents' = DOMAIN incidents
      /\ incidents'[i] = row
      /\ \A j \in DOMAIN incidents \ {i} : incidents'[j] = incidents[j]
  BY <1>1, <1>2, Updated
<1> HIDE DEF i, row
<1>5. TypeOK'
  BY <1>1, <1>3, <1>4 DEF TypeOK
<1>6. \A j \in DOMAIN incidents : SameSubject(incidents'[j], incidents[j])
  BY <1>2, <1>4 DEF SameSubject
<1>7. RowsWhole'
  BY <1>1, <1>2, <1>4 DEF RowsWhole
<1>8. StaysTakenUp
  BY <1>2, <1>4, <1>6 DEF StaysTakenUp
<1>9. UpdatesLegal' /\ HeldWhole' /\ InsertsLegal'
  BY <1>1, <1>3, <1>4, <1>6, <1>8
     DEF Inv, UpdatesLegal, HeldWhole, InsertsLegal, SameSubject, StaysTakenUp
<1>10. ASSUME NEW q PROVE Detected(q)' \subseteq Detected(q)
  BY <1>2, <1>4, <1>6, <1>8 DEF Detected, OpenAt, SameSubject, StaysTakenUp
<1>11. RepeatsExplained' /\ ReportHidden'
  BY <1>1, <1>8, <1>10, StillExplained
<1> QED
  BY <1>5, <1>7, <1>8, <1>9, <1>11 DEF Inv

\* The worker decides to report a point only if the newest open incident there
\* is no overflow, which hides whatever it reported before.
LEMMA CheckStep ==
    ASSUME Inv, NEW p \in Points, CheckPoint(p)
    PROVE  Inv' /\ StaysTakenUp
<1>1. /\ TypeOK /\ UNCHANGED <<incidents, over, req, faults>> /\ p \in worker.todo
      /\ worker.id = 0
  BY DEF Inv, CheckPoint, InsertsLegal
<1>2. CASE NoOverflowListed(p)
  <2>1. worker' = [worker EXCEPT !.point = p]
    BY <1>2 DEF CheckPoint
  <2>2. TypeOK'
    BY <1>1, <2>1 DEF TypeOK
  <2>3. worker'.point = p /\ worker'.id = 0
    BY <1>1, <2>1 DEF TypeOK
  <2>4. ASSUME NEW i \in Detected(p)
        PROVE  \E k \in DOMAIN incidents :
                  /\ i < k /\ incidents[k].live
                  /\ incidents[k].point = p /\ incidents[k].type # "overflow"
    <3>1. i \in OpenAt(p) /\ incidents[i].type = "overflow"
      BY DEF Detected
    <3>2. PICK k \in OpenAt(p) :
             incidents[k].type # "overflow" /\ \A j \in OpenAt(p) : j <= k
      BY <1>2, <3>1 DEF NoOverflowListed
    <3>3. /\ i \in Nat /\ k \in Nat /\ k \in DOMAIN incidents
          /\ incidents[k].live /\ incidents[k].point = p
      BY <1>1, <3>1, Table DEF OpenAt
    <3> QED
      BY <3>1, <3>2, <3>3
  <2>5. ReportHidden'
    BY <1>1, <2>3, <2>4 DEF ReportHidden, Detected, OpenAt
  <2> QED
    BY <1>1, <2>2, <2>3, <2>5, TableKept DEF Inv
<1>3. CASE ~NoOverflowListed(p)
  <2>1. worker' = [todo |-> worker.todo \ {p}, point |-> None, id |-> 0]
    BY <1>3 DEF CheckPoint, NextPoint, NoWork
  <2>2. TypeOK'
    BY <1>1, <2>1 DEF TypeOK
  <2> QED
    BY <1>1, <2>1, <2>2, TableKept DEF Inv
<1> QED
  BY <1>2, <1>3

LEMMA InvStep ==
    ASSUME Inv, [Next]_vars
    PROVE  Inv' /\ StaysTakenUp
<1>1. TypeOK
  BY DEF Inv
<1>2. ASSUME NEW r \in Requests, Report(r) \/ InsertIncident(r) PROVE Inv' /\ StaysTakenUp
  BY <1>2, ReportStep, InsertIncidentStep
<1>3. ASSUME NEW r \in Requests, Call(r) PROVE Inv' /\ StaysTakenUp
  BY <1>3, CallStep
<1>4. ASSUME NEW r \in Requests, SaveIncident(r) PROVE Inv' /\ StaysTakenUp
  BY <1>4, SaveStep
<1>5. ASSUME NEW r \in Requests, Abandon(r) PROVE Inv' /\ StaysTakenUp
  <2>1. /\ req' = [req EXCEPT ![r] = NoRequest] /\ faults' = faults + 1
        /\ UNCHANGED <<incidents, over, worker>>
    BY <1>5 DEF Abandon, Fault
  <2>2. TypeOK'
    BY <1>1, <2>1, NobodyHolds DEF TypeOK
  <2>3. \A s \in Requests : req'[s] = req[s] \/ req'[s] = NoRequest
    BY <1>1, <2>1 DEF TypeOK
  <2> QED
    BY <2>1, <2>2, <2>3, TableKept, Returned DEF Inv
<1>6. CASE ListOver
  <2>1. /\ worker' = [todo |-> over, point |-> None, id |-> 0]
        /\ UNCHANGED <<incidents, over, req, faults>>
    BY <1>6 DEF ListOver, NoWork
  <2>2. TypeOK'
    BY <1>1, <2>1 DEF TypeOK
  <2> QED
    BY <2>1, <2>2, TableKept DEF Inv
<1>7. ASSUME NEW p \in Points, CheckPoint(p) PROVE Inv' /\ StaysTakenUp
  BY <1>7, CheckStep
<1>8. CASE ReportOverflow \/ InsertOverflow
  BY <1>8, ReportOverflowStep, InsertOverflowStep
<1>9. ASSUME NEW p \in Points, LoadChanges(p) PROVE Inv' /\ StaysTakenUp
  <2>1. TypeOK' /\ UNCHANGED <<incidents, req, worker>>
    BY <1>1, <1>9 DEF LoadChanges, TypeOK
  <2> QED
    BY <2>1, TableKept DEF Inv
<1>10. ASSUME NEW p \in Points, SkipPoint(p) PROVE Inv' /\ StaysTakenUp
  <2>1. /\ worker' = [todo |-> worker.todo \ {p}, point |-> None, id |-> 0]
        /\ faults' = faults + 1 /\ UNCHANGED <<incidents, over, req>>
    BY <1>10 DEF SkipPoint, NextPoint, NoWork, Fault
  <2>2. TypeOK'
    BY <1>1, <2>1 DEF TypeOK
  <2> QED
    BY <2>1, <2>2, TableKept DEF Inv
<1>11. CASE Crash
  <2>1. /\ req' = [r \in Requests |-> NoRequest] /\ worker' = NoWork
        /\ faults' = faults + 1 /\ UNCHANGED <<incidents, over>>
    BY <1>11 DEF Crash, Fault
  <2>2. TypeOK' /\ worker'.point = None /\ worker'.id = 0
    BY <1>1, <2>1, NobodyHolds DEF TypeOK, NoWork
  <2>3. \A s \in Requests : req'[s] = NoRequest
    BY <2>1
  <2> QED
    BY <2>1, <2>2, <2>3, TableKept, Returned DEF Inv
<1>12. CASE UNCHANGED vars
  <2>1. UNCHANGED <<incidents, over, req, worker, faults>>
    BY <1>12 DEF vars
  <2>2. TypeOK'
    BY <1>1, <2>1 DEF TypeOK
  <2> QED
    BY <2>1, <2>2, TableKept DEF Inv
<1> QED
  BY <1>2, <1>3, <1>4, <1>5, <1>6, <1>7, <1>8, <1>9, <1>10, <1>11, <1>12 DEF Next, Worker

LEMMA InvHolds == Spec => []Inv
  BY InvInit, InvStep, PTL DEF Spec

-----------------------------------------------------------------------------

\* Every variable keeps its declared shape, for any number of requests, points,
\* users and incidents.
THEOREM TypeCorrect == Spec => []TypeOK
<1>1. Inv => TypeOK
  BY DEF Inv
<1> QED
  BY <1>1, InvHolds, PTL

\* Unversioned updates overwrite each other, but no row mixes two of them.
THEOREM RowsStayWhole == Spec => []RowsWhole
<1>1. Inv => RowsWhole
  BY DEF Inv
<1> QED
  BY <1>1, InvHolds, PTL

\* The worker repeats a report only past a later incident of another type.
THEOREM RepeatsOnlyHidden == Spec => []RepeatsExplained
<1>1. Inv => RepeatsExplained
  BY DEF Inv
<1> QED
  BY <1>1, InvHolds, PTL

\* A reported incident stays reported, is not open again once taken up, and stays
\* about the same thing.
THEOREM StaysTaken == Spec => NeverReopened
<1>1. Inv /\ [Next]_vars => [StaysTakenUp]_vars
  BY InvStep
<1> QED
  BY <1>1, InvHolds, PTL DEF Spec, NeverReopened, StaysTakenUp
=============================================================================

-------------------------- MODULE Sessions_proofs --------------------------
(***************************************************************************)
(* Theorems about Sessions: type correctness, no session without its user, *)
(* no session used again once it is over, and what a logout achieves.      *)
(***************************************************************************)
EXTENDS Sessions, TLAPS

\* The rows there are belong to a user, live or not.
RowsKnown ==
    \A k \in Tokens : sessions[k] = NoSession \/ sessions[k].user \in Users

\* A token drawn by a login is no other request's and no session's.
DrawnOnce ==
    \A r \in Requests : req[r].pc = "insertSession" =>
        /\ sessions[req[r].token] = NoSession
        /\ \A s \in Requests : req[s].token = req[r].token => s = r

\* A token that was validated is that of a session that was created.
Presented ==
    \A r \in Requests :
        req[r].pc \in {"getUser", "getLoggedOut", "revoke"}
            => sessions[req[r].token] # NoSession

Inv == TypeOK /\ SessionsOwned /\ RowsKnown /\ DrawnOnce /\ Presented

\* What every statement but the INSERT may do to a session.
Evolves(old, new) ==
    /\ new.user = old.user /\ new.expires = old.expires
    /\ ~old.live => ~new.live
    /\ old.revokedAt # Never => new.revokedAt = old.revokedAt
    /\ new = NoSession <=> old = NoSession

SessionsEvolve == \A k \in Tokens : Evolves(sessions[k], sessions'[k])

LEMMA EmptyRows ==
    /\ NoUser \in UserRow /\ NoSession \in SessionRow
    /\ ~NoUser.live /\ ~NoSession.live /\ NoSession.user = None /\ None \notin Users
    /\ NoRequest \in Request /\ NoRequest.pc = "idle" /\ NoRequest.token = None
    /\ None \notin Tokens
  BY NobodyAssumption
  DEF NoUser, UserRow, UserStatuses, NoSession, SessionRow, Times, Never, NoRequest, Request

LEMMA InvInit == Init => Inv
<1> SUFFICES ASSUME Init PROVE Inv
  OBVIOUS
<1>1. TypeOK
  BY EmptyRows DEF Init, TypeOK, NamesRows
<1>2. SessionsOwned /\ RowsKnown /\ DrawnOnce /\ Presented
  BY EmptyRows DEF Init, SessionsOwned, RowsKnown, DrawnOnce, Presented
<1> QED
  BY <1>1, <1>2 DEF Inv

-----------------------------------------------------------------------------
(* The statements that change sessions. *)

\* The rows that Touched, RevokedRow and Deleted make of a row.
LEMMA RowChanges ==
    ASSUME TypeOK, NEW row \in SessionRow, row = NoSession \/ row.user \in Users
    PROVE  /\ row.live => Touched(row) \in SessionRow /\ Evolves(row, Touched(row))
           /\ RevokedRow(row) \in SessionRow /\ Evolves(row, RevokedRow(row))
           /\ Deleted(row) \in SessionRow /\ Evolves(row, Deleted(row))
           /\ Evolves(row, row)
<1>1. clock \in Nat
  BY DEF TypeOK
<1>2. ASSUME row.live PROVE Touched(row) \in SessionRow /\ Evolves(row, Touched(row))
  BY <1>1, <1>2, EmptyRows DEF Touched, SessionRow, Evolves
<1>3. RevokedRow(row) \in SessionRow /\ Evolves(row, RevokedRow(row))
  BY <1>1, EmptyRows DEF RevokedRow, SessionRow, Evolves, Times
<1>4. Deleted(row) \in SessionRow /\ Evolves(row, Deleted(row))
  BY EmptyRows DEF Deleted, SessionRow, Evolves, NoSession
<1>5. Evolves(row, row)
  BY DEF Evolves
<1> QED
  BY <1>2, <1>3, <1>4, <1>5

\* One session changes.
LEMMA OneSession ==
    ASSUME Inv, NEW k \in Tokens, NEW row \in SessionRow, Evolves(sessions[k], row),
           sessions' = [sessions EXCEPT ![k] = row]
    PROVE  sessions' \in [Tokens -> SessionRow] /\ SessionsEvolve
<1>1. \A l \in Tokens : Evolves(sessions[l], sessions[l])
  BY DEF Evolves
<1> QED
  BY <1>1 DEF Inv, TypeOK, SessionsEvolve

\* Every session may change.
LEMMA AllSessions ==
    ASSUME Inv, NEW rows,
           sessions' = [k \in Tokens |-> rows[k]],
           \A k \in Tokens : rows[k] \in SessionRow /\ Evolves(sessions[k], rows[k])
    PROVE  sessions' \in [Tokens -> SessionRow] /\ SessionsEvolve
  BY DEF SessionsEvolve

\* No statement but the INSERT disturbs what requests know of sessions.
LEMMA EvolvedSessions ==
    ASSUME Inv, SessionsEvolve, req' = req
    PROVE  RowsKnown' /\ DrawnOnce' /\ Presented'
<1>1. RowsKnown'
  BY DEF Inv, RowsKnown, SessionsEvolve, Evolves
<1>2. \A r \in Requests : req[r].pc # "idle" => req[r].token \in Tokens
  BY DEF Inv, TypeOK, NamesRows
<1>3. DrawnOnce'
  BY <1>2 DEF Inv, DrawnOnce, SessionsEvolve, Evolves
<1>4. Presented'
  BY <1>2 DEF Inv, Presented, SessionsEvolve, Evolves
<1> QED
  BY <1>1, <1>3, <1>4

\* A session that evolves while users stay keeps its user.
LEMMA EvolvedOwned ==
    ASSUME Inv, SessionsEvolve,
           \A u \in Users : users[u].live => users'[u].live
    PROVE  SessionsOwned'
  BY DEF Inv, TypeOK, SessionRow, SessionsOwned, SessionsEvolve, Evolves

\* A request returns, whatever its statement did to sessions.
LEMMA Returned ==
    ASSUME Inv, SessionsEvolve, NEW r \in Requests, Return(r)
    PROVE  /\ req' \in [Requests -> Request] /\ \A s \in Requests : NamesRows(req'[s])
           /\ RowsKnown' /\ DrawnOnce' /\ Presented'
<1>1. req' \in [Requests -> Request] /\ \A s \in Requests : NamesRows(req'[s])
  BY EmptyRows DEF Inv, TypeOK, Return, NamesRows
<1>2. RowsKnown'
  BY DEF Inv, RowsKnown, SessionsEvolve, Evolves
<1>3. \A s \in Requests : req[s].pc # "idle" => req[s].token \in Tokens
  BY DEF Inv, TypeOK, NamesRows
<1>4. \A s \in Requests : req'[s] = req[s] \/ req'[s] = NoRequest
  BY DEF Inv, TypeOK, Return
<1>5. DrawnOnce'
  <2> SUFFICES ASSUME NEW s \in Requests, req'[s].pc = "insertSession"
               PROVE  /\ sessions'[req'[s].token] = NoSession
                      /\ \A w \in Requests : req'[w].token = req'[s].token => w = s
    BY DEF DrawnOnce
  <2>1. req'[s] = req[s] /\ req[s].token \in Tokens
    BY <1>3, <1>4, EmptyRows
  <2> QED
    BY <1>4, <2>1, EmptyRows DEF Inv, DrawnOnce, SessionsEvolve, Evolves
<1>6. Presented'
  BY <1>3, <1>4, EmptyRows DEF Inv, Presented, SessionsEvolve, Evolves
<1> QED
  BY <1>1, <1>2, <1>5, <1>6

\* The tables stay.
LEMMA TablesKept ==
    ASSUME Inv, UNCHANGED db
    PROVE  SessionsEvolve /\ SessionsOwned'
<1>1. SessionsEvolve
  BY DEF db, SessionsEvolve, Evolves
<1> QED
  BY <1>1, EvolvedOwned DEF db

-----------------------------------------------------------------------------
(* Every step preserves the invariant; all but the INSERT let sessions evolve. *)

LEMMA LoginKeeps ==
    ASSUME Inv, NEW r \in Requests, NEW u \in Users, NEW k \in Tokens, Login(r, u, k)
    PROVE  Inv' /\ SessionsEvolve
<1> DEFINE q == [NoRequest EXCEPT !.pc = "insertSession", !.user = u, !.token = k,
                                  !.expires = clock + Expiry]
<1>1. req' = [req EXCEPT ![r] = q] /\ UNCHANGED <<db, touching, clock, faults>>
  BY DEF Login
<1>2. clock + Expiry \in Nat
  BY TimesAssumption DEF Inv, TypeOK
<1>3. q \in Request /\ q.pc = "insertSession" /\ q.token = k /\ q.user = u
  BY <1>2 DEF NoRequest, Request
<1> HIDE DEF q
<1>4. sessions[k] = NoSession /\ \A s \in Requests : req[s].token # k
  BY DEF Login, Drawn
<1>5. TypeOK'
  BY <1>1, <1>3 DEF Inv, TypeOK, NamesRows, db
<1>6. SessionsEvolve /\ SessionsOwned'
  BY <1>1, TablesKept
<1>7. RowsKnown'
  BY <1>1 DEF Inv, RowsKnown, db
<1>8. \A s \in Requests : req'[s] = IF s = r THEN q ELSE req[s]
  BY <1>1 DEF Inv, TypeOK
<1>9. DrawnOnce'
  BY <1>1, <1>3, <1>4, <1>8 DEF Inv, DrawnOnce, db
<1>10. Presented'
  BY <1>1, <1>3, <1>8 DEF Inv, Presented, db
<1> QED
  BY <1>5, <1>6, <1>7, <1>9, <1>10 DEF Inv

LEMMA GetSessionKeeps ==
    ASSUME Inv, NEW r \in Requests, NEW k \in Tokens, GetSession(r, k)
    PROVE  Inv' /\ SessionsEvolve
<1>1. PICK route \in {"logout", "other"}, scheme \in Schemes :
        req' = [req EXCEPT ![r] = [NoRequest EXCEPT !.pc = "getUser", !.token = k,
                                      !.user = sessions[k].user,
                                      !.route = route, !.scheme = scheme]]
  BY DEF GetSession
<1> DEFINE q == [NoRequest EXCEPT !.pc = "getUser", !.token = k, !.user = sessions[k].user,
                                  !.route = route, !.scheme = scheme]
<1>2. sessions[k].live /\ sessions[k].user \in Users
  BY DEF GetSession, Valid, Inv, SessionsOwned
<1>3. q \in Request /\ q.pc = "getUser" /\ q.token = k /\ q.user \in Users
  BY <1>2 DEF NoRequest, Request
<1>4. req' = [req EXCEPT ![r] = q] /\ UNCHANGED <<db, touching, clock, faults>>
  BY <1>1 DEF GetSession
<1> HIDE DEF q
<1>5. TypeOK'
  BY <1>3, <1>4 DEF Inv, TypeOK, NamesRows, db
<1>6. SessionsEvolve /\ SessionsOwned'
  BY <1>4, TablesKept
<1>7. RowsKnown'
  BY <1>4 DEF Inv, RowsKnown, db
<1>8. \A s \in Requests : req'[s] = IF s = r THEN q ELSE req[s]
  BY <1>4 DEF Inv, TypeOK
<1>9. sessions[k] # NoSession
  BY <1>2, EmptyRows
<1>10. DrawnOnce'
  BY <1>3, <1>4, <1>8, <1>9 DEF Inv, DrawnOnce, db
<1>11. Presented'
  BY <1>3, <1>4, <1>8, <1>9 DEF Inv, Presented, db
<1> QED
  BY <1>5, <1>6, <1>7, <1>10, <1>11 DEF Inv

\* A request that was validated goes on to its next statement.
LEMMA GoesOn ==
    ASSUME Inv, NEW r \in Requests, req[r].pc \in {"getUser", "getLoggedOut"},
           NEW pc \in {"getLoggedOut", "revoke"},
           req' = [req EXCEPT ![r] = [req[r] EXCEPT !.pc = pc]],
           UNCHANGED db
    PROVE  /\ req' \in [Requests -> Request] /\ \A s \in Requests : NamesRows(req'[s])
           /\ RowsKnown' /\ DrawnOnce' /\ Presented'
<1> DEFINE q == [req[r] EXCEPT !.pc = pc]
<1>1. req[r] \in Request /\ req[r].token \in Tokens
  BY DEF Inv, TypeOK, NamesRows
<1>2. q \in Request /\ q.pc = pc /\ q.token = req[r].token
  BY <1>1 DEF Request
<1> HIDE DEF q
<1>3. \A s \in Requests : req'[s] = IF s = r THEN q ELSE req[s]
  BY DEF q, Inv, TypeOK
<1>4. req' \in [Requests -> Request] /\ \A s \in Requests : NamesRows(req'[s])
  BY <1>1, <1>2, <1>3 DEF q, Inv, TypeOK, NamesRows
<1>5. RowsKnown'
  BY DEF Inv, RowsKnown, db
<1>6. DrawnOnce'
  BY <1>2, <1>3 DEF Inv, DrawnOnce, db
<1>7. Presented'
  BY <1>2, <1>3 DEF Inv, Presented, db
<1> QED
  BY <1>4, <1>5, <1>6, <1>7

LEMMA GetUserKeeps ==
    ASSUME Inv, NEW r \in Requests, GetUser(r)
    PROVE  Inv' /\ SessionsEvolve
<1>1. req[r].token \in Tokens /\ req[r] \in Request
  BY DEF GetUser, Inv, TypeOK, NamesRows
<1>2. UNCHANGED <<db, clock, faults>> /\ req[r].pc = "getUser"
  BY DEF GetUser
<1>3. SessionsEvolve /\ SessionsOwned'
  BY <1>2, TablesKept
<1>4. touching' \in [Requests -> Tokens \cup {None}]
  BY <1>1 DEF GetUser, Inv, TypeOK
<1>5. /\ req' \in [Requests -> Request] /\ \A s \in Requests : NamesRows(req'[s])
      /\ RowsKnown' /\ DrawnOnce' /\ Presented'
  <2>1. CASE req' = [req EXCEPT ![r] = [req[r] EXCEPT !.pc = "getLoggedOut"]]
    BY <1>2, <2>1, GoesOn
  <2>2. CASE Return(r)
    BY <1>3, <2>2, Returned
  <2>3. \/ req' = [req EXCEPT ![r] = [req[r] EXCEPT !.pc = "getLoggedOut"]]
        \/ Return(r)
    BY DEF GetUser, Return
  <2> QED
    BY <2>1, <2>2, <2>3
<1>6. TypeOK'
  BY <1>2, <1>4, <1>5 DEF Inv, TypeOK, db
<1> QED
  BY <1>3, <1>5, <1>6 DEF Inv

LEMMA GetLoggedOutKeeps ==
    ASSUME Inv, NEW r \in Requests, GetLoggedOut(r)
    PROVE  Inv' /\ SessionsEvolve
<1>1. UNCHANGED <<db, touching, clock, faults>> /\ req[r].pc = "getLoggedOut"
  BY DEF GetLoggedOut
<1>2. SessionsEvolve /\ SessionsOwned'
  BY <1>1, TablesKept
<1>3. /\ req' \in [Requests -> Request] /\ \A s \in Requests : NamesRows(req'[s])
      /\ RowsKnown' /\ DrawnOnce' /\ Presented'
  <2>1. CASE req' = [req EXCEPT ![r] = [req[r] EXCEPT !.pc = "revoke"]]
    BY <1>1, <2>1, GoesOn
  <2>2. CASE Return(r)
    BY <1>2, <2>2, Returned
  <2>3. \/ req' = [req EXCEPT ![r] = [req[r] EXCEPT !.pc = "revoke"]]
        \/ Return(r)
    BY DEF GetLoggedOut
  <2> QED
    BY <2>1, <2>2, <2>3
<1>4. TypeOK'
  BY <1>1, <1>3 DEF Inv, TypeOK, db
<1> QED
  BY <1>2, <1>3, <1>4 DEF Inv

LEMMA UpdateLastSeenKeeps ==
    ASSUME Inv, NEW r \in Requests, UpdateLastSeen(r)
    PROVE  Inv' /\ SessionsEvolve
<1> DEFINE k == touching[r]
<1>1. k \in Tokens /\ UNCHANGED <<users, req, clock, faults>>
  BY DEF UpdateLastSeen, Inv, TypeOK
<1>2. sessions[k] \in SessionRow /\ (sessions[k] = NoSession \/ sessions[k].user \in Users)
  BY <1>1 DEF Inv, TypeOK, RowsKnown
<1>3. sessions' \in [Tokens -> SessionRow] /\ SessionsEvolve
  <2>1. CASE sessions[k].live
    <3>1. sessions' = [sessions EXCEPT ![k] = Touched(sessions[k])]
      BY <2>1 DEF UpdateLastSeen
    <3>2. Touched(sessions[k]) \in SessionRow /\ Evolves(sessions[k], Touched(sessions[k]))
      BY <1>2, <2>1, RowChanges DEF Inv
    <3> QED
      BY <1>1, <3>1, <3>2, OneSession
  <2>2. CASE ~sessions[k].live
    BY <2>2 DEF UpdateLastSeen, Inv, TypeOK, SessionsEvolve, Evolves
  <2> QED
    BY <2>1, <2>2
<1>4. TypeOK'
  BY <1>1, <1>3 DEF Inv, TypeOK, UpdateLastSeen
<1>5. RowsKnown' /\ DrawnOnce' /\ Presented' /\ SessionsOwned'
  BY <1>1, <1>3, EvolvedSessions, EvolvedOwned
<1> QED
  BY <1>3, <1>4, <1>5 DEF Inv

LEMMA RevokeKeeps ==
    ASSUME Inv, NEW r \in Requests, Revoke(r)
    PROVE  Inv' /\ SessionsEvolve
<1> DEFINE k == req[r].token
<1>1. k \in Tokens /\ UNCHANGED <<users, touching, clock, faults>> /\ Return(r)
  BY DEF Revoke, Inv, TypeOK, NamesRows
<1>2. sessions[k] \in SessionRow /\ (sessions[k] = NoSession \/ sessions[k].user \in Users)
  BY <1>1 DEF Inv, TypeOK, RowsKnown
<1>3. RevokedRow(sessions[k]) \in SessionRow /\ Evolves(sessions[k], RevokedRow(sessions[k]))
  BY <1>2, RowChanges DEF Inv
<1>4. sessions' = [sessions EXCEPT ![k] = RevokedRow(sessions[k])]
  BY DEF Revoke
<1>5. sessions' \in [Tokens -> SessionRow] /\ SessionsEvolve
  BY <1>1, <1>3, <1>4, OneSession
<1>6. /\ req' \in [Requests -> Request] /\ \A s \in Requests : NamesRows(req'[s])
      /\ RowsKnown' /\ DrawnOnce' /\ Presented'
  BY <1>1, <1>5, Returned
<1>7. TypeOK'
  BY <1>1, <1>5, <1>6 DEF Inv, TypeOK
<1>8. SessionsOwned'
  BY <1>1, <1>5, EvolvedOwned
<1> QED
  BY <1>5, <1>6, <1>7, <1>8 DEF Inv

\* A step of which sessions, requests and goroutines keep their shape.
LEMMA RowsStep ==
    ASSUME Inv, NEW rows, req' = req,
           UNCHANGED <<touching, clock, faults>>, users' \in [Users -> UserRow],
           sessions' = [k \in Tokens |-> rows[k]],
           \A k \in Tokens : rows[k] \in SessionRow /\ Evolves(sessions[k], rows[k])
    PROVE  TypeOK' /\ SessionsEvolve /\ RowsKnown' /\ DrawnOnce' /\ Presented'
<1>1. sessions' \in [Tokens -> SessionRow] /\ SessionsEvolve
  BY AllSessions
<1>2. TypeOK'
  BY <1>1 DEF Inv, TypeOK
<1> QED
  BY <1>1, <1>2, EvolvedSessions

\* The rows of the table, as RowChanges needs them.
LEMMA StoredRows ==
    ASSUME Inv, NEW k \in Tokens
    PROVE  sessions[k] \in SessionRow /\ (sessions[k] = NoSession \/ sessions[k].user \in Users)
  BY DEF Inv, TypeOK, RowsKnown

LEMMA RevokeAllForUserKeeps ==
    ASSUME Inv, NEW u \in Users, RevokeAllForUser(u)
    PROVE  Inv' /\ SessionsEvolve
<1> DEFINE rows == [k \in Tokens |-> IF sessions[k].user = u
                                     THEN RevokedRow(sessions[k])
                                     ELSE sessions[k]]
<1>1. sessions' = [k \in Tokens |-> rows[k]] /\ UNCHANGED <<users, req, touching, clock, faults>>
  BY DEF RevokeAllForUser
<1>2. \A k \in Tokens : rows[k] \in SessionRow /\ Evolves(sessions[k], rows[k])
  BY StoredRows, RowChanges DEF Inv
<1> HIDE DEF rows
<1>3. users' \in [Users -> UserRow]
  BY <1>1 DEF Inv, TypeOK
<1>4. TypeOK' /\ SessionsEvolve /\ RowsKnown' /\ DrawnOnce' /\ Presented'
  BY <1>1, <1>2, <1>3, RowsStep
<1>5. SessionsOwned'
  BY <1>1, <1>4, EvolvedOwned
<1> QED
  BY <1>4, <1>5 DEF Inv

LEMMA DeleteExpiredKeeps ==
    ASSUME Inv, DeleteExpired
    PROVE  Inv' /\ SessionsEvolve
<1> DEFINE rows == [k \in Tokens |-> IF MayDelete(sessions[k])
                                     THEN Deleted(sessions[k])
                                     ELSE sessions[k]]
<1>1. sessions' = [k \in Tokens |-> rows[k]] /\ UNCHANGED <<users, req, touching, clock, faults>>
  BY DEF DeleteExpired
<1>2. \A k \in Tokens : rows[k] \in SessionRow /\ Evolves(sessions[k], rows[k])
  BY StoredRows, RowChanges DEF Inv
<1> HIDE DEF rows
<1>3. users' \in [Users -> UserRow]
  BY <1>1 DEF Inv, TypeOK
<1>4. TypeOK' /\ SessionsEvolve /\ RowsKnown' /\ DrawnOnce' /\ Presented'
  BY <1>1, <1>2, <1>3, RowsStep
<1>5. SessionsOwned'
  BY <1>1, <1>4, EvolvedOwned
<1> QED
  BY <1>4, <1>5 DEF Inv

\* The cascade takes the sessions of the user along.
LEMMA DeleteUserKeeps ==
    ASSUME Inv, NEW u \in Users, DeleteUser(u)
    PROVE  Inv' /\ SessionsEvolve
<1> DEFINE rows == [k \in Tokens |-> IF sessions[k].user = u
                                     THEN Deleted(sessions[k])
                                     ELSE sessions[k]]
<1>1. sessions' = [k \in Tokens |-> rows[k]] /\ UNCHANGED <<req, touching, clock, faults>>
  BY DEF DeleteUser
<1>2. \A k \in Tokens : rows[k] \in SessionRow /\ Evolves(sessions[k], rows[k])
  BY StoredRows, RowChanges DEF Inv
<1>3. \A k \in Tokens : rows[k].live => sessions[k].live /\ sessions[k].user # u
                                        /\ rows[k].user = sessions[k].user
  BY StoredRows DEF Deleted, SessionRow
<1> HIDE DEF rows
<1>4. users' \in [Users -> UserRow]
  BY DEF DeleteUser, Deleted, Inv, TypeOK, UserRow
<1>5. TypeOK' /\ SessionsEvolve /\ RowsKnown' /\ DrawnOnce' /\ Presented'
  BY <1>1, <1>2, <1>4, RowsStep
<1>6. \A w \in Users \ {u} : users'[w] = users[w]
  BY DEF DeleteUser, Inv, TypeOK
<1>7. SessionsOwned'
  BY <1>1, <1>3, <1>6 DEF Inv, SessionsOwned
<1> QED
  BY <1>5, <1>7 DEF Inv

\* Users are added and changed; sessions are not concerned.
LEMMA UsersStep ==
    ASSUME Inv, NEW u \in Users, NEW row \in UserRow, row.live,
           users' = [users EXCEPT ![u] = row],
           UNCHANGED <<sessions, req, touching, clock, faults>>
    PROVE  Inv' /\ SessionsEvolve
<1>1. users' \in [Users -> UserRow] /\ \A w \in Users : users[w].live => users'[w].live
  BY DEF Inv, TypeOK
<1>2. TypeOK'
  BY <1>1 DEF Inv, TypeOK
<1>3. SessionsEvolve
  BY DEF SessionsEvolve, Evolves
<1> QED
  BY <1>1, <1>2, <1>3, EvolvedOwned, EvolvedSessions DEF Inv

LEMMA RegisterKeeps ==
    ASSUME Inv, NEW u \in Users, NEW n \in Names, Register(u, n)
    PROVE  Inv' /\ SessionsEvolve
<1>1. [NoUser EXCEPT !.live = TRUE, !.name = n] \in UserRow
      /\ [NoUser EXCEPT !.live = TRUE, !.name = n].live
  BY DEF NoUser, UserRow, UserStatuses
<1> QED
  BY <1>1, UsersStep DEF Register

LEMMA UpdateUserKeeps ==
    ASSUME Inv, NEW u \in Users, UpdateUser(u)
    PROVE  Inv' /\ SessionsEvolve
<1>1. PICK s \in UserStatuses : users' = [users EXCEPT ![u].status = s]
  BY DEF UpdateUser
<1>2. users[u] \in UserRow /\ users[u].live
  BY DEF UpdateUser, Inv, TypeOK
<1>3. [users[u] EXCEPT !.status = s] \in UserRow /\ [users[u] EXCEPT !.status = s].live
  BY <1>2 DEF UserRow
<1> QED
  BY <1>1, <1>3, UsersStep DEF UpdateUser

LEMMA TickKeeps ==
    ASSUME Inv, Tick
    PROVE  Inv' /\ SessionsEvolve
<1>1. UNCHANGED <<db, req, touching, faults>> /\ clock' \in Nat
  BY DEF Tick, Inv, TypeOK
<1>2. TypeOK'
  BY <1>1 DEF Inv, TypeOK, db
<1>3. SessionsEvolve /\ SessionsOwned'
  BY <1>1, TablesKept
<1> QED
  BY <1>1, <1>2, <1>3, EvolvedSessions DEF Inv

LEMMA AbandonKeeps ==
    ASSUME Inv, NEW r \in Requests, Abandon(r)
    PROVE  Inv' /\ SessionsEvolve
<1>1. UNCHANGED <<db, touching, clock>> /\ faults' \in Nat /\ Return(r)
  BY DEF Abandon, Fault, Inv, TypeOK
<1>2. SessionsEvolve /\ SessionsOwned'
  BY <1>1, TablesKept
<1>3. /\ req' \in [Requests -> Request] /\ \A s \in Requests : NamesRows(req'[s])
      /\ RowsKnown' /\ DrawnOnce' /\ Presented'
  BY <1>1, <1>2, Returned
<1>4. TypeOK'
  BY <1>1, <1>3 DEF Inv, TypeOK, db
<1> QED
  BY <1>2, <1>3, <1>4 DEF Inv

LEMMA SkipLastSeenKeeps ==
    ASSUME Inv, NEW r \in Requests, SkipLastSeen(r)
    PROVE  Inv' /\ SessionsEvolve
<1>1. UNCHANGED <<db, req, clock>> /\ faults' \in Nat
  BY DEF SkipLastSeen, Fault, Inv, TypeOK
<1>2. TypeOK'
  BY <1>1 DEF Inv, TypeOK, db, SkipLastSeen
<1>3. SessionsEvolve /\ SessionsOwned'
  BY <1>1, TablesKept
<1> QED
  BY <1>1, <1>2, <1>3, EvolvedSessions DEF Inv

LEMMA CrashKeeps ==
    ASSUME Inv, Crash
    PROVE  Inv' /\ SessionsEvolve
<1>1. /\ UNCHANGED <<db, clock>> /\ faults' \in Nat
      /\ req' = [r \in Requests |-> NoRequest] /\ touching' = [r \in Requests |-> None]
  BY DEF Crash, Fault, Inv, TypeOK
<1>2. TypeOK'
  BY <1>1, EmptyRows DEF Inv, TypeOK, NamesRows, db
<1>3. SessionsEvolve /\ SessionsOwned'
  BY <1>1, TablesKept
<1>4. RowsKnown' /\ DrawnOnce' /\ Presented'
  BY <1>1, EmptyRows DEF Inv, RowsKnown, DrawnOnce, Presented, db
<1> QED
  BY <1>2, <1>3, <1>4 DEF Inv

\* The INSERT fills a row that was empty, and no other.
Inserts(r) ==
    /\ req[r].pc = "insertSession" /\ sessions[req[r].token] = NoSession
    /\ \A k \in Tokens \ {req[r].token} : sessions'[k] = sessions[k]

LEMMA InsertSessionKeeps ==
    ASSUME Inv, NEW r \in Requests, InsertSession(r)
    PROVE  Inv' /\ Inserts(r)
<1> DEFINE q == req[r]
           k == req[r].token
           row == [live |-> TRUE, user |-> q.user, expires |-> q.expires,
                   seen |-> clock, revokedAt |-> Never]
<1>1. /\ q \in Request /\ q.pc = "insertSession" /\ k \in Tokens /\ q.user \in Users
      /\ UNCHANGED <<users, touching, clock, faults>> /\ Return(r)
  BY DEF InsertSession, Inv, TypeOK, NamesRows
<1>2. sessions[k] = NoSession /\ \A s \in Requests : req[s].token = k => s = r
  BY <1>1 DEF Inv, DrawnOnce
<1>3. CASE ~users[q.user].live
  <2>1. sessions' = sessions
    BY <1>3 DEF InsertSession
  <2>2. SessionsEvolve /\ SessionsOwned'
    BY <1>1, <2>1, TablesKept DEF db
  <2>3. /\ req' \in [Requests -> Request] /\ \A s \in Requests : NamesRows(req'[s])
        /\ RowsKnown' /\ DrawnOnce' /\ Presented'
    BY <1>1, <2>2, Returned
  <2>4. TypeOK'
    BY <1>1, <2>1, <2>3 DEF Inv, TypeOK
  <2> QED
    BY <1>1, <1>2, <2>1, <2>2, <2>3, <2>4 DEF Inv, Inserts
<1>4. CASE users[q.user].live
  <2>1. sessions' = [sessions EXCEPT ![k] = row]
    BY <1>4 DEF InsertSession
  <2>2. row \in SessionRow /\ row.user = q.user
    BY <1>1 DEF Request, SessionRow, Times, Inv, TypeOK
  <2>3. row # NoSession
    BY <1>1, <2>2, EmptyRows
  <2> HIDE DEF row
  <2>4. \A l \in Tokens : sessions'[l] = IF l = k THEN row ELSE sessions[l]
    BY <2>1 DEF Inv, TypeOK
  <2>5. \A s \in Requests : req'[s] = IF s = r THEN NoRequest ELSE req[s]
    BY <1>1 DEF Inv, TypeOK, Return
  <2>6. TypeOK'
    BY <1>1, <2>1, <2>2, <2>5, EmptyRows DEF Inv, TypeOK, NamesRows, Return
  <2>7. SessionsOwned'
    BY <1>1, <1>4, <2>2, <2>4 DEF Inv, SessionsOwned
  <2>8. RowsKnown'
    BY <1>1, <2>2, <2>4 DEF Inv, RowsKnown
  <2>9. \A s \in Requests : req[s].pc # "idle" => req[s].token \in Tokens
    BY DEF Inv, TypeOK, NamesRows
  <2>10. DrawnOnce'
    <3> SUFFICES ASSUME NEW s \in Requests, req'[s].pc = "insertSession"
                 PROVE  /\ sessions'[req'[s].token] = NoSession
                        /\ \A w \in Requests : req'[w].token = req'[s].token => w = s
      BY DEF DrawnOnce
    <3>1. s # r /\ req'[s] = req[s] /\ req[s].token \in Tokens
      BY <2>5, <2>9, EmptyRows
    <3>2. req[s].token # k
      BY <1>2, <3>1
    <3> QED
      BY <2>4, <2>5, <3>1, <3>2, EmptyRows DEF Inv, DrawnOnce
  <2>11. Presented'
    BY <2>3, <2>4, <2>5, <2>9, EmptyRows DEF Inv, Presented
  <2>12. Inserts(r)
    BY <1>1, <1>2, <2>4 DEF Inserts
  <2> QED
    BY <2>6, <2>7, <2>8, <2>10, <2>11, <2>12 DEF Inv
<1> QED
  BY <1>3, <1>4
-----------------------------------------------------------------------------
(* The specification *)

\* What a step does to the sessions, and to the clock that expires them.
SessionsStep ==
    /\ SessionsEvolve \/ \E r \in Requests : Inserts(r)
    /\ clock \in Nat /\ clock' \in Nat /\ clock <= clock'

LEMMA NextKeeps ==
    ASSUME Inv, [Next]_vars
    PROVE  Inv' /\ SessionsStep
<1>1. Inv' /\ (SessionsEvolve \/ \E r \in Requests : Inserts(r))
  <2>1. ASSUME NEW r \in Requests, NEW k \in Tokens, GetSession(r, k)
        PROVE  Inv' /\ SessionsEvolve
    BY <2>1, GetSessionKeeps
  <2>2. ASSUME NEW r \in Requests, NEW k \in Tokens, NEW u \in Users, Login(r, u, k)
        PROVE  Inv' /\ SessionsEvolve
    BY <2>2, LoginKeeps
  <2>3. ASSUME NEW r \in Requests, InsertSession(r)
        PROVE  Inv' /\ \E s \in Requests : Inserts(s)
    BY <2>3, InsertSessionKeeps
  <2>4. ASSUME NEW r \in Requests,
               GetUser(r) \/ GetLoggedOut(r) \/ Revoke(r) \/ UpdateLastSeen(r)
        PROVE  Inv' /\ SessionsEvolve
    BY <2>4, GetUserKeeps, GetLoggedOutKeeps, RevokeKeeps, UpdateLastSeenKeeps
  <2>5. ASSUME NEW r \in Requests, Abandon(r) \/ SkipLastSeen(r)
        PROVE  Inv' /\ SessionsEvolve
    BY <2>5, AbandonKeeps, SkipLastSeenKeeps
  <2>6. ASSUME NEW u \in Users, NEW n \in Names, Register(u, n)
        PROVE  Inv' /\ SessionsEvolve
    BY <2>6, RegisterKeeps
  <2>7. ASSUME NEW u \in Users, RevokeAllForUser(u) \/ UpdateUser(u) \/ DeleteUser(u)
        PROVE  Inv' /\ SessionsEvolve
    BY <2>7, RevokeAllForUserKeeps, UpdateUserKeeps, DeleteUserKeeps
  <2>8. CASE DeleteExpired
    BY <2>8, DeleteExpiredKeeps
  <2>9. CASE Tick
    BY <2>9, TickKeeps
  <2>10. CASE Crash
    BY <2>10, CrashKeeps
  <2>11. CASE UNCHANGED vars
    <3>1. UNCHANGED <<users, sessions, req, touching, clock, faults>>
      BY <2>11 DEF vars
    <3>2. TypeOK'
      BY <3>1 DEF Inv, TypeOK
    <3>3. SessionsEvolve /\ SessionsOwned'
      BY <3>1, TablesKept DEF db
    <3> QED
      BY <3>1, <3>2, <3>3, EvolvedSessions DEF Inv
  <2> QED
    BY <2>1, <2>2, <2>3, <2>4, <2>5, <2>6, <2>7, <2>8, <2>9, <2>10, <2>11
    DEF Next, Call, Proceed
<1>2. clock \in Nat /\ clock' \in Nat
  BY <1>1 DEF Inv, TypeOK
<1>3. clock' = clock \/ clock' = clock + 1
  BY DEF Next, vars, Call, Proceed, GetSession, Login, InsertSession, GetUser, GetLoggedOut,
         Revoke, UpdateLastSeen, Abandon, SkipLastSeen, Register, RevokeAllForUser,
         UpdateUser, DeleteUser, DeleteExpired, Tick, Crash
<1> QED
  BY <1>1, <1>2, <1>3 DEF SessionsStep

LEMMA Invariant == Spec => []Inv
<1>1. Inv /\ [Next]_vars => Inv'
  BY NextKeeps
<1> QED
  BY <1>1, InvInit, PTL DEF Spec

\* Rows, requests, goroutines and times keep their shape, for any sets of users,
\* tokens and requests and any expiry.
THEOREM TypeCorrect == Spec => []TypeOK
<1>1. Inv => TypeOK
  BY DEF Inv
<1> QED
  BY <1>1, Invariant, PTL

\* No session is left without its user, however logins and deletions of users
\* overlap (Login, and the foreign key of sessions).
THEOREM NoOrphanSession == Spec => []SessionsOwned
<1>1. Inv => SessionsOwned
  BY DEF Inv
<1> QED
  BY <1>1, Invariant, PTL

\* A session that is over stays over when it evolves.
LEMMA EvolvedOver ==
    ASSUME Inv, Inv', SessionsStep, NEW k \in Tokens,
           Evolves(sessions[k], sessions'[k]), Over(k)
    PROVE  Over(k)'
<1>1. sessions[k] \in SessionRow /\ sessions'[k] \in SessionRow
  BY DEF Inv, TypeOK
<1>2. sessions'[k] # NoSession
  BY DEF Over, Evolves
<1>3. ~Valid(sessions[k])'
  <2>1. CASE ~sessions[k].live
    BY <2>1 DEF Evolves, Valid
  <2>2. CASE sessions[k].revokedAt # Never
    BY <2>2 DEF Evolves, Valid
  <2>3. CASE Expired(sessions[k])
    BY <1>1, <2>3 DEF Evolves, Valid, Expired, SessionsStep, SessionRow
  <2> QED
    BY <2>1, <2>2, <2>3 DEF Over, Valid
<1> QED
  BY <1>2, <1>3 DEF Over

\* A session that was revoked, has expired or was deleted lets no request in
\* again (ValidateToken, Revoke, UpdateLastSeen, DeleteExpired).
THEOREM NeverRevived == Spec => StaysOver
<1>1. ASSUME Inv, Inv', SessionsStep, NEW k \in Tokens, Over(k) PROVE Over(k)'
  <2>1. Evolves(sessions[k], sessions'[k])
    <3>1. CASE SessionsEvolve
      BY <3>1 DEF SessionsEvolve
    <3>2. ASSUME NEW r \in Requests, Inserts(r) PROVE Evolves(sessions[k], sessions'[k])
      <4>1. k # req[r].token
        BY <1>1, <3>2 DEF Inserts, Over
      <4> QED
        BY <3>2, <4>1 DEF Inserts, Evolves
    <3> QED
      BY <1>1, <3>1, <3>2 DEF SessionsStep
  <2> QED
    BY <1>1, <2>1, EvolvedOver
<1>2. Inv /\ Inv' /\ [Next]_vars => [\A k \in Tokens : Over(k) => Over(k)']_vars
  BY <1>1, NextKeeps
<1> QED
  BY <1>2, Invariant, PTL DEF Spec, StaysOver
\* What LogoutSettles says of one step.
LogoutsSettle ==
    \A r \in Requests, k \in Tokens :
        /\ LogsOut(r) /\ req[r].token = k /\ req'[r].pc = "idle"
        /\ req[r].scheme = "Bearer" /\ faults' = faults
        => Over(k)'

\* A request that is logging out is idle after a step without a fault only if
\* the step was its own.
LEMMA LogoutEnds ==
    ASSUME Inv, [Next]_vars, NEW r \in Requests, LogsOut(r), req'[r].pc = "idle",
           faults' = faults
    PROVE  GetLoggedOut(r) \/ Revoke(r)
<1>1. req[r].pc \in {"getLoggedOut", "revoke"} /\ req[r].pc # "idle" /\ faults \in Nat
  BY DEF LogsOut, Inv, TypeOK
<1>2. req' # req
  BY <1>1
<1>3. ASSUME NEW s \in Requests, s # r, req'[r] = req[r] PROVE FALSE
  BY <1>1, <1>3
<1>4. ~Crash /\ \A s \in Requests : ~Abandon(s)
  BY <1>1 DEF Crash, Abandon, Fault
<1>5. \A s \in Requests, k \in Tokens : ~GetSession(s, k)
  BY <1>1 DEF GetSession, Inv, TypeOK
<1>6. \A s \in Requests, k \in Tokens, u \in Users : ~Login(s, u, k)
  BY <1>1 DEF Login, Inv, TypeOK
<1>7. \A s \in Requests : ~InsertSession(s) /\ ~GetUser(s)
  BY <1>1 DEF InsertSession, GetUser, Return, Inv, TypeOK
<1>8. \A s \in Requests : GetLoggedOut(s) \/ Revoke(s) => s = r
  BY <1>1 DEF GetLoggedOut, Revoke, Return, Inv, TypeOK
<1>9. ~(UNCHANGED vars) /\ \A s \in Requests : ~UpdateLastSeen(s) /\ ~SkipLastSeen(s)
  BY <1>2 DEF vars, UpdateLastSeen, SkipLastSeen
<1>10. /\ ~DeleteExpired /\ ~Tick
       /\ \A u \in Users : /\ ~RevokeAllForUser(u) /\ ~UpdateUser(u) /\ ~DeleteUser(u)
                           /\ \A n \in Names : ~Register(u, n)
  BY <1>2 DEF DeleteExpired, Tick, RevokeAllForUser, UpdateUser, DeleteUser, Register
<1> QED
  BY <1>4, <1>5, <1>6, <1>7, <1>8, <1>9, <1>10 DEF Next, Call, Proceed

\* A logout with the documented header leaves its session over, whatever it
\* races with and whatever it answers (AuthService.Logout), unless a statement
\* fails.
THEOREM LogoutsDone == Spec => LogoutSettles
<1>1. ASSUME Inv, Inv', [Next]_vars PROVE LogoutsSettle
  <2> SUFFICES ASSUME NEW r \in Requests, NEW k \in Tokens,
                      LogsOut(r), req[r].token = k, req'[r].pc = "idle",
                      req[r].scheme = "Bearer", faults' = faults
               PROVE  Over(k)'
    BY DEF LogoutsSettle
  <2>1. sessions[k] # NoSession /\ sessions[k] \in SessionRow /\ sessions'[k] \in SessionRow
    BY <1>1 DEF LogsOut, Inv, Presented, TypeOK
  <2>2. CASE GetLoggedOut(r)
    <3>1. sessions' = sessions /\ req[r] \in Request
      BY <1>1, <2>2 DEF GetLoggedOut, db, Inv, TypeOK
    <3>2. ~LoggedOutFound(req[r])
      <4>1. ASSUME LoggedOutFound(req[r]) PROVE req'[r].pc = "revoke"
        BY <1>1, <2>2, <4>1 DEF GetLoggedOut, Inv, TypeOK, Request
      <4> QED
        BY <4>1
    <3>3. ~sessions[k].live
      BY <3>2 DEF LoggedOutFound
    <3> QED
      BY <2>1, <3>1, <3>3 DEF Over, Valid
  <2>3. CASE Revoke(r)
    <3>1. sessions'[k] = RevokedRow(sessions[k])
      BY <1>1, <2>3 DEF Revoke, Inv, TypeOK
    <3>2. Evolves(sessions[k], sessions'[k])
      BY <1>1, <3>1, StoredRows, RowChanges DEF Inv
    <3>3. ~sessions'[k].live \/ sessions'[k].revokedAt # Never
      BY <1>1, <2>1, <3>1 DEF RevokedRow, SessionRow, Never, Inv, TypeOK
    <3> QED
      BY <2>1, <3>2, <3>3 DEF Over, Valid, Evolves
  <2> QED
    BY <1>1, <2>2, <2>3, LogoutEnds
<1>2. Inv /\ Inv' /\ [Next]_vars => [LogoutsSettle]_vars
  BY <1>1
<1>3. Spec => [][LogoutsSettle]_vars
  BY <1>2, Invariant, PTL DEF Spec
<1> QED
  BY <1>3 DEF LogoutsSettle, LogoutSettles
=============================================================================

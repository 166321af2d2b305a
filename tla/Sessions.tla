------------------------------ MODULE Sessions ------------------------------
(***************************************************************************)
(* AuthService, the Auth middleware and the auth handler over the SQLite   *)
(* user and session repositories.                                          *)
(*                                                                         *)
(* One action is one SQL statement with the code that runs before the next *)
(* one.  A request the middleware lets in leaves a goroutine behind that   *)
(* writes last_seen_at: it has a context of its own, outlives the request  *)
(* and is waited for by nobody.  A logout goes on to two more statements;  *)
(* what the other routes do is not part of this module.  A request refused *)
(* by its first read leaves no trace and takes no step.                    *)
(*                                                                         *)
(* RevokeAllForUser, DeleteExpired, and Update and Delete of a user are    *)
(* operations of the repositories that no service calls; they are modelled *)
(* as steps that may come at any time.                                     *)
(*                                                                         *)
(* MaxTime bounds the clock, MaxFaults the statements that fail and the    *)
(* crashes.                                                                *)
(***************************************************************************)
EXTENDS Integers

CONSTANTS Users,       \* ids of users
          Names,       \* usernames
          Tokens,      \* bearer tokens, one for each session
          Requests,    \* handler goroutines
          Schemes,     \* spellings of the scheme in the Authorization header
          Expiry,      \* SessionExpiry of the configuration
          Retention,   \* 30 days, after which a revoked session may be deleted
          None,        \* no user, no name, no token
          MaxTime, MaxFaults

ASSUME TimesAssumption ==
    /\ Expiry \in Nat /\ Retention \in Nat
    /\ MaxTime \in Nat /\ MaxFaults \in Nat
ASSUME NobodyAssumption == None \notin Users \cup Names \cup Tokens
\* The spellings the middleware accepts; documented is "Bearer".
ASSUME SchemesAssumption == Schemes \subseteq {"Bearer", "bearer"}

VARIABLES users,       \* the table of users, by id
          sessions,    \* the table of sessions, by token
          req,         \* the requests in progress
          touching,    \* the tokens whose last_seen_at goroutines will write
          clock,       \* time.Now()
          faults       \* statements failed and crashes so far

db == <<users, sessions>>
vars == <<users, sessions, req, touching, clock, faults>>

UserStatuses == {"active", "inactive", "banned"}

\* revoked_at: NULL, or a time.
Never == -1
Times == Nat \cup {Never}

\* A row that was never inserted is the No... row; ids do not come back.
UserRow == [live: BOOLEAN, name: Names \cup {None}, status: UserStatuses]
NoUser == [live |-> FALSE, name |-> None, status |-> "active"]

SessionRow == [live: BOOLEAN, user: Users \cup {None}, expires: Nat,
               seen: Nat, revokedAt: Times]
NoSession == [live |-> FALSE, user |-> None, expires |-> 0, seen |-> 0,
              revokedAt |-> Never]

Deleted(row) == [row EXCEPT !.live = FALSE]

(***************************************************************************)
(* pc is the next statement of a request:                                  *)
(*   insertSession  INSERT of the session (login)                          *)
(*   getUser        SELECT of the user of a session that is valid          *)
(*   getLoggedOut   SELECT of the session to revoke (logout)               *)
(*   revoke         UPDATE that revokes it                                 *)
(***************************************************************************)
Request == [pc: {"idle", "insertSession", "getUser", "getLoggedOut", "revoke"},
            user: Users \cup {None}, token: Tokens \cup {None}, expires: Nat,
            route: {"none", "logout", "other"}, scheme: Schemes \cup {"none"}]
NoRequest == [pc |-> "idle", user |-> None, token |-> None, expires |-> 0,
              route |-> "none", scheme |-> "none"]

Init ==
    /\ users = [u \in Users |-> NoUser]
    /\ sessions = [k \in Tokens |-> NoSession]
    /\ req = [r \in Requests |-> NoRequest]
    /\ touching = [r \in Requests |-> None]
    /\ clock = 0
    /\ faults = 0

Return(r) == req' = [req EXCEPT ![r] = NoRequest]

-----------------------------------------------------------------------------
(* Register and login *)

\* The UNIQUE username refuses a name that is taken.
Register(u, n) ==
    /\ users[u] = NoUser
    /\ \A w \in Users : users[w].live => users[w].name # n
    /\ users' = [users EXCEPT ![u] = [NoUser EXCEPT !.live = TRUE, !.name = n]]
    /\ UNCHANGED <<sessions, req, touching, clock, faults>>

\* A token is drawn once.
Drawn(k) == sessions[k] # NoSession \/ \E r \in Requests : req[r].token = k

\* The user is found by name and active, and the password is right: the token
\* is drawn and the expiry computed.
Login(r, u, k) ==
    /\ req[r].pc = "idle"
    /\ users[u].live /\ users[u].status = "active"
    /\ ~Drawn(k)
    /\ req' = [req EXCEPT ![r] = [NoRequest EXCEPT !.pc = "insertSession", !.user = u,
                                     !.token = k, !.expires = clock + Expiry]]
    /\ UNCHANGED <<db, touching, clock, faults>>

\* Mutant: no foreign key on user_id.
InsertSessionUnchecked(r) ==
    LET q == req[r] IN
    /\ q.pc = "insertSession"
    /\ sessions' = [sessions EXCEPT ![q.token] =
                       [live |-> TRUE, user |-> q.user, expires |-> q.expires,
                        seen |-> clock, revokedAt |-> Never]]
    /\ Return(r)
    /\ UNCHANGED <<users, touching, clock, faults>>

\* The foreign key refuses a user deleted in between.
InsertSession(r) ==
    LET q == req[r] IN
    /\ q.pc = "insertSession"
    /\ sessions' = IF users[q.user].live
                   THEN [sessions EXCEPT ![q.token] =
                            [live |-> TRUE, user |-> q.user, expires |-> q.expires,
                             seen |-> clock, revokedAt |-> Never]]
                   ELSE sessions
    /\ Return(r)
    /\ UNCHANGED <<users, touching, clock, faults>>

-----------------------------------------------------------------------------
(* The middleware *)

Expired(row) == clock > row.expires
Valid(row) == row.live /\ row.revokedAt = Never /\ ~Expired(row)

\* Mutant: user_id is not among the columns that are read.
GetSessionWithoutUser(r, k) ==
    /\ req[r].pc = "idle"
    /\ touching[r] = None
    /\ Valid(sessions[k])
    /\ \E route \in {"logout", "other"}, scheme \in Schemes :
          req' = [req EXCEPT ![r] = [NoRequest EXCEPT !.pc = "getUser", !.token = k,
                                        !.route = route, !.scheme = scheme]]
    /\ UNCHANGED <<db, touching, clock, faults>>

\* ValidateToken finds the session, neither revoked nor expired.
GetSession(r, k) ==
    /\ req[r].pc = "idle"
    /\ touching[r] = None
    /\ Valid(sessions[k])
    /\ \E route \in {"logout", "other"}, scheme \in Schemes :
          req' = [req EXCEPT ![r] = [NoRequest EXCEPT !.pc = "getUser", !.token = k,
                                        !.user = sessions[k].user,
                                        !.route = route, !.scheme = scheme]]
    /\ UNCHANGED <<db, touching, clock, faults>>

\* The user is active: the goroutine is started and the request is let in.
GetUser(r) ==
    LET q == req[r] IN
    /\ q.pc = "getUser"
    /\ IF users[q.user].live /\ users[q.user].status = "active"
       THEN /\ touching' = [touching EXCEPT ![r] = q.token]
            /\ req' = [req EXCEPT ![r] = IF q.route = "logout"
                                         THEN [q EXCEPT !.pc = "getLoggedOut"]
                                         ELSE NoRequest]
       ELSE /\ Return(r)
            /\ UNCHANGED touching
    /\ UNCHANGED <<db, clock, faults>>

\* Mutant: the goroutine also prolongs the session.
TouchedProlongs(row) == [row EXCEPT !.seen = clock, !.expires = clock + Expiry]

\* UpdateLastSeen: whatever became of the session, this column only.
Touched(row) == [row EXCEPT !.seen = clock]

UpdateLastSeen(r) ==
    LET k == touching[r] IN
    /\ k # None
    /\ sessions' = IF sessions[k].live
                   THEN [sessions EXCEPT ![k] = Touched(@)]
                   ELSE sessions
    /\ touching' = [touching EXCEPT ![r] = None]
    /\ UNCHANGED <<users, req, clock, faults>>

-----------------------------------------------------------------------------
(* Logout *)

\* The handler takes the token from the header once more, and only if the
\* scheme is spelled "Bearer"; otherwise it looks for the token "".
LoggedOutFound(q) == q.scheme = "Bearer" /\ sessions[q.token].live

\* A session that is not found is a logout that succeeded.
GetLoggedOut(r) ==
    /\ req[r].pc = "getLoggedOut"
    /\ IF LoggedOutFound(req[r])
       THEN req' = [req EXCEPT ![r].pc = "revoke"]
       ELSE Return(r)
    /\ UNCHANGED <<db, touching, clock, faults>>

\* UPDATE ... WHERE revoked_at IS NULL.
RevokedRow(row) ==
    IF row.live /\ row.revokedAt = Never
    THEN [row EXCEPT !.revokedAt = clock]
    ELSE row

\* Mutant: the session is only revoked in memory.
RevokeInMemory(r) ==
    /\ req[r].pc = "revoke"
    /\ Return(r)
    /\ UNCHANGED <<db, touching, clock, faults>>

\* A session revoked or deleted in between is reported as not found, which the
\* handler answers with an internal error.
Revoke(r) ==
    /\ req[r].pc = "revoke"
    /\ sessions' = [sessions EXCEPT ![req[r].token] = RevokedRow(@)]
    /\ Return(r)
    /\ UNCHANGED <<users, touching, clock, faults>>

-----------------------------------------------------------------------------
(* Repository operations without a caller *)

RevokeAllForUser(u) ==
    /\ sessions' = [k \in Tokens |-> IF sessions[k].user = u
                                     THEN RevokedRow(sessions[k])
                                     ELSE sessions[k]]
    /\ UNCHANGED <<users, req, touching, clock, faults>>

\* Expired sessions, and those revoked longer ago than Retention.
MayDelete(row) ==
    \/ row.expires < clock
    \/ row.revokedAt # Never /\ row.revokedAt < clock - Retention

DeleteExpired ==
    /\ sessions' = [k \in Tokens |-> IF MayDelete(sessions[k])
                                     THEN Deleted(sessions[k])
                                     ELSE sessions[k]]
    /\ UNCHANGED <<users, req, touching, clock, faults>>

\* Update with the stored version; with another one it changes nothing.
UpdateUser(u) ==
    /\ users[u].live
    /\ \E s \in UserStatuses : users' = [users EXCEPT ![u].status = s]
    /\ UNCHANGED <<sessions, req, touching, clock, faults>>

\* Sessions go with their user: ON DELETE CASCADE.
DeleteUser(u) ==
    /\ users[u].live
    /\ users' = [users EXCEPT ![u] = Deleted(@)]
    /\ sessions' = [k \in Tokens |-> IF sessions[k].user = u
                                     THEN Deleted(sessions[k])
                                     ELSE sessions[k]]
    /\ UNCHANGED <<req, touching, clock, faults>>

-----------------------------------------------------------------------------
(* Time and faults *)

Tick ==
    /\ clock < MaxTime
    /\ clock' = clock + 1
    /\ UNCHANGED <<db, req, touching, faults>>

Fault == faults < MaxFaults /\ faults' = faults + 1

\* A statement of a request fails and the handler answers where it is: a logout
\* whose SELECT fails answers that it succeeded.
Abandon(r) ==
    /\ req[r].pc # "idle"
    /\ Fault
    /\ Return(r)
    /\ UNCHANGED <<db, touching, clock>>

\* The error of UpdateLastSeen is dropped.
SkipLastSeen(r) ==
    /\ touching[r] # None
    /\ Fault
    /\ touching' = [touching EXCEPT ![r] = None]
    /\ UNCHANGED <<db, req, clock>>

\* The process dies and is started again on the same database.
Crash ==
    /\ Fault
    /\ req' = [r \in Requests |-> NoRequest]
    /\ touching' = [r \in Requests |-> None]
    /\ UNCHANGED <<db, clock>>

-----------------------------------------------------------------------------

Call(r) == \E k \in Tokens : GetSession(r, k) \/ \E u \in Users : Login(r, u, k)

\* The next statement of a request in progress, or of its goroutine.
Proceed(r) ==
    \/ InsertSession(r) \/ GetUser(r) \/ GetLoggedOut(r) \/ Revoke(r)
    \/ UpdateLastSeen(r)

Next ==
    \/ \E r \in Requests : Call(r) \/ Proceed(r) \/ Abandon(r) \/ SkipLastSeen(r)
    \/ \E u \in Users :
          \/ \E n \in Names : Register(u, n)
          \/ RevokeAllForUser(u) \/ UpdateUser(u) \/ DeleteUser(u)
    \/ DeleteExpired
    \/ Tick
    \/ Crash

Spec == Init /\ [][Next]_vars

-----------------------------------------------------------------------------
(* Properties *)

\* A request names the rows its next statement needs.
NamesRows(q) ==
    /\ q.pc \in {"insertSession", "getUser"} => q.user \in Users
    /\ q.pc # "idle" => q.token \in Tokens

\* Every variable holds rows, requests, tokens and times of the declared shape.
TypeOK ==
    /\ users \in [Users -> UserRow]
    /\ sessions \in [Tokens -> SessionRow]
    /\ req \in [Requests -> Request]
    /\ \A r \in Requests : NamesRows(req[r])
    /\ touching \in [Requests -> Tokens \cup {None}]
    /\ clock \in Nat
    /\ faults \in Nat

\* The session of token k was created and can no longer be used.
Over(k) == sessions[k] # NoSession /\ ~Valid(sessions[k])

\* A session belongs to a user there is, although a login checks the user before
\* it inserts the session and users are deleted in between.
SessionsOwned ==
    \A k \in Tokens : sessions[k].live =>
        sessions[k].user \in Users /\ users[sessions[k].user].live

\* A session that was revoked, has expired or was deleted never lets a request
\* in again, although goroutines that saw it valid still write its row and
\* logins that began before are still to insert theirs.
StaysOver == [][\A k \in Tokens : Over(k) => Over(k)']_vars

\* Whether r is at one of the statements of the logout handler.
LogsOut(r) == req[r].pc \in {"getLoggedOut", "revoke"}

\* A logout with the documented header ends with the session over, whatever
\* logouts, deletions and last-seen writes it races with and whether it answers
\* success or an internal error, unless a statement fails.
LogoutSettles ==
    [][\A r \in Requests, k \in Tokens :
          /\ LogsOut(r) /\ req[r].token = k /\ req'[r].pc = "idle"
          /\ req[r].scheme = "Bearer" /\ faults' = faults
          => Over(k)']_vars

\* What the README says of POST /api/v1/auth/logout: "Revoke current session".
LogoutRevokes ==
    [][\A r \in Requests, k \in Tokens :
          LogsOut(r) /\ req[r].token = k /\ req'[r].pc = "idle" /\ faults' = faults
          => Over(k)']_vars
=============================================================================

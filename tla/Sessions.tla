------------------------------ MODULE Sessions -------------------------------
(***************************************************************************)
(* Users, sessions and the handlers that use them.  A request runs one SQL *)
(* statement at a time, each committed on its own, and remembers between   *)
(* them what the earlier ones answered: login checks the password, cleans  *)
(* the table, draws a token and stores it; logout, the protected routes    *)
(* and the admin router resolve the cookie's token before they act.        *)
(* A request without a session cookie changes nothing and is not a step.   *)
(***************************************************************************)
EXTENDS Integers, FiniteSets

CONSTANTS
    Workers,    \* threads that run handlers
    Names,      \* phone numbers and email addresses: one column may hold
                \* what the other one holds for somebody else
    Passwords,
    Founders,   \* rows the database starts with
    Applicants, \* bodies of POST /auth/register: [phone, email, pw]
    Edits,      \* bodies of PUT /admin/users: [phone, email]
    Keep,       \* a field a PUT leaves out
    MaxUsers,   \* bound on the ids the SERIAL column hands out
    MaxTokens   \* bound on the tokens drawn

User == [id : Nat, phone : Names, email : Names, pw : Passwords,
         admin : BOOLEAN]

ASSUME SessionsAssumption ==
    /\ Founders \subseteq User /\ IsFiniteSet(Founders)
    /\ \A u, v \in Founders : u.id = v.id \/ u.phone = v.phone => u = v
    /\ MaxUsers \in Nat /\ MaxTokens \in Nat
    /\ \A u \in Founders : u.id <= MaxUsers
    /\ Keep \notin Names
    /\ Applicants \subseteq [phone : Names, email : Names, pw : Passwords]
    /\ Edits \subseteq [phone : Names \cup {Keep}, email : Names \cup {Keep}]

VARIABLES
    users,      \* rows of the users table
    lastUser,   \* last value of its id sequence
    sessions,   \* rows of the sessions table
    lastToken,  \* tokens drawn so far, numbered
    job,        \* job[w]: the request thread w runs
    issued,     \* history: <<token, user>> of every session a login stored
    ended,      \* history: tokens whose session expired or was deleted
    redrawn     \* history: tokens the generator returned to two calls

vars == <<users, lastUser, sessions, lastToken, job, issued, ended, redrawn>>

Session == [token : Nat, user : Nat, expired : BOOLEAN]

\* op "user" stands for GET /auth/me and POST /bookings, "admin" for every
\* request of the admin router.  before: the tokens that had ended when the
\* request arrived.  peers: the tokens that overlapping calls of the generator
\* have returned.
Job == [op : {"none", "login", "logout", "user", "admin"},
        step : {"idle", "check", "clean", "draw", "store",
                "resolve", "deleteAll", "deleteOne", "isAdmin", "act"},
        name : Names \cup {Keep}, pw : Passwords \cup {Keep},
        token : Nat, user : Nat,
        before : SUBSET Nat, peers : SUBSET Nat]

Idle == [op |-> "none", step |-> "idle", name |-> Keep, pw |-> Keep,
         token |-> 0, user |-> 0, before |-> {}, peers |-> {}]

Init == /\ users = Founders
        /\ lastUser = Cardinality(Founders)
        /\ sessions = {}
        /\ lastToken = 0
        /\ job = [w \in Workers |-> Idle]
        /\ issued = {} /\ ended = {} /\ redrawn = {}

At(w, step) == job[w].step = step
Goto(w, step) == job' = [job EXCEPT ![w].step = step]
Answer(w) == job' = [job EXCEPT ![w] = Idle]

Live(token) == {s \in sessions : s.token = token /\ ~ s.expired}

\* The rows in gone leave the sessions table.
Remove(gone) == /\ sessions' = sessions \ gone
                /\ ended' = ended \cup {s.token : s \in gone}

(* Names ending in "Bug" are faulty variants of the definition after them,  *)
(* used to see that the properties notice.                                 *)
-----------------------------------------------------------------------------
(* Registration and the removal of a user, one statement each.             *)

\* is_admin is taken from the body.
RegisterBug(row) ==
    /\ lastUser < MaxUsers
    /\ lastUser' = lastUser + 1
    /\ users' = users \cup {[id |-> lastUser + 1, phone |-> row.phone,
                             email |-> row.email, pw |-> row.pw, admin |-> TRUE]}
    /\ UNCHANGED <<sessions, lastToken, job, issued, ended, redrawn>>

\* registerUser: UNIQUE (phone) refuses the row; email is not unique.
Inserted(row) == IF \E u \in users : u.phone = row.phone
                 THEN users
                 ELSE users \cup
                        {[id |-> lastUser + 1, phone |-> row.phone,
                          email |-> row.email, pw |-> row.pw, admin |-> FALSE]}

\* POST /api/auth/register; the sequence advances even when the row is refused.
Register(row) ==
    /\ lastUser < MaxUsers
    /\ lastUser' = lastUser + 1
    /\ users' = Inserted(row)
    /\ UNCHANGED <<sessions, lastToken, job, issued, ended, redrawn>>

\* The schema without ON DELETE CASCADE and without the reference.
DropUserBug(id) ==
    /\ users' = {u \in users : u.id # id}
    /\ UNCHANGED <<sessions, ended>>

\* DELETE FROM users cascades to sessions; it raises, and changes nothing, when
\* orders refer to the row.
DropUser(id) ==
    /\ users' = {u \in users : u.id # id}
    /\ Remove({s \in sessions : s.user = id})

\* DELETE /api/auth/user
RemoveUser(id) ==
    /\ DropUser(id)
    /\ UNCHANGED <<lastUser, lastToken, job, issued, redrawn>>

\* expires_at passes.
Expire(s) ==
    /\ ~ s.expired
    /\ sessions' = (sessions \ {s}) \cup {[s EXCEPT !.expired = TRUE]}
    /\ ended' = ended \cup {s.token}
    /\ UNCHANGED <<users, lastUser, lastToken, job, issued, redrawn>>

-----------------------------------------------------------------------------
(* Login                                                                   *)

ArriveLogin(w) ==
    /\ At(w, "idle")
    /\ \E n \in Names, p \in Passwords :
          job' = [job EXCEPT ![w] = [Idle EXCEPT !.op = "login",
                                                 !.step = "check",
                                                 !.name = n, !.pw = p]]
    /\ UNCHANGED <<users, lastUser, sessions, lastToken, issued, ended, redrawn>>

Matching(name) == {u \in users : u.phone = name \/ u.email = name}

\* The query has no ORDER BY and only its first row is looked at: any row.
CheckPassword(w) ==
    /\ At(w, "check")
    /\ \E u \in Matching(job[w].name) :
          /\ u.pw = job[w].pw
          /\ job' = [job EXCEPT ![w].user = u.id, ![w].name = Keep,
                             ![w].step = "clean"]
    /\ UNCHANGED <<users, lastUser, sessions, lastToken, issued, ended, redrawn>>

\* 401
Refuse(w) ==
    /\ At(w, "check")
    /\ \/ Matching(job[w].name) = {}
       \/ \E u \in Matching(job[w].name) : u.pw # job[w].pw
    /\ Answer(w)
    /\ UNCHANGED <<users, lastUser, sessions, lastToken, issued, ended, redrawn>>

DeleteExpired(w) ==
    /\ At(w, "clean")
    /\ Remove({s \in sessions : s.expired})
    /\ Goto(w, "draw")
    /\ UNCHANGED <<users, lastUser, lastToken, issued, redrawn>>

\* Tokens are numbered after the rows of the table.
DrawTokenBug(w) ==
    /\ At(w, "draw")
    /\ Cardinality(sessions) < MaxTokens
    /\ job' = [job EXCEPT ![w].token = Cardinality(sessions) + 1,
                          ![w].step = "store"]
    /\ lastToken' = IF Cardinality(sessions) < lastToken THEN lastToken
                    ELSE Cardinality(sessions) + 1
    /\ UNCHANGED <<users, lastUser, sessions, issued, ended, redrawn>>

\* The random generator is shared without a lock: a call may return what an
\* overlapping call returned.
DrawToken(w) ==
    /\ At(w, "draw")
    /\ \E t \in {lastToken + 1} \cup job[w].peers :
          /\ t <= MaxTokens
          /\ lastToken' = IF t > lastToken THEN t ELSE lastToken
          /\ redrawn' = IF t > lastToken THEN redrawn ELSE redrawn \cup {t}
          /\ job' = [v \in Workers |->
                       CASE v = w -> [job[w] EXCEPT !.token = t, !.step = "store",
                                                    !.peers = {}]
                         [] v # w /\ At(v, "draw") ->
                              [job[v] EXCEPT !.peers = @ \cup {t}]
                         [] OTHER -> job[v]]
    /\ UNCHANGED <<users, lastUser, sessions, issued, ended>>

\* The INSERT raises when the token is stored or the user is gone.
CreateSession(w) ==
    /\ At(w, "store")
    /\ LET j == job[w]
           stored == /\ \E u \in users : u.id = j.user
                     /\ \A s \in sessions : s.token # j.token
       IN  /\ sessions' = IF stored
                          THEN sessions \cup {[token |-> j.token, user |-> j.user,
                                               expired |-> FALSE]}
                          ELSE sessions
           /\ issued' = IF stored THEN issued \cup {<<j.token, j.user>>}
                                  ELSE issued
    /\ Answer(w)
    /\ UNCHANGED <<users, lastUser, lastToken, ended, redrawn>>

-----------------------------------------------------------------------------
(* Requests with a cookie                                                  *)

Arrive(w) ==
    /\ At(w, "idle")
    /\ \E op \in {"logout", "user", "admin"}, t \in 1..lastToken :
          job' = [job EXCEPT ![w] = [Idle EXCEPT !.op = op, !.step = "resolve",
                                                 !.token = t, !.before = ended]]
    /\ UNCHANGED <<users, lastUser, sessions, lastToken, issued, ended, redrawn>>

Resolved(op) == CASE op = "logout" -> "deleteAll"
                  [] op = "admin" -> "isAdmin"
                  [] OTHER -> "act"

\* The expiry is not looked at.
ResolveBug(w) ==
    /\ At(w, "resolve")
    /\ \E s \in {r \in sessions : r.token = job[w].token} :
          job' = [job EXCEPT ![w].user = s.user,
                             ![w].step = Resolved(job[w].op)]
    /\ UNCHANGED <<users, lastUser, sessions, lastToken, issued, ended, redrawn>>

\* getUserIdFromToken finds the user.
Resolve(w) ==
    /\ At(w, "resolve")
    /\ \E s \in Live(job[w].token) :
          job' = [job EXCEPT ![w].user = s.user,
                             ![w].step = Resolved(job[w].op)]
    /\ UNCHANGED <<users, lastUser, sessions, lastToken, issued, ended, redrawn>>

\* It does not: logout goes on with the token alone, the others answer 401.
Unresolved(w) ==
    /\ At(w, "resolve")
    /\ Live(job[w].token) = {}
    /\ IF job[w].op = "logout" THEN Goto(w, "deleteOne") ELSE Answer(w)
    /\ UNCHANGED <<users, lastUser, sessions, lastToken, issued, ended, redrawn>>

\* Sessions are kept; only the cookie is cleared.
DeleteSessionsBug(w) ==
    /\ At(w, "deleteAll") \/ At(w, "deleteOne")
    /\ Remove({s \in sessions : s.expired /\ s.user = job[w].user})
    /\ Answer(w)
    /\ UNCHANGED <<users, lastUser, lastToken, issued, redrawn>>

\* Logout deletes every session of the user, or the row of the token.
DeleteSessions(w) ==
    /\ At(w, "deleteAll") \/ At(w, "deleteOne")
    /\ Remove({s \in sessions : IF At(w, "deleteAll")
                                THEN s.user = job[w].user
                                ELSE s.token = job[w].token})
    /\ Answer(w)
    /\ UNCHANGED <<users, lastUser, lastToken, issued, redrawn>>

\* isAdmin
HasFlag(id) == \E u \in users : u.id = id /\ u.admin

\* AdminMiddleware: the second query of an admin request; 403 when it fails.
IsAdmin(w) ==
    /\ At(w, "isAdmin")
    /\ IF HasFlag(job[w].user)
       THEN Goto(w, "act")
       ELSE Answer(w)
    /\ UNCHANGED <<users, lastUser, sessions, lastToken, issued, ended, redrawn>>

\* The handler runs; what it does to other tables is in other modules.
Act(w) ==
    /\ At(w, "act")
    /\ Answer(w)
    /\ UNCHANGED <<users, lastUser, sessions, lastToken, issued, ended, redrawn>>

\* updateUser: a field that is not given stays.
Updated(u, edit) ==
    [u EXCEPT !.phone = IF edit.phone = Keep THEN @ ELSE edit.phone,
              !.email = IF edit.email = Keep THEN @ ELSE edit.email]

\* PUT /api/admin/users; a phone another user has makes the UPDATE raise.
UpdateUser(w, id, edit) ==
    /\ At(w, "act") /\ job[w].op = "admin"
    /\ \A u \in users : u.phone = edit.phone => u.id = id
    /\ users' = {IF u.id = id THEN Updated(u, edit) ELSE u : u \in users}
    /\ Answer(w)
    /\ UNCHANGED <<lastUser, sessions, lastToken, issued, ended, redrawn>>

\* DELETE /api/admin/users
AdminRemoveUser(w, id) ==
    /\ At(w, "act") /\ job[w].op = "admin"
    /\ DropUser(id)
    /\ Answer(w)
    /\ UNCHANGED <<lastUser, lastToken, issued, redrawn>>

\* Any statement may raise; the request is answered 500 or not at all.
StatementRaises(w) ==
    /\ ~ At(w, "idle") /\ ~ At(w, "draw")
    /\ Answer(w)
    /\ UNCHANGED <<users, lastUser, sessions, lastToken, issued, ended, redrawn>>

Login(w) == \/ ArriveLogin(w) \/ CheckPassword(w) \/ Refuse(w)
            \/ DeleteExpired(w) \/ DrawToken(w) \/ CreateSession(w)

Cookie(w) == \/ Arrive(w) \/ Resolve(w) \/ Unresolved(w)
             \/ DeleteSessions(w) \/ IsAdmin(w) \/ Act(w)

Next == \/ \E w \in Workers : Login(w) \/ Cookie(w) \/ StatementRaises(w)
        \/ \E w \in Workers, id \in 1..MaxUsers :
              \/ \E edit \in Edits : UpdateUser(w, id, edit)
              \/ AdminRemoveUser(w, id)
        \/ \E row \in Applicants : Register(row)
        \/ \E id \in 1..MaxUsers : RemoveUser(id)
        \/ \E s \in sessions : Expire(s)

Spec == Init /\ [][Next]_vars

-----------------------------------------------------------------------------
\* Every variable keeps the shape the tables and handlers give it.
TypeOK == /\ users \subseteq User
          /\ lastUser \in Nat /\ lastToken \in Nat
          /\ sessions \subseteq Session
          /\ job \in [Workers -> Job]
          /\ issued \subseteq Nat \X Nat
          /\ ended \subseteq Nat /\ redrawn \subseteq Nat

\* The middlewares ask once and the handler acts later: a request that acts,
\* or logs out, does so for a session that is live, or that ended after the
\* request arrived.  Only a token the generator returned twice can be live
\* again after its session has ended.
ActsOnLiveOrJustEnded ==
    \A w \in Workers :
        job[w].step \in {"act", "isAdmin", "deleteAll"} =>
            \/ \E s \in Live(job[w].token) : s.user = job[w].user
            \/ job[w].token \in ended \ job[w].before
            \/ job[w].token \in redrawn

\* A token speaks for one user, in the table, in the requests that resolved it
\* and in every cookie a login ever set, unless the generator returned it
\* to two logins.
TokensSpeakForOneUser ==
    LET claims == issued
                    \cup {<<s.token, s.user>> : s \in sessions}
                    \cup {<<job[w].token, job[w].user>> :
                            w \in {v \in Workers : job[v].step \in
                                      {"store", "act", "isAdmin", "deleteAll"}}}
    IN  \A a, b \in claims : a[1] = b[1] /\ a[2] # b[2] => a[1] \in redrawn

\* Two logins with one token never hold two rows, and a login that overtakes
\* the deletion of its user leaves no session behind.
SessionsAreOwned ==
    /\ \A s \in sessions : \E u \in users : u.id = s.user
    /\ \A r, s \in sessions : r.token = s.token => r = s

\* An admin handler runs only for a user the database was given as an admin:
\* no sequence of registrations, edits and logins reaches it.
AdminsAreAppointed ==
    \A w \in Workers :
        job[w].op = "admin" /\ At(w, "act") =>
            \E u \in Founders : u.admin /\ u.id = job[w].user

\* "Logged out" is true: once logout answers, its cookie opens no session, even
\* when the session expired, was cleaned away or its user removed between the
\* two statements.
LogoutEndsItsSession ==
    [][\A w \in Workers :
          DeleteSessions(w) =>
            \A s \in sessions' : s.token = job[w].token =>
                                    s.token \in redrawn]_vars
=============================================================================

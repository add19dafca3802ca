--------------------------- MODULE SessionsProofs ----------------------------
(***************************************************************************)
(* Sessions for every number of users, tokens and threads: whom a token    *)
(* speaks for, which requests may still act when a session ends, and who   *)
(* can reach the admin handlers.                                           *)
(***************************************************************************)
EXTENDS Sessions, FiniteSetTheorems, TLAPS

Appointed(id) == \E u \in Founders : u.admin /\ u.id = id

\* Some login has stored a session under this token.
Stored(t) == \E i \in issued : i[1] = t

\* What the tables and their history say of each other.
Tables ==
    /\ \A u \in users : u.admin => Appointed(u.id)
    /\ SessionsAreOwned
    /\ \A s \in sessions : <<s.token, s.user>> \in issued
    /\ \A i \in issued : i[1] <= lastToken
    /\ \A i, k \in issued : i[1] = k[1] /\ i[2] # k[2] => i[1] \in redrawn
    /\ \A t \in ended : Stored(t)
    /\ \A s \in sessions : ~ s.expired /\ s.token \in ended => s.token \in redrawn

\* What a request remembers, as far as the tables bear it out.
Resolving == {"act", "isAdmin", "deleteAll"}

JobOK(j) ==
    /\ \A t \in j.peers : t <= lastToken
    /\ j.before \subseteq ended
    /\ j.op = "admin" /\ j.step = "act" => Appointed(j.user)
    /\ j.step = "store" => /\ j.token <= lastToken
                           /\ Stored(j.token) => j.token \in redrawn
    /\ j.step \in Resolving =>
          /\ <<j.token, j.user>> \in issued
          /\ \/ \E s \in sessions : /\ s.token = j.token /\ ~ s.expired
                                    /\ s.user = j.user
             \/ j.token \in ended \ j.before
             \/ j.token \in redrawn

Jobs == \A w \in Workers : JobOK(job[w])

\* Two logins hold the same token only when the generator repeated it.
Draws ==
    \A v, w \in Workers :
        v # w /\ At(v, "store") /\ At(w, "store") /\ job[v].token = job[w].token
            => job[v].token \in redrawn

IInv == TypeOK /\ Tables /\ Jobs /\ Draws

-----------------------------------------------------------------------------
LEMMA IdleJob == Idle \in Job /\ Idle.step = "idle" /\ Idle.peers = {}
                 /\ Idle.before = {} /\ Idle.op = "none"
  BY DEF Idle, Job

\* An idle thread remembers nothing that could be wrong.
LEMMA IdleOK == JobOK(Idle)
  BY IdleJob DEF JobOK, Resolving

LEMMA InitIInv == Init => IInv
  <1> SUFFICES ASSUME Init PROVE IInv
    OBVIOUS
  <1>1. \A w \in Workers : job[w] = Idle
    BY DEF Init
  <1>2. TypeOK
    <2>1. Cardinality(Founders) \in Nat
      BY SessionsAssumption, FS_CardinalityType
    <2> QED
      BY <2>1, IdleJob, SessionsAssumption DEF Init, TypeOK
  <1>3. Tables
    BY DEF Init, Tables, SessionsAreOwned, Appointed
  <1>4. Jobs
    BY <1>1, IdleOK DEF Jobs
  <1>5. Draws
    BY <1>1, IdleJob DEF Draws, At
  <1> QED
    BY <1>2, <1>3, <1>4, <1>5 DEF IInv

-----------------------------------------------------------------------------
(* The threads: every step replaces the request of one of them.            *)

\* The requests of all threads are borne out after a step that replaces the one
\* of w by j and does not unsettle the others.
LEMMA OneJob ==
    ASSUME TypeOK, Jobs, Draws, redrawn \subseteq redrawn',
           \A j \in Job : JobOK(j) => JobOK(j)',
           NEW w \in Workers, NEW j \in Job, JobOK(j)', j.step # "store",
           job' = [job EXCEPT ![w] = j]
    PROVE  job' \in [Workers -> Job] /\ Jobs' /\ Draws'
  <1>1. \A v \in Workers : job[v] \in Job /\ job'[v] = IF v = w THEN j ELSE job[v]
    BY DEF TypeOK
  <1>2. job' \in [Workers -> Job]
    BY DEF TypeOK
  <1>3. ASSUME NEW v \in Workers PROVE JobOK(job[v])'
    <2>1. CASE v = w
      <3>1. job'[v] = j
        BY <1>1, <2>1
      <3> QED
        BY <3>1 DEF JobOK, Resolving, Stored, Appointed
    <2>2. CASE v # w
      <3>1. job'[v] = job[v] /\ JobOK(job[v]) /\ job[v] \in Job
        BY <1>1, <2>2 DEF Jobs
      <3> DEFINE k == job[v]
      <3>2. k \in Job /\ JobOK(k) /\ job'[v] = k
        BY <3>1
      <3> HIDE DEF k
      <3> QED
        BY <3>2 DEF JobOK, Resolving, Stored, Appointed
    <2> QED
      BY <2>1, <2>2
  <1>4. Draws'
    BY <1>1 DEF Draws, At
  <1> QED
    BY <1>2, <1>3, <1>4 DEF Jobs

\* The same when no request is replaced.
LEMMA NoJob ==
    ASSUME TypeOK, Jobs, Draws, redrawn \subseteq redrawn', UNCHANGED job,
           \A j \in Job : JobOK(j) => JobOK(j)'
    PROVE  job' \in [Workers -> Job] /\ Jobs' /\ Draws'
  <1>1. ASSUME NEW v \in Workers PROVE JobOK(job[v])'
    <2> DEFINE k == job[v]
    <2>1. k \in Job /\ JobOK(k) /\ job'[v] = k
      BY DEF TypeOK, Jobs
    <2> HIDE DEF k
    <2> QED
      BY <2>1 DEF JobOK, Resolving, Stored, Appointed
  <1> QED
    BY <1>1 DEF Jobs, Draws, At, TypeOK

\* Steps that only replace a request.
LEMMA RequestStep ==
    ASSUME IInv, NEW w \in Workers, NEW j \in Job, j.step # "store", JobOK(j),
           job' = [job EXCEPT ![w] = j],
           UNCHANGED <<users, lastUser, sessions, lastToken, issued, ended, redrawn>>
    PROVE  IInv'
  <1>1. TypeOK /\ Tables /\ Jobs /\ Draws
    BY DEF IInv
  <1>2. \A k \in Job : JobOK(k) => JobOK(k)'
    BY DEF JobOK, Resolving, Stored, Appointed
  <1>3. JobOK(j)'
    BY <1>2
  <1>4. job' \in [Workers -> Job] /\ Jobs' /\ Draws'
    BY <1>1, <1>2, <1>3, OneJob
  <1>5. TypeOK'
    BY <1>1, <1>4 DEF TypeOK
  <1>6. Tables'
    BY <1>1 DEF Tables, SessionsAreOwned, Stored, Appointed
  <1> QED
    BY <1>4, <1>5, <1>6 DEF IInv

\* The answer ends a request.
LEMMA AnswerStep ==
    ASSUME IInv, NEW w \in Workers, Answer(w),
           UNCHANGED <<users, lastUser, sessions, lastToken, issued, ended, redrawn>>
    PROVE  IInv'
  <1>1. job' = [job EXCEPT ![w] = Idle]
    BY DEF Answer
  <1> QED
    BY <1>1, IdleJob, IdleOK, RequestStep

-----------------------------------------------------------------------------
(* Login                                                                   *)

LEMMA ArriveLoginStep ==
    ASSUME IInv, NEW w \in Workers, ArriveLogin(w)
    PROVE  IInv'
  <1>1. PICK n \in Names, p \in Passwords :
           job' = [job EXCEPT ![w] = [Idle EXCEPT !.op = "login", !.step = "check",
                                                  !.name = n, !.pw = p]]
    BY DEF ArriveLogin
  <1> DEFINE j == [Idle EXCEPT !.op = "login", !.step = "check",
                               !.name = n, !.pw = p]
  <1>2. j \in Job /\ j.step = "check" /\ j.peers = {} /\ j.before = {}
        /\ j.op = "login"
    BY DEF Idle, Job
  <1>3. job' = [job EXCEPT ![w] = j]
    BY <1>1
  <1> HIDE DEF j
  <1>4. JobOK(j)
    BY <1>2 DEF JobOK, Resolving
  <1> QED
    BY <1>2, <1>3, <1>4, RequestStep DEF ArriveLogin

LEMMA CheckPasswordStep ==
    ASSUME IInv, NEW w \in Workers, CheckPassword(w)
    PROVE  IInv'
  <1>1. TypeOK /\ JobOK(job[w]) /\ job[w] \in Job /\ job[w].step = "check"
    BY DEF IInv, TypeOK, Jobs, CheckPassword, At
  <1>2. PICK u \in Matching(job[w].name) :
           job' = [job EXCEPT ![w].user = u.id, ![w].name = Keep, ![w].step = "clean"]
    BY DEF CheckPassword
  <1>3. u.id \in Nat
    BY <1>1, <1>2 DEF TypeOK, Matching, User
  <1> DEFINE j == [job[w] EXCEPT !.user = u.id, !.name = Keep, !.step = "clean"]
  <1>4. job' = [job EXCEPT ![w] = j]
    BY <1>1, <1>2 DEF TypeOK
  <1>5. j \in Job /\ j.step = "clean" /\ j.peers = job[w].peers
        /\ j.before = job[w].before
    BY <1>1, <1>3 DEF Job
  <1> HIDE DEF j
  <1>6. JobOK(j)
    BY <1>1, <1>5 DEF JobOK, Resolving
  <1> QED
    BY <1>4, <1>5, <1>6, RequestStep DEF CheckPassword

\* A request goes to another step that claims nothing more.
LEMMA GotoStep ==
    ASSUME IInv, NEW w \in Workers, NEW step \in {"deleteOne", "act"},
           Goto(w, step),
           step = "act" => /\ job[w].step \in Resolving
                           /\ job[w].op = "admin" => Appointed(job[w].user),
           UNCHANGED <<users, lastUser, sessions, lastToken, issued, ended, redrawn>>
    PROVE  IInv'
  <1>1. TypeOK /\ JobOK(job[w]) /\ job[w] \in Job
    BY DEF IInv, TypeOK, Jobs
  <1> DEFINE j == [job[w] EXCEPT !.step = step]
  <1>2. job' = [job EXCEPT ![w] = j]
    BY <1>1 DEF Goto, TypeOK
  <1>3. /\ j \in Job /\ j.step = step /\ j.peers = job[w].peers
        /\ j.before = job[w].before /\ j.op = job[w].op
        /\ j.token = job[w].token /\ j.user = job[w].user
    BY <1>1 DEF Job
  <1> HIDE DEF j
  <1>4. JobOK(j)
    BY <1>1, <1>3 DEF JobOK, Resolving
  <1> QED
    BY <1>2, <1>3, <1>4, RequestStep

\* A step that goes to "draw" leaves the request as it was.
LEMMA DrawNext ==
    ASSUME NEW j \in Job, JobOK(j)
    PROVE  LET k == [j EXCEPT !.step = "draw"]
           IN  k \in Job /\ k.step = "draw" /\ JobOK(k)
  <1> DEFINE k == [j EXCEPT !.step = "draw"]
  <1>1. k \in Job /\ k.step = "draw" /\ k.peers = j.peers /\ k.before = j.before
    BY DEF Job
  <1> HIDE DEF k
  <1>2. JobOK(k)
    BY <1>1 DEF JobOK, Resolving
  <1> QED
    BY <1>1, <1>2 DEF k

\* A fresh token belongs to nobody; one of another call becomes a repeated one.
LEMMA DrawTokenStep ==
    ASSUME IInv, NEW w \in Workers, DrawToken(w)
    PROVE  IInv'
  <1>1. TypeOK /\ Tables /\ Jobs /\ Draws /\ lastToken \in Nat
    BY DEF IInv, TypeOK
  <1>2. PICK t \in {lastToken + 1} \cup job[w].peers :
          /\ lastToken' = IF t > lastToken THEN t ELSE lastToken
          /\ redrawn' = IF t > lastToken THEN redrawn ELSE redrawn \cup {t}
          /\ job' = [v \in Workers |->
                       CASE v = w -> [job[w] EXCEPT !.token = t, !.step = "store",
                                                    !.peers = {}]
                         [] v # w /\ At(v, "draw") ->
                              [job[v] EXCEPT !.peers = @ \cup {t}]
                         [] OTHER -> job[v]]
    BY DEF DrawToken
  <1>3. \A v \in Workers : job[v] \in Job /\ JobOK(job[v])
    BY <1>1 DEF TypeOK, Jobs
  <1>4. t \in Nat /\ t <= lastToken' /\ lastToken <= lastToken' /\ lastToken' \in Nat
    BY <1>1, <1>2, <1>3 DEF Job
  <1>5. redrawn \subseteq redrawn' /\ redrawn' \subseteq Nat
    BY <1>1, <1>2, <1>4 DEF TypeOK
  <1>6. UNCHANGED <<users, lastUser, sessions, issued, ended>>
    BY DEF DrawToken
  <1>7. t = lastToken + 1 \/ t \in redrawn'
    <2>1. ASSUME t \in job[w].peers PROVE t <= lastToken
      BY <1>3, <2>1 DEF JobOK
    <2>2. t \in job[w].peers => redrawn' = redrawn \cup {t}
      BY <1>1, <1>2, <1>4, <2>1
    <2> QED
      BY <1>2, <2>2
  <1>8. job[w].step = "draw"
    BY DEF DrawToken, At
  <1>9. \A v \in Workers :
          /\ job'[v].step = IF v = w THEN "store" ELSE job[v].step
          /\ v # w => job'[v].token = job[v].token
          /\ job'[w].token = t
    BY <1>2, <1>3 DEF Job
  <1>10. ASSUME NEW v \in Workers PROVE job'[v] \in Job /\ JobOK(job[v])'
    <2>1. CASE v = w
      <3> DEFINE k == [job[w] EXCEPT !.token = t, !.step = "store", !.peers = {}]
      <3>1. job'[v] = k
        BY <1>2, <2>1
      <3>2. /\ k \in Job /\ k.token = t /\ k.step = "store" /\ k.peers = {}
            /\ k.before = job[w].before
        BY <1>3, <1>4 DEF Job
      <3> HIDE DEF k
      <3>3. (\E i \in issued : i[1] = t) => t \in redrawn'
        BY <1>1, <1>7 DEF Tables, TypeOK
      <3> QED
        BY <1>3, <1>4, <1>6, <3>1, <3>2, <3>3 DEF JobOK, Resolving, Stored
    <2>2. CASE v # w /\ At(v, "draw")
      <3> DEFINE k == [job[v] EXCEPT !.peers = @ \cup {t}]
      <3>1. job'[v] = k
        BY <1>2, <2>2
      <3>2. /\ k \in Job /\ k.step = "draw" /\ k.peers = job[v].peers \cup {t}
            /\ k.before = job[v].before
        BY <1>3, <1>4, <2>2 DEF Job, At
      <3> HIDE DEF k
      <3>3. \A p \in k.peers : p <= lastToken'
        <4>1. \A p \in job[v].peers : p \in Nat /\ p <= lastToken
          BY <1>3 DEF JobOK, Job
        <4> QED
          BY <1>1, <1>4, <3>2, <4>1
      <3> QED
        BY <1>3, <1>6, <3>1, <3>2, <3>3 DEF JobOK, Resolving
    <2>3. CASE v # w /\ ~ At(v, "draw")
      <3> DEFINE k == job[v]
      <3>1. job'[v] = k
        BY <1>2, <2>3
      <3>2. k \in Job /\ JobOK(k)
        BY <1>3
      <3> HIDE DEF k
      <3>3. \A p \in k.peers : p <= lastToken'
        BY <1>1, <1>4, <3>2 DEF JobOK, Job
      <3>4. k.step = "store" => k.token <= lastToken'
        BY <1>1, <1>4, <3>2 DEF JobOK, Job
      <3> QED
        BY <1>5, <1>6, <3>1, <3>2, <3>3, <3>4 DEF JobOK, Resolving, Stored, Appointed
    <2> QED
      BY <2>1, <2>2, <2>3
  <1>11. TypeOK'
    <2>1. job' \in [Workers -> Job]
      BY <1>2, <1>10
    <2> QED
      BY <1>1, <1>4, <1>5, <1>6, <2>1 DEF TypeOK
  <1>12. Tables'
    <2>1. \A i \in issued : i[1] <= lastToken'
      BY <1>1, <1>4 DEF Tables, TypeOK
    <2> QED
      BY <1>1, <1>5, <1>6, <2>1 DEF Tables, SessionsAreOwned, Stored, Appointed
  <1>13. Draws'
    <2>1. \A v \in Workers : v # w /\ At(v, "store") => job[v].token <= lastToken
      BY <1>3 DEF JobOK, At
    <2>2. \A v \in Workers :
            v # w /\ At(v, "store") /\ job[v].token = t => t \in redrawn'
      BY <1>1, <1>7, <2>1
    <2>3. ASSUME NEW u \in Workers, NEW v \in Workers, u # v,
                 job'[u].step = "store", job'[v].step = "store",
                 job'[u].token = job'[v].token
          PROVE  job'[u].token \in redrawn'
      <3>1. CASE u = w
        BY <1>9, <2>2, <2>3, <3>1 DEF At
      <3>2. CASE v = w
        BY <1>9, <2>2, <2>3, <3>2 DEF At
      <3>3. CASE u # w /\ v # w
        BY <1>1, <1>5, <1>9, <2>3, <3>3 DEF Draws, At
      <3> QED
        BY <3>1, <3>2, <3>3
    <2> QED
      BY <2>3 DEF Draws, At
  <1> QED
    BY <1>10, <1>11, <1>12, <1>13 DEF IInv, Jobs

LEMMA CreateSessionStep ==
    ASSUME IInv, NEW w \in Workers, CreateSession(w)
    PROVE  IInv'
  <1> DEFINE t == job[w].token
             u == job[w].user
             row == [token |-> t, user |-> u, expired |-> FALSE]
             stored == /\ \E x \in users : x.id = u
                       /\ \A s \in sessions : s.token # t
  <1>1. TypeOK /\ Tables /\ Jobs /\ Draws
    BY DEF IInv
  <1>2. /\ sessions' = IF stored THEN sessions \cup {row} ELSE sessions
        /\ issued' = IF stored THEN issued \cup {<<t, u>>} ELSE issued
        /\ job' = [job EXCEPT ![w] = Idle]
        /\ UNCHANGED <<users, lastUser, lastToken, ended, redrawn>>
        /\ At(w, "store")
    BY DEF CreateSession, Answer
  <1>3. job[w] \in Job /\ JobOK(job[w]) /\ t \in Nat /\ u \in Nat
    BY <1>1 DEF TypeOK, Jobs, Job
  <1>4. t <= lastToken /\ (Stored(t) => t \in redrawn)
    BY <1>2, <1>3 DEF JobOK, At
  <1>5. CASE ~ stored
    BY <1>2, <1>5, AnswerStep DEF Answer
  <1>6. CASE stored
    <2>1. /\ row \in Session /\ row.token = t /\ row.user = u /\ ~ row.expired
          /\ sessions' = sessions \cup {row}
          /\ issued' = issued \cup {<<t, u>>}
      BY <1>2, <1>3, <1>6 DEF Session
    <2> HIDE DEF row
    <2>2. \A i \in issued' : i \in issued \/ i[1] = t
      BY <2>1
    <2>3. Tables'
      <3>1. SessionsAreOwned'
        BY <1>1, <1>2, <1>6, <2>1 DEF Tables, SessionsAreOwned
      <3>2. \A s \in sessions' : <<s.token, s.user>> \in issued'
        BY <1>1, <2>1 DEF Tables
      <3>3. \A i \in issued' : i[1] <= lastToken'
        BY <1>1, <1>2, <1>4, <2>1 DEF Tables
      <3>4. \A i, k \in issued' : i[1] = k[1] /\ i[2] # k[2] => i[1] \in redrawn'
        BY <1>1, <1>2, <1>4, <2>1 DEF Tables, Stored
      <3>5. \A x \in ended' : Stored(x)'
        BY <1>1, <1>2, <2>1 DEF Tables, Stored
      <3>6. \A s \in sessions' :
              ~ s.expired /\ s.token \in ended' => s.token \in redrawn'
        BY <1>1, <1>2, <1>4, <2>1 DEF Tables
      <3>7. \A x \in users' : x.admin => Appointed(x.id)
        BY <1>1, <1>2 DEF Tables
      <3> QED
        BY <3>1, <3>2, <3>3, <3>4, <3>5, <3>6, <3>7 DEF Tables, Appointed
    <2>4. ASSUME NEW v \in Workers PROVE job'[v] \in Job /\ JobOK(job[v])'
      <3>1. CASE v = w
        <4>1. job'[v] = Idle
          BY <1>1, <1>2, <3>1 DEF TypeOK
        <4> QED
          BY <4>1, IdleJob DEF JobOK, Resolving
      <3>2. CASE v # w
        <4> DEFINE k == job[v]
        <4>1. k \in Job /\ JobOK(k) /\ job'[v] = k
          BY <1>1, <1>2, <3>2 DEF TypeOK, Jobs
        <4>2. k.step = "store" /\ k.token = t => t \in redrawn
          BY <1>1, <1>2, <3>2 DEF Draws, At
        <4> HIDE DEF k
        <4>3. k.step = "store" => ((\E i \in issued' : i[1] = k.token) => k.token \in redrawn)
          BY <2>2, <4>1, <4>2 DEF JobOK, Stored
        <4> QED
          BY <1>2, <2>1, <4>1, <4>3 DEF JobOK, Resolving, Stored, Appointed
      <3> QED
        BY <3>1, <3>2
    <2>5. Draws'
      BY <1>1, <1>2, IdleJob DEF Draws, At, TypeOK
    <2>6. TypeOK'
      BY <1>1, <1>2, <1>3, <2>1, IdleJob DEF TypeOK
    <2> QED
      BY <2>3, <2>4, <2>5, <2>6 DEF IInv, Jobs
  <1> QED
    BY <1>5, <1>6

-----------------------------------------------------------------------------
(* Rows that leave the sessions table.                                     *)

\* A request whose session is removed while it is under way sees its token end
\* after it arrived.
LEMMA RemoveStep ==
    ASSUME TypeOK, Tables, NEW gone \in SUBSET sessions, Remove(gone),
           UNCHANGED <<issued, redrawn, lastToken>>,
           \A u \in users' : u.admin => Appointed(u.id),
           \A s \in sessions \ gone : \E u \in users' : u.id = s.user
    PROVE  /\ Tables'
           /\ sessions' \subseteq Session /\ ended' \subseteq Nat
           /\ \A j \in Job : JobOK(j) => JobOK(j)'
  <1>1. sessions' = sessions \ gone /\ ended' = ended \cup {s.token : s \in gone}
    BY DEF Remove
  <1>2. \A s \in gone : Stored(s.token) /\ s.token \in Nat
    BY DEF Tables, Stored, TypeOK, Session
  <1>3. Tables'
    <2>1. SessionsAreOwned'
      BY <1>1 DEF Tables, SessionsAreOwned
    <2>2. \A t \in ended' : Stored(t)'
      BY <1>1, <1>2 DEF Tables, Stored
    <2>3. \A s \in sessions' : ~ s.expired /\ s.token \in ended' => s.token \in redrawn'
      BY <1>1 DEF Tables, SessionsAreOwned
    <2>4. \A s \in sessions' : <<s.token, s.user>> \in issued'
      BY <1>1 DEF Tables
    <2> QED
      BY <2>1, <2>2, <2>3, <2>4 DEF Tables, Appointed
  <1>4. ASSUME NEW j \in Job, JobOK(j) PROVE JobOK(j)'
    <2>1. j.before \subseteq ended'
      BY <1>1, <1>4 DEF JobOK
    <2>2. ASSUME j.step \in Resolving
          PROVE  \/ \E s \in sessions' : /\ s.token = j.token /\ ~ s.expired
                                         /\ s.user = j.user
                 \/ j.token \in ended' \ j.before
                 \/ j.token \in redrawn'
      <3>1. CASE \E s \in gone : s.token = j.token /\ ~ s.expired
        <4>1. j.token \in ended'
          BY <1>1, <3>1
        <4>2. j.token \in j.before => j.token \in redrawn
          BY <1>4, <3>1 DEF JobOK, Tables
        <4> QED
          BY <4>1, <4>2
      <3>2. CASE ~ \E s \in gone : s.token = j.token /\ ~ s.expired
        BY <1>1, <1>4, <2>2, <3>2 DEF JobOK
      <3> QED
        BY <3>1, <3>2
    <2> QED
      BY <1>4, <2>1, <2>2 DEF JobOK, Stored, Appointed, Resolving
  <1>5. sessions' \subseteq Session /\ ended' \subseteq Nat
    BY <1>1, <1>2 DEF TypeOK
  <1> QED
    BY <1>3, <1>4, <1>5

LEMMA DeleteExpiredStep ==
    ASSUME IInv, NEW w \in Workers, DeleteExpired(w)
    PROVE  IInv'
  <1> DEFINE gone == {s \in sessions : s.expired}
             j == [job[w] EXCEPT !.step = "draw"]
  <1>1. TypeOK /\ Tables /\ Jobs /\ Draws
    BY DEF IInv
  <1>2. /\ Remove(gone) /\ job' = [job EXCEPT ![w] = j]
        /\ UNCHANGED <<users, lastUser, lastToken, issued, redrawn>>
    BY <1>1 DEF DeleteExpired, Goto, TypeOK
  <1>3. job[w] \in Job /\ JobOK(job[w])
    BY <1>1 DEF TypeOK, Jobs
  <1>4. j \in Job /\ j.step = "draw" /\ JobOK(j)
    BY <1>3, DrawNext
  <1>5. /\ Tables' /\ sessions' \subseteq Session /\ ended' \subseteq Nat
        /\ \A k \in Job : JobOK(k) => JobOK(k)'
    BY <1>1, <1>2, RemoveStep DEF Tables, SessionsAreOwned
  <1>6. j.before \subseteq ended /\ j.peers = job[w].peers
    BY <1>3, <1>4 DEF JobOK, Job
  <1>7. job' \in [Workers -> Job] /\ \A v \in Workers : v # w => job'[v] = job[v]
    BY <1>1, <1>2, <1>4 DEF TypeOK
  <1>8. job'[w] = j
    BY <1>1, <1>2 DEF TypeOK
  <1>9. Jobs'
    <2>1. ASSUME NEW v \in Workers PROVE JobOK(job[v])'
      <3> DEFINE k == IF v = w THEN j ELSE job[v]
      <3>1. k \in Job /\ JobOK(k) /\ job'[v] = k
        BY <1>1, <1>4, <1>7, <1>8 DEF TypeOK, Jobs
      <3> HIDE DEF k
      <3>2. \A i \in Job : JobOK(i) => JobOK(i)'
        BY <1>5
      <3> QED
        BY <3>1, <3>2 DEF JobOK, Resolving, Stored, Appointed
    <2> QED
      BY <2>1 DEF Jobs
  <1>10. Draws'
    BY <1>1, <1>2, <1>4, <1>7, <1>8 DEF Draws, At
  <1>11. TypeOK'
    BY <1>1, <1>2, <1>5, <1>7 DEF TypeOK
  <1> QED
    BY <1>5, <1>9, <1>10, <1>11 DEF IInv

\* A request that removes rows and is answered, or none of them answered.
LEMMA RemoveAndAnswer ==
    ASSUME IInv, NEW gone \in SUBSET sessions, Remove(gone),
           UNCHANGED <<lastUser, lastToken, issued, redrawn>>,
           users' \subseteq users,
           \A s \in sessions \ gone : \E u \in users' : u.id = s.user,
           UNCHANGED job \/ \E w \in Workers : Answer(w)
    PROVE  IInv'
  <1>1. TypeOK /\ Tables /\ Jobs /\ Draws
    BY DEF IInv
  <1>2. /\ Tables' /\ sessions' \subseteq Session /\ ended' \subseteq Nat
        /\ \A k \in Job : JobOK(k) => JobOK(k)'
    <2>1. \A u \in users' : u.admin => Appointed(u.id)
      BY <1>1 DEF Tables
    <2> QED
      BY <1>1, <2>1, RemoveStep
  <1>3. job' \in [Workers -> Job] /\ Jobs' /\ Draws'
    <2>1. CASE UNCHANGED job
      BY <1>1, <1>2, <2>1, NoJob
    <2>2. ASSUME NEW w \in Workers, Answer(w)
          PROVE  job' \in [Workers -> Job] /\ Jobs' /\ Draws'
      <3>1. job' = [job EXCEPT ![w] = Idle]
        BY <2>2 DEF Answer
      <3>2. JobOK(Idle)'
        BY IdleJob DEF JobOK, Resolving
      <3>3. redrawn \subseteq redrawn' /\ Idle \in Job /\ Idle.step # "store"
        BY IdleJob
      <3> QED
        BY <1>1, <1>2, <3>1, <3>2, <3>3, OneJob
    <2> QED
      BY <2>1, <2>2
  <1>4. TypeOK'
    BY <1>1, <1>2, <1>3 DEF TypeOK
  <1> QED
    BY <1>2, <1>3, <1>4 DEF IInv

LEMMA DeleteSessionsStep ==
    ASSUME IInv, NEW w \in Workers, DeleteSessions(w)
    PROVE  IInv'
  <1> DEFINE gone == {s \in sessions : IF At(w, "deleteAll")
                                       THEN s.user = job[w].user
                                       ELSE s.token = job[w].token}
  <1>1. gone \in SUBSET sessions /\ Remove(gone)
    BY DEF DeleteSessions
  <1>2. \A s \in sessions \ gone : \E u \in users : u.id = s.user
    BY DEF IInv, Tables, SessionsAreOwned
  <1> HIDE DEF gone
  <1> QED
    BY <1>1, <1>2, RemoveAndAnswer DEF DeleteSessions

LEMMA DropUserStep ==
    ASSUME IInv, NEW id, DropUser(id),
           UNCHANGED <<lastUser, lastToken, issued, redrawn>>,
           UNCHANGED job \/ \E w \in Workers : Answer(w)
    PROVE  IInv'
  <1> DEFINE gone == {s \in sessions : s.user = id}
  <1>1. gone \in SUBSET sessions /\ Remove(gone) /\ users' \subseteq users
    BY DEF DropUser
  <1>2. \A s \in sessions \ gone : \E u \in users' : u.id = s.user
    BY DEF IInv, Tables, SessionsAreOwned, DropUser
  <1> HIDE DEF gone
  <1> QED
    BY <1>1, <1>2, RemoveAndAnswer

\* A session that expires is one that ended, as if it were removed.
LEMMA ExpireStep ==
    ASSUME IInv, NEW s \in sessions, Expire(s)
    PROVE  IInv'
  <1> DEFINE r == [s EXCEPT !.expired = TRUE]
  <1>1. TypeOK /\ Tables /\ Jobs /\ Draws
    BY DEF IInv
  <1>2. /\ sessions' = (sessions \ {s}) \cup {r}
        /\ ended' = ended \cup {s.token}
        /\ UNCHANGED <<users, lastUser, lastToken, job, issued, redrawn>>
        /\ ~ s.expired
    BY DEF Expire
  <1>3. s \in Session /\ r \in Session /\ r.token = s.token /\ r.user = s.user
        /\ r.expired
    BY <1>1 DEF TypeOK, Session
  <1> HIDE DEF r
  <1>4. Stored(s.token) /\ s.token \in Nat
    BY <1>1, <1>3 DEF Tables, Stored, Session
  <1>5. \A x \in sessions' : x = r \/ x \in sessions
    BY <1>2
  <1>6. Tables'
    <2>1. SessionsAreOwned'
      BY <1>1, <1>2, <1>3 DEF Tables, SessionsAreOwned
    <2>2. \A t \in ended' : Stored(t)'
      BY <1>1, <1>2, <1>4 DEF Tables, Stored
    <2>3. \A x \in sessions' :
            ~ x.expired /\ x.token \in ended' => x.token \in redrawn'
      BY <1>1, <1>2, <1>3 DEF Tables, SessionsAreOwned
    <2>4. \A x \in sessions' : <<x.token, x.user>> \in issued'
      BY <1>1, <1>2, <1>3 DEF Tables
    <2> QED
      BY <1>1, <1>2, <2>1, <2>2, <2>3, <2>4 DEF Tables, Appointed
  <1>7. ASSUME NEW j \in Job, JobOK(j) PROVE JobOK(j)'
    <2>1. j.before \subseteq ended'
      BY <1>2, <1>7 DEF JobOK
    <2>2. ASSUME j.step \in Resolving
          PROVE  \/ \E x \in sessions' : /\ x.token = j.token /\ ~ x.expired
                                         /\ x.user = j.user
                 \/ j.token \in ended' \ j.before
                 \/ j.token \in redrawn'
      <3>1. CASE s.token = j.token
        <4>1. j.token \in j.before => j.token \in redrawn
          BY <1>1, <1>2, <1>7, <3>1 DEF JobOK, Tables
        <4> QED
          BY <1>2, <3>1, <4>1
      <3>2. CASE s.token # j.token
        BY <1>2, <1>7, <2>2, <3>2 DEF JobOK
      <3> QED
        BY <3>1, <3>2
    <2> QED
      BY <1>2, <1>7, <2>1, <2>2 DEF JobOK, Stored, Appointed, Resolving
  <1>8. job' \in [Workers -> Job] /\ Jobs' /\ Draws'
    BY <1>1, <1>2, <1>7, NoJob
  <1>9. TypeOK'
    BY <1>1, <1>2, <1>3, <1>4, <1>8 DEF TypeOK
  <1> QED
    BY <1>6, <1>8, <1>9 DEF IInv

-----------------------------------------------------------------------------
(* Users and requests with a cookie                                        *)

\* Rows that join users or are edited keep their ids, and no admin joins.
LEMMA UsersStep ==
    ASSUME IInv, users' \subseteq User, lastUser' \in Nat,
           \A u \in users : \E v \in users' : v.id = u.id,
           \A v \in users' : v.admin => \E u \in users : u.admin /\ u.id = v.id,
           UNCHANGED <<sessions, lastToken, issued, ended, redrawn>>,
           UNCHANGED job \/ \E w \in Workers : Answer(w)
    PROVE  IInv'
  <1>1. TypeOK /\ Tables /\ Jobs /\ Draws
    BY DEF IInv
  <1>2. \A k \in Job : JobOK(k) => JobOK(k)'
    BY DEF JobOK, Resolving, Stored, Appointed
  <1>3. job' \in [Workers -> Job] /\ Jobs' /\ Draws'
    <2>1. CASE UNCHANGED job
      BY <1>1, <1>2, <2>1, NoJob
    <2>2. ASSUME NEW w \in Workers, Answer(w)
          PROVE  job' \in [Workers -> Job] /\ Jobs' /\ Draws'
      <3>1. job' = [job EXCEPT ![w] = Idle]
        BY <2>2 DEF Answer
      <3>2. JobOK(Idle)'
        BY IdleJob DEF JobOK, Resolving
      <3>3. redrawn \subseteq redrawn' /\ Idle \in Job /\ Idle.step # "store"
        BY IdleJob
      <3> QED
        BY <1>1, <1>2, <3>1, <3>2, <3>3, OneJob
    <2> QED
      BY <2>1, <2>2
  <1>4. Tables'
    <2>1. SessionsAreOwned'
      BY <1>1 DEF Tables, SessionsAreOwned
    <2>2. \A v \in users' : v.admin => Appointed(v.id)
      BY <1>1 DEF Tables, Appointed
    <2> QED
      BY <1>1, <2>1, <2>2 DEF Tables, Stored, Appointed
  <1>5. TypeOK'
    BY <1>1, <1>3 DEF TypeOK
  <1> QED
    BY <1>3, <1>4, <1>5 DEF IInv

LEMMA RegisterStep ==
    ASSUME IInv, NEW row \in Applicants, Register(row)
    PROVE  IInv'
  <1> DEFINE new == [id |-> lastUser + 1, phone |-> row.phone,
                     email |-> row.email, pw |-> row.pw, admin |-> FALSE]
  <1>1. users \subseteq User /\ lastUser \in Nat
    BY DEF IInv, TypeOK
  <1>2. new \in User /\ ~ new.admin
    BY <1>1, SessionsAssumption DEF User
  <1>3. users' = users \/ users' = users \cup {new}
    BY DEF Register, Inserted
  <1> HIDE DEF new
  <1> QED
    BY <1>1, <1>2, <1>3, UsersStep DEF Register, Inserted

LEMMA UpdateUserStep ==
    ASSUME IInv, NEW w \in Workers, NEW id, NEW edit \in Edits,
           UpdateUser(w, id, edit)
    PROVE  IInv'
  <1> DEFINE New(u) == IF u.id = id
                THEN [u EXCEPT !.phone = IF edit.phone = Keep THEN @ ELSE edit.phone,
                               !.email = IF edit.email = Keep THEN @ ELSE edit.email]
                ELSE u
  <1>1. users \subseteq User
    BY DEF IInv, TypeOK
  <1>2. users' = {New(u) : u \in users}
    BY DEF UpdateUser, Updated
  <1>3. /\ edit.phone \in Names \cup {Keep}
        /\ edit.email \in Names \cup {Keep}
    BY SessionsAssumption
  <1>4. ASSUME NEW u \in users
        PROVE  New(u) \in User /\ New(u).id = u.id /\ New(u).admin = u.admin
    BY <1>1, <1>3 DEF User
  <1> HIDE DEF New
  <1>5. users' \subseteq User
    BY <1>2, <1>4
  <1>6. \A u \in users : \E v \in users' : v.id = u.id
    BY <1>2, <1>4
  <1>7. \A v \in users' : v.admin => \E u \in users : u.admin /\ u.id = v.id
    BY <1>2, <1>4
  <1>8. lastUser' \in Nat
    BY DEF UpdateUser, Updated, IInv, TypeOK
  <1> QED
    BY <1>5, <1>6, <1>7, <1>8, UsersStep DEF UpdateUser, Updated

LEMMA ArriveStep ==
    ASSUME IInv, NEW w \in Workers, Arrive(w)
    PROVE  IInv'
  <1>1. PICK op \in {"logout", "user", "admin"}, t \in 1..lastToken :
           job' = [job EXCEPT ![w] = [Idle EXCEPT !.op = op, !.step = "resolve",
                                                  !.token = t, !.before = ended]]
    BY DEF Arrive
  <1>2. ended \subseteq Nat /\ lastToken \in Nat
    BY DEF IInv, TypeOK
  <1> DEFINE j == [Idle EXCEPT !.op = op, !.step = "resolve", !.token = t,
                               !.before = ended]
  <1>3. /\ j \in Job /\ j.step = "resolve" /\ j.peers = {} /\ j.before = ended
    <2>1. ended \in SUBSET Nat /\ t \in Nat
      BY <1>2
    <2>2. j \in Job
      BY <2>1, IdleJob DEF Job
    <2> QED
      BY <2>2, IdleJob DEF Idle
  <1>4. job' = [job EXCEPT ![w] = j]
    BY <1>1
  <1> HIDE DEF j
  <1>5. JobOK(j)
    BY <1>3 DEF JobOK, Resolving
  <1> QED
    BY <1>3, <1>4, <1>5, RequestStep DEF Arrive

LEMMA ResolveStep ==
    ASSUME IInv, NEW w \in Workers, Resolve(w)
    PROVE  IInv'
  <1>1. TypeOK /\ Tables /\ JobOK(job[w]) /\ job[w] \in Job
    BY DEF IInv, TypeOK, Jobs
  <1>2. PICK s \in Live(job[w].token) :
           job' = [job EXCEPT ![w].user = s.user, ![w].step = Resolved(job[w].op)]
    BY DEF Resolve
  <1>3. s \in sessions /\ s.user \in Nat /\ s.token = job[w].token /\ ~ s.expired
    BY <1>1, <1>2 DEF TypeOK, Live, Session
  <1> DEFINE j == [job[w] EXCEPT !.user = s.user, !.step = Resolved(job[w].op)]
  <1>4. job' = [job EXCEPT ![w] = j]
    BY <1>1, <1>2 DEF TypeOK
  <1>5. /\ Resolved(job[w].op) \in Resolving
        /\ job[w].op = "admin" => Resolved(job[w].op) = "isAdmin"
    BY DEF Resolved, Resolving
  <1>6. /\ j \in Job /\ j.step = Resolved(job[w].op) /\ j.peers = job[w].peers
        /\ j.before = job[w].before /\ j.op = job[w].op
        /\ j.token = job[w].token /\ j.user = s.user
    BY <1>1, <1>3, <1>5 DEF Job, Resolving
  <1> HIDE DEF j
  <1>7. <<j.token, j.user>> \in issued
    BY <1>1, <1>3, <1>6 DEF Tables
  <1>8. JobOK(j)
    BY <1>1, <1>3, <1>5, <1>6, <1>7 DEF JobOK, Resolving
  <1>9. j.step # "store"
    BY <1>5, <1>6 DEF Resolving
  <1> QED
    BY <1>4, <1>6, <1>8, <1>9, RequestStep DEF Resolve

LEMMA IsAdminStep ==
    ASSUME IInv, NEW w \in Workers, IsAdmin(w)
    PROVE  IInv'
  <1>1. CASE \E u \in users : u.id = job[w].user /\ u.admin
    <2>1. Appointed(job[w].user)
      BY <1>1 DEF IInv, Tables, Appointed
    <2>2. Goto(w, "act") /\ job[w].step \in Resolving
      BY <1>1 DEF IsAdmin, HasFlag, At, Resolving
    <2> QED
      BY <2>1, <2>2, GotoStep DEF IsAdmin, HasFlag
  <1>2. CASE ~ \E u \in users : u.id = job[w].user /\ u.admin
    BY <1>2, AnswerStep DEF IsAdmin, HasFlag
  <1> QED
    BY <1>1, <1>2

LEMMA UnresolvedStep ==
    ASSUME IInv, NEW w \in Workers, Unresolved(w)
    PROVE  IInv'
  <1>1. CASE job[w].op = "logout"
    <2>1. Goto(w, "deleteOne")
      BY <1>1 DEF Unresolved
    <2> QED
      BY <2>1, GotoStep DEF Unresolved
  <1>2. CASE job[w].op # "logout"
    BY <1>2, AnswerStep DEF Unresolved
  <1> QED
    BY <1>1, <1>2

-----------------------------------------------------------------------------
LEMMA NextIInv == IInv /\ [Next]_vars => IInv'
  <1> SUFFICES ASSUME IInv, [Next]_vars PROVE IInv'
    OBVIOUS
  <1>1. CASE UNCHANGED vars
    <2>1. \A k \in Job : JobOK(k) => JobOK(k)'
      BY <1>1 DEF vars, JobOK, Resolving, Stored, Appointed
    <2>2. Jobs' /\ Draws'
      BY <1>1, <2>1, NoJob DEF vars, IInv
    <2> QED
      BY <1>1, <2>2 DEF vars, IInv, TypeOK, Tables, SessionsAreOwned, Stored,
                        Appointed
  <1>2. ASSUME NEW w \in Workers, Login(w) PROVE IInv'
    BY <1>2, ArriveLoginStep, CheckPasswordStep, AnswerStep, DeleteExpiredStep,
       DrawTokenStep, CreateSessionStep DEF Login, Refuse
  <1>3. ASSUME NEW w \in Workers, Cookie(w) PROVE IInv'
    BY <1>3, ArriveStep, ResolveStep, UnresolvedStep, DeleteSessionsStep,
       IsAdminStep, AnswerStep DEF Cookie, Act
  <1>4. ASSUME NEW w \in Workers, StatementRaises(w) PROVE IInv'
    BY <1>4, AnswerStep DEF StatementRaises
  <1>5. ASSUME NEW w \in Workers, NEW id \in 1..MaxUsers, NEW edit \in Edits,
               UpdateUser(w, id, edit)
        PROVE  IInv'
    BY <1>5, UpdateUserStep
  <1>6. ASSUME NEW w \in Workers, NEW id \in 1..MaxUsers, AdminRemoveUser(w, id)
        PROVE  IInv'
    BY <1>6, DropUserStep DEF AdminRemoveUser
  <1>7. ASSUME NEW row \in Applicants, Register(row) PROVE IInv'
    BY <1>7, RegisterStep
  <1>8. ASSUME NEW id \in 1..MaxUsers, RemoveUser(id) PROVE IInv'
    BY <1>8, DropUserStep DEF RemoveUser
  <1>9. ASSUME NEW s \in sessions, Expire(s) PROVE IInv'
    BY <1>9, ExpireStep
  <1> QED
    BY <1>1, <1>2, <1>3, <1>4, <1>5, <1>6, <1>7, <1>8, <1>9 DEF Next

\* What the tables, the requests and the generator keep true of each other.
THEOREM SessionsInvariant == Spec => []IInv
  BY InitIInv, NextIInv, PTL DEF Spec

\* Every variable keeps the shape the tables and handlers give it.
THEOREM TypeCorrect == Spec => []TypeOK
  <1>1. IInv => TypeOK
    BY DEF IInv
  <1> QED
    BY <1>1, SessionsInvariant, PTL

\* getUserIdFromToken answers before the handler acts: a request acts for a
\* session that is live, or that ended after the request arrived.
THEOREM ActsInTime == Spec => []ActsOnLiveOrJustEnded
  <1>1. IInv => ActsOnLiveOrJustEnded
    BY DEF IInv, Jobs, JobOK, Resolving, ActsOnLiveOrJustEnded, Live
  <1> QED
    BY <1>1, SessionsInvariant, PTL

LEMMA OneUser == IInv => TokensSpeakForOneUser
  <1> SUFFICES ASSUME IInv PROVE TokensSpeakForOneUser
    OBVIOUS
  <1> DEFINE stores == {v \in Workers : job[v].step = "store"}
             table == {<<s.token, s.user>> : s \in sessions}
             held == {<<job[w].token, job[w].user>> :
                        w \in {v \in Workers : job[v].step \in
                                  {"store", "act", "isAdmin", "deleteAll"}}}
  <1>1. table \subseteq issued
    BY DEF IInv, Tables
  <1>2. \A c \in held : \/ c \in issued
                        \/ \E w \in stores : c = <<job[w].token, job[w].user>>
    BY DEF IInv, Jobs, JobOK, Resolving
  <1>3. \A w \in stores, i \in issued :
           i[1] = job[w].token => i[1] \in redrawn
    BY DEF IInv, Jobs, JobOK, Stored
  <1>4. \A v, w \in stores :
           job[v].token = job[w].token => v = w \/ job[v].token \in redrawn
    BY DEF IInv, Draws, At
  <1>5. \A i, k \in issued : i[1] = k[1] /\ i[2] # k[2] => i[1] \in redrawn
    BY DEF IInv, Tables
  <1>6. ASSUME NEW c \in issued \cup table \cup held,
               NEW d \in issued \cup table \cup held, c[1] = d[1], c[2] # d[2]
        PROVE  c[1] \in redrawn
    <2>1. c \in issued \/ \E w \in stores : c = <<job[w].token, job[w].user>>
      BY <1>1, <1>2
    <2>2. d \in issued \/ \E w \in stores : d = <<job[w].token, job[w].user>>
      BY <1>1, <1>2
    <2> HIDE DEF table, held, stores
    <2>3. CASE c \in issued /\ d \in issued
      BY <1>5, <1>6, <2>3
    <2>4. ASSUME NEW w \in stores, c = <<job[w].token, job[w].user>>, d \in issued
          PROVE  c[1] \in redrawn
      BY <1>3, <1>6, <2>4
    <2>5. ASSUME NEW w \in stores, d = <<job[w].token, job[w].user>>, c \in issued
          PROVE  c[1] \in redrawn
      BY <1>3, <1>6, <2>5
    <2>6. ASSUME NEW v \in stores, NEW w \in stores,
                 c = <<job[v].token, job[v].user>>, d = <<job[w].token, job[w].user>>
          PROVE  c[1] \in redrawn
      BY <1>4, <1>6, <2>6
    <2> QED
      BY <2>1, <2>2, <2>3, <2>4, <2>5, <2>6
  <1> QED
    BY <1>6 DEF TokensSpeakForOneUser

\* A token speaks for one user, in the table and in every cookie and request,
\* unless the generator returned it to two logins.
THEOREM OneUserPerToken == Spec => []TokensSpeakForOneUser
  BY OneUser, SessionsInvariant, PTL

\* No session outlives its user, and no two rows hold one token.
THEOREM NoSessionWithoutUser == Spec => []SessionsAreOwned
  <1>1. IInv => SessionsAreOwned
    BY DEF IInv, Tables
  <1> QED
    BY <1>1, SessionsInvariant, PTL

\* Registrations, edits and logins make nobody an admin.
THEOREM OnlyAppointedAdmins == Spec => []AdminsAreAppointed
  <1>1. IInv => AdminsAreAppointed
    BY DEF IInv, Jobs, JobOK, AdminsAreAppointed, Appointed, At
  <1> QED
    BY <1>1, SessionsInvariant, PTL

\* When logout answers, its cookie opens no session any more.
THEOREM LoggedOut == Spec => LogoutEndsItsSession
  <1>1. ASSUME IInv, NEW w \in Workers, DeleteSessions(w), NEW s \in sessions',
               s.token = job[w].token
        PROVE  s.token \in redrawn
    <2>1. /\ s \in sessions
          /\ IF At(w, "deleteAll") THEN s.user # job[w].user
                                   ELSE s.token # job[w].token
      BY <1>1 DEF DeleteSessions, Remove
    <2>2. job[w].step = "deleteAll" /\ s.user # job[w].user
      BY <1>1, <2>1 DEF At
    <2>3. <<s.token, s.user>> \in issued
      BY <1>1, <2>1 DEF IInv, Tables
    <2>4. <<job[w].token, job[w].user>> \in issued
      BY <1>1, <2>2 DEF IInv, Jobs, JobOK, Resolving
    <2>5. \A i, k \in issued : i[1] = k[1] /\ i[2] # k[2] => i[1] \in redrawn
      BY <1>1 DEF IInv, Tables
    <2> QED
      BY <1>1, <2>2, <2>3, <2>4, <2>5
  <1>2. IInv /\ [Next]_vars =>
          [\A w \in Workers : DeleteSessions(w) =>
             \A s \in sessions' : s.token = job[w].token => s.token \in redrawn]_vars
    BY <1>1
  <1> QED
    BY <1>2, SessionsInvariant, PTL DEF Spec, LogoutEndsItsSession
=============================================================================

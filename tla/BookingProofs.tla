---------------------------- MODULE BookingProofs ----------------------------
(***************************************************************************)
(* What holds of the bookings table for every set of threads, resources,   *)
(* requests and edits, and every zone conversion Instant.                  *)
(***************************************************************************)
EXTENDS Availability, FiniteSetTheorems, TLAPS

\* Ids in use, and ids any query has seen, were handed out by the sequence.
IdsFromSequence ==
    /\ \A b \in bookings : b.id <= lastId /\ \A i \in b.seen : i <= lastId
    /\ \A w \in Workers : job[w].step = "free" =>
           \A i \in job[w].seen : i <= lastId

\* A thread that found its slot free holds a range tstzrange accepts, and of
\* the rows its query saw, those that still hold their slot do not overlap it.
FreeMeansClear ==
    \A w \in Workers : job[w].step = "free" =>
        /\ Instant(job[w].req.s) <= Instant(job[w].req.e)
        /\ \A a \in bookings :
              /\ a.id \in job[w].seen
              /\ a.res = job[w].req.res
              /\ a.status = "confirmed"
              /\ ~ a.moved
              => ~ Overlap(a, RangeOf(job[w].req))

IInv == /\ TypeOK
        /\ IdsFromSequence
        /\ FreeMeansClear
        /\ OnlyEditsPoison
        /\ OverlapOnlyFromRaces

-----------------------------------------------------------------------------
\* The job of a thread, by its step.
LEMMA JobShape ==
    ASSUME TypeOK, NEW w \in Workers
    PROVE  /\ job[w].step = "idle" => job[w] = Idle
           /\ job[w].step = "accepted" => job[w].req \in Requests
           /\ job[w].step = "free" => /\ job[w].req \in Requests
                                      /\ job[w].seen \in SUBSET Nat
  BY DEF TypeOK, Job, Idle

\* The zone conversion of a request's times, and the request's other fields.
LEMMA RequestShape ==
    ASSUME NEW r \in Requests
    PROVE  /\ Instant(r.s) \in Int
           /\ Instant(r.e) \in Int
           /\ r.res \in Resources
           /\ r.status \in Status
  BY BookingAssumption

\* A PUT keeps a row a row, with its id, its resource and what it saw.  If the
\* result holds its slot by way of POST, so did the row, with the same range.
LEMMA EditedRow ==
    ASSUME NEW b \in Row, NEW edit \in Edits
    PROVE  /\ Edited(b, edit) \in Row
           /\ Edited(b, edit).id = b.id
           /\ Edited(b, edit).res = b.res
           /\ Edited(b, edit).seen = b.seen
           /\ ~ Edited(b, edit).moved =>
                 /\ ~ b.moved
                 /\ Edited(b, edit).s = b.s
                 /\ Edited(b, edit).e = b.e
                 /\ Edited(b, edit).status = "confirmed" =>
                       b.status = "confirmed"
  <1> DEFINE s == IF edit.s = Keep THEN b.s ELSE Instant(edit.s)
             e == IF edit.e = Keep THEN b.e ELSE Instant(edit.e)
             status == IF edit.status = Keep THEN b.status ELSE edit.status
             moved == \/ b.moved
                      \/ s # b.s \/ e # b.e
                      \/ b.status # "confirmed" /\ status = "confirmed"
  <1>1. Edited(b, edit) = [b EXCEPT !.s = s, !.e = e, !.status = status,
                                    !.moved = moved]
    BY DEF Edited
  <1>2. s \in Int /\ e \in Int /\ status \in Status
    BY BookingAssumption DEF Row
  <1>3. moved \in BOOLEAN
    BY DEF Row
  <1> HIDE DEF s, e, status
  <1>4. QED
    BY <1>1, <1>2, <1>3 DEF Row

-----------------------------------------------------------------------------
LEMMA InitIInv == Init => IInv
  BY DEF Init, IInv, TypeOK, IdsFromSequence, FreeMeansClear, OnlyEditsPoison,
         OverlapOnlyFromRaces, Job, Idle

\* Deleting rows, for DELETE and for the cascade from resources.
LEMMA FewerRows ==
    ASSUME IInv, bookings' \subseteq bookings,
           resources' \subseteq resources, UNCHANGED <<lastId, job>>
    PROVE  IInv'
  BY DEF IInv, TypeOK, IdsFromSequence, FreeMeansClear, OnlyEditsPoison,
         OverlapOnlyFromRaces

\* A thread that drops its request, or takes up a new one.
LEMMA NotFreeJob ==
    ASSUME IInv, NEW w \in Workers, NEW j \in Job, j.step # "free",
           job' = [job EXCEPT ![w] = j],
           UNCHANGED <<resources, bookings, lastId>>
    PROVE  IInv'
  <1>1. TypeOK'
    BY DEF IInv, TypeOK
  <1>2. IdsFromSequence'
    BY DEF IInv, TypeOK, IdsFromSequence
  <1>3. FreeMeansClear'
    BY DEF IInv, TypeOK, FreeMeansClear
  <1>4. OnlyEditsPoison' /\ OverlapOnlyFromRaces'
    BY DEF IInv, OnlyEditsPoison, OverlapOnlyFromRaces
  <1>5. QED
    BY <1>1, <1>2, <1>3, <1>4 DEF IInv

LEMMA CheckFreeStep ==
    ASSUME IInv, NEW w \in Workers, CheckFree(w)
    PROVE  IInv'
  <1> DEFINE r == job[w].req
             saw == {b.id : b \in bookings}
             j == [step |-> "free", req |-> r, seen |-> saw]
  <1>1. r \in Requests
    BY JobShape DEF CheckFree, IInv
  <1>2. saw \in SUBSET Nat
    BY DEF IInv, TypeOK, Row
  <1>3. /\ job' = [job EXCEPT ![w] = j]
        /\ UNCHANGED <<resources, bookings, lastId>>
        /\ ~ IsFreeRaises(r)
        /\ IsFree(r)
    BY DEF CheckFree
  <1>4. j \in Job
    BY <1>1, <1>2 DEF Job
  <1>5. TypeOK'
    BY <1>3, <1>4 DEF IInv, TypeOK
  <1>6. IdsFromSequence'
    <2>1. \A i \in saw : i <= lastId
      BY DEF IInv, IdsFromSequence
    <2>2. QED
      BY <1>3, <2>1 DEF IInv, TypeOK, IdsFromSequence
  <1>7. FreeMeansClear'
    <2>1. Instant(r.s) <= Instant(r.e)
      BY <1>1, <1>3, RequestShape DEF IsFreeRaises
    <2>2. \A a \in bookings : a.res = r.res /\ a.status = "confirmed" =>
                                ~ Overlap(a, RangeOf(r))
      BY <1>3 DEF IsFree, Confirmed
    <2>3. QED
      BY <1>3, <2>1, <2>2 DEF IInv, TypeOK, FreeMeansClear
  <1>8. OnlyEditsPoison' /\ OverlapOnlyFromRaces'
    BY <1>3 DEF IInv, OnlyEditsPoison, OverlapOnlyFromRaces
  <1>9. QED
    BY <1>5, <1>6, <1>7, <1>8 DEF IInv

LEMMA AddBookingStep ==
    ASSUME IInv, NEW w \in Workers, AddBooking(w)
    PROVE  IInv'
  <1> DEFINE r == job[w].req
             new == [id |-> lastId + 1, res |-> r.res,
                     s |-> Instant(r.s), e |-> Instant(r.e),
                     status |-> r.status, seen |-> job[w].seen, moved |-> FALSE]
  <1>1. /\ job[w].step = "free"
        /\ r \in Requests
        /\ job[w].seen \in SUBSET Nat
        /\ lastId \in Nat
    BY JobShape DEF AddBooking, IInv, TypeOK
  <1>2. /\ bookings' \in SUBSET (bookings \cup {new})
        /\ lastId' = lastId + 1
        /\ job' = [job EXCEPT ![w] = Idle]
        /\ UNCHANGED resources
    BY DEF AddBooking
  <1>3. new \in Row
    BY <1>1, RequestShape DEF Row
  <1>4. TypeOK'
    <2>1. Idle \in Job
      BY DEF Idle, Job
    <2>2. bookings' \subseteq Row
      BY <1>2, <1>3 DEF IInv, TypeOK
    <2>3. job' \in [Workers -> Job]
      BY <1>2, <2>1 DEF IInv, TypeOK
    <2>4. QED
      BY <1>1, <1>2, <2>2, <2>3 DEF IInv, TypeOK
  <1>5. \A b \in bookings : b.id \in Nat /\ b.seen \in SUBSET Nat
    BY DEF IInv, TypeOK, Row
  <1>6. IdsFromSequence'
    <2>1. \A b \in bookings' : b.id <= lastId' /\ \A i \in b.seen : i <= lastId'
      BY <1>1, <1>2, <1>5 DEF IInv, IdsFromSequence
    <2>2. \A v \in Workers : job'[v].step = "free" =>
              \A i \in job'[v].seen : i <= lastId'
      <3> SUFFICES ASSUME NEW v \in Workers, job'[v].step = "free",
                          NEW i \in job'[v].seen
                   PROVE  i <= lastId'
        OBVIOUS
      <3>1. v # w /\ job'[v] = job[v]
        BY <1>2 DEF IInv, TypeOK, Idle
      <3>2. i \in Nat /\ i <= lastId
        BY <3>1, JobShape DEF IInv, IdsFromSequence
      <3>3. QED
        BY <1>1, <1>2, <3>2
    <2>3. QED
      BY <2>1, <2>2 DEF IdsFromSequence
  <1>7. FreeMeansClear'
    <2> SUFFICES ASSUME NEW v \in Workers, job'[v].step = "free"
                 PROVE  /\ Instant(job'[v].req.s) <= Instant(job'[v].req.e)
                        /\ \A a \in bookings' :
                              /\ a.id \in job'[v].seen
                              /\ a.res = job'[v].req.res
                              /\ a.status = "confirmed"
                              /\ ~ a.moved
                              => ~ Overlap(a, RangeOf(job'[v].req))
      BY DEF FreeMeansClear
    <2>1. v # w /\ job'[v] = job[v]
      BY <1>2 DEF IInv, TypeOK, Idle
    <2>2. new.id \notin job[v].seen
      BY <1>1, <2>1, JobShape DEF IInv, IdsFromSequence
    <2>3. QED
      BY <1>2, <2>1, <2>2 DEF IInv, FreeMeansClear
  <1>8. OnlyEditsPoison'
    <2>1. new.s <= new.e
      BY <1>1 DEF IInv, FreeMeansClear
    <2>2. new.s \in Int /\ new.e \in Int
      BY <1>1, RequestShape
    <2>3. ~ new.s > new.e
      BY <2>1, <2>2
    <2>4. QED
      BY <1>2, <2>3 DEF IInv, OnlyEditsPoison
  <1>9. OverlapOnlyFromRaces'
    <2>1. ASSUME NEW a \in bookings,
                 a.res = new.res, a.status = "confirmed", ~ a.moved,
                 Overlap(a, new) \/ Overlap(new, a)
          PROVE  a.id \notin new.seen /\ new.id \notin a.seen
      <3>1. new.id \notin a.seen
        BY <1>1, <1>5 DEF IInv, IdsFromSequence
      <3>2. Overlap(a, RangeOf(r))
        BY <2>1 DEF Overlap, RangeOf
      <3>3. a.id \notin job[w].seen
        BY <1>1, <2>1, <3>2 DEF IInv, FreeMeansClear
      <3>4. QED
        BY <3>1, <3>3
    <2>2. \A a, b \in bookings' :
              \/ a \in bookings /\ b \in bookings
              \/ a \in bookings /\ b = new
              \/ a = new /\ b \in bookings
              \/ a = new /\ b = new
      BY <1>2
    <2> HIDE DEF new
    <2>3. QED
      BY <2>1, <2>2 DEF IInv, OverlapOnlyFromRaces
  <1>10. QED
    BY <1>4, <1>6, <1>7, <1>8, <1>9 DEF IInv

LEMMA UpdateBookingStep ==
    ASSUME IInv, NEW id \in Nat, NEW edit \in Edits, UpdateBooking(id, edit)
    PROVE  IInv'
  <1> DEFINE New(b) == IF b.id = id THEN Edited(b, edit) ELSE b
  <1>1. /\ bookings' = {New(b) : b \in bookings}
        /\ UNCHANGED <<resources, lastId, job>>
    BY DEF UpdateBooking
  <1>2. \A b \in bookings :
            /\ New(b) \in Row
            /\ New(b).id = b.id
            /\ New(b).res = b.res
            /\ New(b).seen = b.seen
            /\ ~ New(b).moved =>
                  /\ ~ b.moved
                  /\ New(b).s = b.s
                  /\ New(b).e = b.e
                  /\ New(b).status = "confirmed" => b.status = "confirmed"
    BY EditedRow DEF IInv, TypeOK
  <1> HIDE DEF New
  <1>3. TypeOK'
    BY <1>1, <1>2 DEF IInv, TypeOK
  <1>4. IdsFromSequence'
    BY <1>1, <1>2 DEF IInv, IdsFromSequence
  <1>5. FreeMeansClear'
    BY <1>1, <1>2 DEF IInv, FreeMeansClear, Overlap
  <1>6. OnlyEditsPoison'
    BY <1>1, <1>2 DEF IInv, OnlyEditsPoison
  <1>7. OverlapOnlyFromRaces'
    BY <1>1, <1>2 DEF IInv, OverlapOnlyFromRaces, Overlap
  <1>8. QED
    BY <1>3, <1>4, <1>5, <1>6, <1>7 DEF IInv

LEMMA NextIInv == IInv /\ [Next]_vars => IInv'
  <1> SUFFICES ASSUME IInv, [Next]_vars
               PROVE  IInv'
    OBVIOUS
  <1>1. CASE \E w \in Workers : Accept(w)
    <2>1. PICK w \in Workers : Accept(w)
      BY <1>1
    <2>2. PICK r \in Requests : job' = [job EXCEPT ![w] = [step |-> "accepted", req |-> r]]
      BY <2>1 DEF Accept
    <2>3. [step |-> "accepted", req |-> r] \in Job
      BY DEF Job
    <2>4. QED
      BY <2>1, <2>2, <2>3, NotFreeJob DEF Accept
  <1>2. CASE \E w \in Workers : CheckFree(w)
    BY <1>2, CheckFreeStep
  <1>3. CASE \E w \in Workers : Refuse(w) \/ StatementRaises(w)
    <2>1. Idle \in Job /\ Idle.step # "free"
      BY DEF Idle, Job
    <2>2. QED
      BY <1>3, <2>1, NotFreeJob DEF Refuse, StatementRaises
  <1>4. CASE \E w \in Workers : AddBooking(w)
    BY <1>4, AddBookingStep
  <1>5. CASE \E id \in 1..MaxBookings, edit \in Edits : UpdateBooking(id, edit)
    BY <1>5, UpdateBookingStep, BookingAssumption
  <1>6. CASE \E id \in 1..MaxBookings : DeleteBooking(id)
    BY <1>6, FewerRows DEF DeleteBooking
  <1>7. CASE \E res \in Resources : DeleteResource(res)
    BY <1>7, FewerRows DEF DeleteResource
  <1>8. CASE UNCHANGED vars
    BY <1>8, FewerRows DEF vars
  <1>9. QED
    BY <1>1, <1>2, <1>3, <1>4, <1>5, <1>6, <1>7, <1>8 DEF Next, Post

\* Types, and with them everything below, hold in every reachable state.
THEOREM BookingInvariant == Spec => []IInv
  <1>1. Spec => Init /\ [][Next]_vars
    BY DEF Spec
  <1>2. QED
    BY <1>1, InitIInv, NextIInv, PTL

\* The tables and the handlers keep their types.
THEOREM TypeCorrect == Spec => []TypeOK
  <1>1. IInv => TypeOK
    BY DEF IInv
  <1>2. QED
    BY <1>1, BookingInvariant, PTL

\* Only a PUT, or two requests each checked before the other inserted, can make
\* confirmed bookings of a resource overlap, however many threads there are.
THEOREM RacesOnly == Spec => []OverlapOnlyFromRaces
  <1>1. IInv => OverlapOnlyFromRaces
    BY DEF IInv
  <1>2. QED
    BY <1>1, BookingInvariant, PTL

\* Without PUT no row makes isFree raise, whatever the zone's transitions.
THEOREM PoisonOnlyFromEdits == Spec => []OnlyEditsPoison
  <1>1. IInv => OnlyEditsPoison
    BY DEF IInv
  <1>2. QED
    BY <1>1, BookingInvariant, PTL

-----------------------------------------------------------------------------
(* One thread running handlers.                                            *)

\* When requests run one after the other, each sees all rows made before it.
SeesAllBefore ==
    /\ \A w \in Workers : job[w].step = "free" =>
           \A b \in bookings : b.id \in job[w].seen
    /\ \A a, b \in bookings : a.id < b.id => a.id \in b.seen

LEMMA SeesAllBeforeStep ==
    ASSUME NEW w0, Workers = {w0}, IInv, SeesAllBefore, [Next]_vars
    PROVE  SeesAllBefore'
  <1> USE DEF SeesAllBefore
  <1>0. /\ bookings \subseteq Row
        /\ lastId \in Nat
        /\ job \in [Workers -> Job]
        /\ \A b \in bookings : b.id <= lastId
    BY DEF IInv, TypeOK, IdsFromSequence
  <1>1. CASE \E w \in Workers : Accept(w)
    BY <1>0, <1>1 DEF Accept
  <1>2. CASE \E w \in Workers : CheckFree(w)
    BY <1>0, <1>2 DEF CheckFree
  <1>3. CASE \E w \in Workers : Refuse(w) \/ StatementRaises(w)
    BY <1>0, <1>3 DEF Refuse, StatementRaises, Idle
  <1>4. CASE \E w \in Workers : AddBooking(w)
    <2>1. AddBooking(w0)
      BY <1>4
    <2> DEFINE r == job[w0].req
               new == [id |-> lastId + 1, res |-> r.res,
                       s |-> Instant(r.s), e |-> Instant(r.e),
                       status |-> r.status, seen |-> job[w0].seen,
                       moved |-> FALSE]
    <2>2. /\ bookings' \in SUBSET (bookings \cup {new})
          /\ job[w0].step = "free"
          /\ job'[w0].step = "idle"
      BY <1>0, <2>1 DEF AddBooking, Idle
    <2>3. \A b \in bookings : b.id \in new.seen /\ b.id < new.id
      BY <1>0, <2>2 DEF Row
    <2>4. new.id \in Nat
      BY <1>0
    <2> HIDE DEF new
    <2>5. \A a, b \in bookings' : a.id < b.id => a.id \in b.seen
      <3> SUFFICES ASSUME NEW a \in bookings', NEW b \in bookings',
                          a.id < b.id
                   PROVE  a.id \in b.seen
        OBVIOUS
      <3>1. a.id \in Nat /\ b.id \in Nat
        BY <1>0, <2>2, <2>4 DEF Row
      <3>2. CASE b = new
        BY <2>2, <2>3, <3>1, <3>2
      <3>3. CASE b \in bookings /\ a = new
        BY <2>3, <3>1, <3>3
      <3>4. CASE b \in bookings /\ a \in bookings
        BY <3>4
      <3>5. QED
        BY <2>2, <3>2, <3>3, <3>4
    <2>6. QED
      BY <2>2, <2>5
  <1>5. CASE \E id \in 1..MaxBookings, edit \in Edits : UpdateBooking(id, edit)
    <2>1. PICK id \in 1..MaxBookings, edit \in Edits : UpdateBooking(id, edit)
      BY <1>5
    <2> DEFINE New(b) == IF b.id = id THEN Edited(b, edit) ELSE b
    <2>2. bookings' = {New(b) : b \in bookings} /\ UNCHANGED job
      BY <2>1 DEF UpdateBooking
    <2>3. \A b \in bookings : New(b).id = b.id /\ New(b).seen = b.seen
      BY <1>0, EditedRow
    <2> HIDE DEF New
    <2>4. QED
      BY <2>2, <2>3
  <1>6. CASE \E id \in 1..MaxBookings : DeleteBooking(id)
    BY <1>6 DEF DeleteBooking
  <1>7. CASE \E res \in Resources : DeleteResource(res)
    BY <1>7 DEF DeleteResource
  <1>8. CASE UNCHANGED vars
    BY <1>8 DEF vars
  <1>9. QED
    BY <1>1, <1>2, <1>3, <1>4, <1>5, <1>6, <1>7, <1>8 DEF Next, Post

\* On a server with one thread no two bookings made through POST overlap: each
\* request sees every row made before it, and only races make rows overlap.
THEOREM OneThreadNoDoubleBooking ==
    ASSUME NEW w0, Workers = {w0}
    PROVE  Spec => []NoDoubleBooking
  <1>1. Init => SeesAllBefore
    BY DEF Init, SeesAllBefore, Idle
  <1>2. IInv /\ SeesAllBefore /\ [Next]_vars => SeesAllBefore'
    BY SeesAllBeforeStep
  <1>3. IInv /\ SeesAllBefore => NoDoubleBooking
    <2> SUFFICES ASSUME IInv, SeesAllBefore,
                        NEW a \in bookings, NEW b \in bookings,
                        a.id # b.id, a.res = b.res,
                        a.status = "confirmed", b.status = "confirmed",
                        ~ a.moved, ~ b.moved
                 PROVE  ~ Overlap(a, b)
      BY DEF NoDoubleBooking
    <2>1. a.id \in Nat /\ b.id \in Nat
      BY DEF IInv, TypeOK, Row
    <2>2. a.id \in b.seen \/ b.id \in a.seen
      BY <2>1 DEF SeesAllBefore
    <2>3. QED
      BY <2>2 DEF IInv, OverlapOnlyFromRaces
  <1>4. Spec => Init /\ [][Next]_vars
    BY DEF Spec
  <1>5. QED
    BY <1>1, <1>2, <1>3, <1>4, BookingInvariant, PTL

-----------------------------------------------------------------------------
(* Any number of threads running handlers.                                 *)

\* f gives each row the thread that made it: a thread's later queries see its
\* earlier rows, so rows that do not see each other are of different threads,
\* and a thread that missed a row in its query did not make it.
MadeBy(f) ==
    /\ \A b \in bookings : f[b.id] \in Workers
    /\ \A a, b \in bookings :
          a.id # b.id /\ a.id \notin b.seen /\ b.id \notin a.seen =>
              f[a.id] # f[b.id]
    /\ \A w \in Workers : job[w].step = "free" =>
          \A b \in bookings : b.id \notin job[w].seen => f[b.id] # w

ThreadsMadeRows ==
    /\ \E f : MadeBy(f)
    /\ \A a, b \in bookings : a.id = b.id => a = b

LEMMA AddBookingMakes ==
    ASSUME IInv, ThreadsMadeRows, NEW w \in Workers, AddBooking(w)
    PROVE  ThreadsMadeRows'
  <1> DEFINE r == job[w].req
             new == [id |-> lastId + 1, res |-> r.res,
                     s |-> Instant(r.s), e |-> Instant(r.e),
                     status |-> r.status, seen |-> job[w].seen, moved |-> FALSE]
  <1>1. /\ job[w].step = "free"
        /\ bookings' \in SUBSET (bookings \cup {new})
        /\ job' = [job EXCEPT ![w] = Idle]
        /\ new.id = lastId + 1
        /\ new.seen = job[w].seen
    BY DEF AddBooking
  <1>2. /\ job \in [Workers -> Job]
        /\ lastId \in Nat
        /\ \A b \in bookings : b.id \in Nat /\ b.id # lastId + 1
    BY DEF IInv, TypeOK, Row, IdsFromSequence
  <1>3. \A v \in Workers :
            job'[v].step = "free" => v # w /\ job'[v] = job[v]
    BY <1>1, <1>2 DEF Idle
  <1> HIDE DEF new
  <1>4. PICK f : MadeBy(f)
    BY DEF ThreadsMadeRows
  <1>5. PICK g : /\ g[new.id] = w
                 /\ \A b \in bookings : g[b.id] = f[b.id]
    <2> DEFINE h == [i \in Nat |-> IF i = lastId + 1 THEN w ELSE f[i]]
    <2>1. /\ h[new.id] = w
          /\ \A b \in bookings : h[b.id] = f[b.id]
      BY <1>1, <1>2
    <2> HIDE DEF h
    <2>2. QED
      BY <2>1
  <1>6. \A b \in bookings' : g[b.id] \in Workers
    BY <1>1, <1>4, <1>5 DEF MadeBy
  <1>7. ASSUME NEW a \in bookings', NEW b \in bookings',
               a.id # b.id, a.id \notin b.seen, b.id \notin a.seen
        PROVE  g[a.id] # g[b.id]
    <2>1. CASE a \in bookings /\ b \in bookings
      BY <1>4, <1>5, <1>7, <2>1 DEF MadeBy
    <2>2. CASE a \in bookings /\ b = new
      BY <1>1, <1>4, <1>5, <1>7, <2>2 DEF MadeBy
    <2>3. CASE a = new /\ b \in bookings
      BY <1>1, <1>4, <1>5, <1>7, <2>3 DEF MadeBy
    <2>4. QED
      BY <1>1, <1>7, <2>1, <2>2, <2>3
  <1>8. ASSUME NEW v \in Workers, job'[v].step = "free",
               NEW b \in bookings', b.id \notin job'[v].seen
        PROVE  g[b.id] # v
    BY <1>1, <1>3, <1>4, <1>5, <1>8 DEF MadeBy
  <1>9. MadeBy(g)'
    BY <1>6, <1>7, <1>8 DEF MadeBy
  <1>10. \A a, b \in bookings' : a.id = b.id => a = b
    BY <1>1, <1>2 DEF ThreadsMadeRows
  <1>11. QED
    BY <1>9, <1>10 DEF ThreadsMadeRows

LEMMA ThreadsMadeRowsStep ==
    ASSUME IInv, ThreadsMadeRows, [Next]_vars
    PROVE  ThreadsMadeRows'
  <1>0. job \in [Workers -> Job] /\ bookings \subseteq Row
    BY DEF IInv, TypeOK
  <1>1. PICK f : MadeBy(f)
    BY DEF ThreadsMadeRows
  <1>2. CASE \E w \in Workers : AddBooking(w)
    BY <1>2, AddBookingMakes
  <1>3. CASE \E w \in Workers : CheckFree(w)
    <2>1. PICK w \in Workers : CheckFree(w)
      BY <1>3
    <2>2. /\ UNCHANGED bookings
          /\ \A b \in bookings : b.id \in job'[w].seen
          /\ \A v \in Workers : v # w => job'[v] = job[v]
      BY <1>0, <2>1 DEF CheckFree
    <2>3. MadeBy(f)'
      BY <1>1, <2>2 DEF MadeBy
    <2>4. QED
      BY <2>2, <2>3 DEF ThreadsMadeRows
  <1>4. CASE /\ bookings' \subseteq bookings
             /\ \A v \in Workers : job'[v].step = "free" => job'[v] = job[v]
    <2>1. MadeBy(f)'
      BY <1>1, <1>4 DEF MadeBy
    <2>2. QED
      BY <1>4, <2>1 DEF ThreadsMadeRows
  <1>5. CASE \E w \in Workers : Accept(w) \/ Refuse(w) \/ StatementRaises(w)
    BY <1>0, <1>4, <1>5 DEF Accept, Refuse, StatementRaises, Idle
  <1>6. CASE \/ \E id \in 1..MaxBookings : DeleteBooking(id)
             \/ \E res \in Resources : DeleteResource(res)
             \/ UNCHANGED vars
    BY <1>4, <1>6 DEF DeleteBooking, DeleteResource, vars
  <1>7. CASE \E id \in 1..MaxBookings, edit \in Edits : UpdateBooking(id, edit)
    <2>1. PICK id \in 1..MaxBookings, edit \in Edits : UpdateBooking(id, edit)
      BY <1>7
    <2> DEFINE New(b) == IF b.id = id THEN Edited(b, edit) ELSE b
    <2>2. bookings' = {New(b) : b \in bookings} /\ UNCHANGED job
      BY <2>1 DEF UpdateBooking
    <2>3. \A b \in bookings : New(b).id = b.id /\ New(b).seen = b.seen
      BY <1>0, EditedRow
    <2> HIDE DEF New
    <2>4. MadeBy(f)'
      BY <1>1, <2>2, <2>3 DEF MadeBy
    <2>5. \A a, b \in bookings' : a.id = b.id => a = b
      BY <2>2, <2>3 DEF ThreadsMadeRows
    <2>6. QED
      BY <2>4, <2>5 DEF ThreadsMadeRows
  <1>8. QED
    BY <1>2, <1>3, <1>5, <1>6, <1>7 DEF Next, Post

\* A row that holds its slot by way of POST, as the calendar sees it.
LEMMA HeldRow ==
    ASSUME NEW h
    PROVE  /\ h \in Held <=> \E b \in bookings :
                  /\ b.status = "confirmed" /\ ~ b.moved
                  /\ h = [id |-> b.id, res |-> b.res, s |-> b.s, e |-> b.e]
           /\ h \in Held' <=> \E b \in bookings' :
                  /\ b.status = "confirmed" /\ ~ b.moved
                  /\ h = [id |-> b.id, res |-> b.res, s |-> b.s, e |-> b.e]
  BY DEF Held

\* The reservations that cover a moment of a thread's slot were made by other
\* threads, no two by the same one: there are fewer of them than threads.
LEMMA FewCoverFreeSlot ==
    ASSUME IsFiniteSet(Workers), IInv, ThreadsMadeRows,
           NEW w \in Workers, job[w].step = "free",
           NEW t \in Int,
           Instant(job[w].req.s) <= t, t < Instant(job[w].req.e)
    PROVE  Cardinality({y \in Held : y.res = job[w].req.res
                                     /\ Calendar!Covers(y, t)})
             < Cardinality(Workers)
  <1> DEFINE r == job[w].req
             Y == {y \in Held : y.res = r.res /\ Calendar!Covers(y, t)}
             Of(y, b) == /\ b.status = "confirmed" /\ ~ b.moved
                         /\ y = [id |-> b.id, res |-> b.res,
                                 s |-> b.s, e |-> b.e]
  <1>1. r \in Requests /\ Instant(r.s) \in Int /\ Instant(r.e) \in Int
    BY JobShape, RequestShape DEF IInv
  <1>2. PICK f : MadeBy(f)
    BY DEF ThreadsMadeRows
  <1>3. ASSUME NEW y \in Y, NEW b \in bookings, Of(y, b)
        PROVE  /\ b.id = y.id /\ b.res = r.res
               /\ b.s \in Int /\ b.e \in Int
               /\ b.s <= t /\ t < b.e
               /\ f[b.id] \in Workers \ {w}
    <2>1. /\ b.id = y.id /\ b.res = r.res
          /\ b.s \in Int /\ b.e \in Int
          /\ b.s <= t /\ t < b.e
      BY <1>3 DEF Calendar!Covers, IInv, TypeOK, Row
    <2>2. Overlap(b, RangeOf(r))
      BY <1>1, <2>1 DEF Overlap, RangeOf
    <2>3. b.id \notin job[w].seen
      BY <1>3, <2>1, <2>2 DEF IInv, FreeMeansClear
    <2>4. QED
      BY <1>2, <2>1, <2>3 DEF MadeBy
  <1>4. \A y \in Y : \E b \in bookings : Of(y, b)
    BY HeldRow
  <1> DEFINE g == [y \in Y |-> f[y.id]]
  <1>5. g \in [Y -> Workers \ {w}]
    <2>1. ASSUME NEW y \in Y PROVE f[y.id] \in Workers \ {w}
      <3>1. PICK b \in bookings : Of(y, b)
        BY <1>4
      <3> HIDE DEF Y, Of
      <3>2. QED
        BY <1>3, <3>1
    <2> HIDE DEF Y
    <2>2. QED
      BY <2>1
  <1>6. ASSUME NEW y \in Y, NEW z \in Y, g[y] = g[z]
        PROVE  y = z
    <2>1. PICK a \in bookings : Of(y, a)
      BY <1>4
    <2>2. PICK b \in bookings : Of(z, b)
      BY <1>4
    <2>3. g[y] = f[y.id] /\ g[z] = f[z.id]
      OBVIOUS
    <2>4. /\ a.status = "confirmed" /\ b.status = "confirmed"
          /\ ~ a.moved /\ ~ b.moved
      BY <2>1, <2>2
    <2>5. a = b => y = z
      BY <2>1, <2>2
    <2> HIDE DEF Y, Of, g
    <2>6. /\ a.id = y.id /\ a.res = r.res
          /\ a.s \in Int /\ a.e \in Int /\ a.s <= t /\ t < a.e
      BY <1>3, <2>1
    <2>7. /\ b.id = z.id /\ b.res = r.res
          /\ b.s \in Int /\ b.e \in Int /\ b.s <= t /\ t < b.e
      BY <1>3, <2>2
    <2>8. Overlap(a, b)
      BY <2>6, <2>7 DEF Overlap
    <2>9. a.id # b.id => a.id \notin b.seen /\ b.id \notin a.seen
      BY <2>4, <2>6, <2>7, <2>8 DEF IInv, OverlapOnlyFromRaces
    <2>10. a.id = b.id
      BY <1>2, <1>6, <2>3, <2>6, <2>7, <2>9 DEF MadeBy
    <2>11. QED
      BY <2>5, <2>10 DEF ThreadsMadeRows
  <1>7. g \in Injection(Y, Workers \ {w})
    <2> HIDE DEF Y, g
    <2>1. QED
      BY <1>5, <1>6 DEF Injection, IsInjective
  <1>8. /\ IsFiniteSet(Workers \ {w})
        /\ Cardinality(Workers \ {w}) = Cardinality(Workers) - 1
        /\ Cardinality(Workers) \in Nat
    BY FS_RemoveElement, FS_CardinalityType
  <1> HIDE DEF g, Y
  <1>9. /\ IsFiniteSet(Y)
        /\ Cardinality(Y) <= Cardinality(Workers \ {w})
    BY <1>7, <1>8, FS_Injection
  <1>10. Cardinality(Y) \in Nat
    BY <1>9, FS_CardinalityType
  <1>11. Cardinality(Y) < Cardinality(Workers)
    BY <1>8, <1>9, <1>10
  <1>12. QED
    BY <1>11 DEF Y

LEMMA AddBookingReserves ==
    ASSUME IsFiniteSet(Workers), IInv, ThreadsMadeRows,
           NEW w \in Workers, AddBooking(w)
    PROVE  [Calendar!Next]_Held
  <1> DEFINE r == job[w].req
             new == [id |-> lastId + 1, res |-> r.res,
                     s |-> Instant(r.s), e |-> Instant(r.e),
                     status |-> r.status, seen |-> job[w].seen, moved |-> FALSE]
             x == [id |-> lastId + 1, res |-> r.res,
                   s |-> Instant(r.s), e |-> Instant(r.e)]
  <1>1. /\ job[w].step = "free"
        /\ r \in Requests
        /\ lastId \in Nat
        /\ lastId + 1 \in 1..MaxBookings
    BY JobShape, BookingAssumption DEF AddBooking, IInv, TypeOK
  <1>2. x.s \in Int /\ x.e \in Int /\ x.res \in Resources
    BY <1>1, RequestShape
  <1>3. CASE bookings' = bookings
    BY <1>3 DEF Held
  <1>4. CASE bookings' = bookings \cup {new} /\ r.status # "confirmed"
    <2>1. \A b \in bookings' : b.status = "confirmed" <=>
                               b \in bookings /\ b.status = "confirmed"
      BY <1>4
    <2>2. {b \in bookings' : b.status = "confirmed" /\ ~ b.moved}
            = {b \in bookings : b.status = "confirmed" /\ ~ b.moved}
      BY <1>4, <2>1
    <2>3. QED
      BY <2>2 DEF Held
  <1>5. CASE bookings' = bookings \cup {new} /\ r.status = "confirmed"
    <2>1. Held' = Held \cup {x}
      <3>1. new.status = "confirmed" /\ ~ new.moved
            /\ x = [id |-> new.id, res |-> new.res, s |-> new.s, e |-> new.e]
        BY <1>5
      <3> HIDE DEF new, x
      <3>2. ASSUME NEW h PROVE h \in Held' <=> h \in Held \cup {x}
        BY <1>5, <3>1, HeldRow
      <3>3. QED
        BY <3>2
    <2>2. \A y \in Held : y.id # x.id
      <3>1. \A b \in bookings : b.id \in Nat /\ b.id <= lastId
        BY DEF IInv, TypeOK, Row, IdsFromSequence
      <3>2. \A b \in bookings : b.id # lastId + 1
        BY <1>1, <3>1
      <3>3. QED
        BY <3>2, HeldRow
    <2>3. \A t \in {y.s : y \in Held \cup {x}} :
              Calendar!Covers(x, t) =>
                  Cardinality({y \in Held : y.res = x.res /\ Calendar!Covers(y, t)})
                      < Cardinality(Workers)
      <3> SUFFICES ASSUME NEW t \in {y.s : y \in Held \cup {x}},
                          Calendar!Covers(x, t)
                   PROVE  Cardinality({y \in Held : y.res = x.res
                                                /\ Calendar!Covers(y, t)})
                            < Cardinality(Workers)
        OBVIOUS
      <3>1. t \in Int
        <4>1. \A b \in bookings : b.s \in Int
          BY DEF IInv, TypeOK, Row
        <4>2. QED
          BY <1>2, <4>1, HeldRow
      <3>2. Instant(r.s) <= t /\ t < Instant(r.e)
        BY DEF Calendar!Covers
      <3>3. QED
        BY <1>1, <3>1, <3>2, FewCoverFreeSlot
    <2>4. x \in [id : 1..MaxBookings, res : Resources,
                 s : {Instant(t) : t \in Times}, e : {Instant(t) : t \in Times}]
      BY <1>1, BookingAssumption
    <2> HIDE DEF x
    <2>5. \A S : Calendar!Cardinality(S) = Cardinality(S)
      BY DEF Calendar!Cardinality, Cardinality
    <2>6. Calendar!Reserve(x)
      BY <2>1, <2>2, <2>3, <2>5 DEF Calendar!Reserve
    <2>7. QED
      BY <2>4, <2>6 DEF Calendar!Next
  <1>6. QED
    BY <1>3, <1>4, <1>5 DEF AddBooking

\* Every step of the other handlers releases slots, or changes none.
LEMMA OthersRelease ==
    ASSUME IInv, [Next]_vars, ~ \E w \in Workers : AddBooking(w)
    PROVE  [Calendar!Next]_Held
  <1>1. Held' \subseteq Held => [Calendar!Next]_Held
    BY DEF Calendar!Next, Calendar!Release
  <1>2. CASE UNCHANGED bookings
    BY <1>2 DEF Held
  <1>3. CASE bookings' \subseteq bookings
    <2>1. Held' \subseteq Held
      BY <1>3, HeldRow
    <2>2. QED
      BY <1>1, <2>1
  <1>4. CASE \E id \in 1..MaxBookings, edit \in Edits : UpdateBooking(id, edit)
    <2>1. PICK id \in 1..MaxBookings, edit \in Edits : UpdateBooking(id, edit)
      BY <1>4
    <2> DEFINE New(b) == IF b.id = id THEN Edited(b, edit) ELSE b
    <2>2. bookings' = {New(b) : b \in bookings}
      BY <2>1 DEF UpdateBooking
    <2>3. \A b \in bookings :
              /\ New(b).id = b.id
              /\ New(b).res = b.res
              /\ ~ New(b).moved =>
                    /\ ~ b.moved
                    /\ New(b).s = b.s
                    /\ New(b).e = b.e
                    /\ New(b).status = "confirmed" => b.status = "confirmed"
      BY EditedRow DEF IInv, TypeOK
    <2> HIDE DEF New
    <2>4. ASSUME NEW h \in Held' PROVE h \in Held
      <3>1. PICK c \in bookings' :
                /\ c.status = "confirmed" /\ ~ c.moved
                /\ h = [id |-> c.id, res |-> c.res, s |-> c.s, e |-> c.e]
        BY HeldRow
      <3>2. PICK b \in bookings : c = New(b)
        BY <2>2
      <3>3. /\ b.status = "confirmed" /\ ~ b.moved
            /\ h = [id |-> b.id, res |-> b.res, s |-> b.s, e |-> b.e]
        BY <2>3, <3>1, <3>2
      <3>4. QED
        BY <3>3, HeldRow
    <2>5. QED
      BY <1>1, <2>4
  <1>5. QED
    BY <1>2, <1>3, <1>4
       DEF Next, Post, Accept, CheckFree, Refuse, StatementRaises,
           DeleteBooking, DeleteResource, vars

\* The bookings made through POST never put more of them over one moment of a
\* resource than there are threads running handlers: every step of the handlers
\* is a reservation the calendar allows, a release, or leaves it alone.
THEOREM Implements ==
    ASSUME IsFiniteSet(Workers)
    PROVE  Spec => ImplementsCalendar
  <1>1. Init => Held = {}
    BY DEF Init, Held
  <1>2. Init => ThreadsMadeRows
    BY DEF Init, ThreadsMadeRows, MadeBy, Idle
  <1>3. IInv /\ ThreadsMadeRows /\ [Next]_vars => ThreadsMadeRows'
    BY ThreadsMadeRowsStep
  <1>4. IInv /\ ThreadsMadeRows /\ [Next]_vars => [Calendar!Next]_Held
    BY AddBookingReserves, OthersRelease
  <1>5. Spec => Init /\ [][Next]_vars
    BY DEF Spec
  <1>6. QED
    BY <1>1, <1>2, <1>3, <1>4, <1>5, BookingInvariant, PTL
       DEF ImplementsCalendar, Calendar!Spec, Calendar!Init

-----------------------------------------------------------------------------
(* The list of slots.                                                      *)

\* Every row begins and ends at an instant that a request names.
RowsOfTheDay ==
    \A b \in bookings : /\ b.s \in {Instant(t) : t \in Times}
                        /\ b.e \in {Instant(t) : t \in Times}

LEMMA RowsOfTheDayStep ==
    ASSUME IInv, RowsOfTheDay, [Next]_vars
    PROVE  RowsOfTheDay'
  <1>1. CASE bookings' \subseteq bookings
    BY <1>1 DEF RowsOfTheDay
  <1>2. CASE \E w \in Workers : AddBooking(w)
    <2>1. PICK w \in Workers : AddBooking(w)
      BY <1>2
    <2> DEFINE r == job[w].req
               new == [id |-> lastId + 1, res |-> r.res,
                       s |-> Instant(r.s), e |-> Instant(r.e),
                       status |-> r.status, seen |-> job[w].seen,
                       moved |-> FALSE]
    <2>2. bookings' \subseteq bookings \cup {new}
      BY <2>1 DEF AddBooking
    <2>3. r \in Requests
      BY <2>1, JobShape DEF AddBooking, IInv
    <2>4. /\ new.s = Instant(r.s) /\ r.s \in Times
          /\ new.e = Instant(r.e) /\ r.e \in Times
      BY <2>3, BookingAssumption
    <2> HIDE DEF new, r
    <2>5. QED
      BY <2>2, <2>4 DEF RowsOfTheDay
  <1>3. CASE \E id \in 1..MaxBookings, edit \in Edits : UpdateBooking(id, edit)
    <2>1. PICK id \in 1..MaxBookings, edit \in Edits : UpdateBooking(id, edit)
      BY <1>3
    <2>2. ASSUME NEW b \in bookings
          PROVE  /\ Edited(b, edit).s \in {Instant(t) : t \in Times}
                 /\ Edited(b, edit).e \in {Instant(t) : t \in Times}
      <3>1. /\ b \in Row
            /\ b.s \in {Instant(t) : t \in Times}
            /\ b.e \in {Instant(t) : t \in Times}
        BY DEF RowsOfTheDay, IInv, TypeOK
      <3>2. /\ edit.s = Keep \/ edit.s \in Times
            /\ edit.e = Keep \/ edit.e \in Times
        BY BookingAssumption
      <3>3. /\ Edited(b, edit).s = IF edit.s = Keep THEN b.s ELSE Instant(edit.s)
            /\ Edited(b, edit).e = IF edit.e = Keep THEN b.e ELSE Instant(edit.e)
        <4> DEFINE s == IF edit.s = Keep THEN b.s ELSE Instant(edit.s)
                   e == IF edit.e = Keep THEN b.e ELSE Instant(edit.e)
                   status == IF edit.status = Keep THEN b.status
                             ELSE edit.status
                   moved == \/ b.moved
                            \/ s # b.s \/ e # b.e
                            \/ b.status # "confirmed" /\ status = "confirmed"
        <4>1. Edited(b, edit) = [b EXCEPT !.s = s, !.e = e, !.status = status,
                                          !.moved = moved]
          BY DEF Edited
        <4> HIDE DEF s, e, status, moved
        <4>2. Edited(b, edit).s = s /\ Edited(b, edit).e = e
          BY <3>1, <4>1 DEF Row
        <4>3. QED
          BY <4>2 DEF s, e
      <3>4. QED
        BY <3>1, <3>2, <3>3
    <2>3. QED
      BY <2>1, <2>2 DEF UpdateBooking, RowsOfTheDay
  <1>4. QED
    BY <1>1, <1>2, <1>3
       DEF Next, Post, Accept, CheckFree, Refuse, StatementRaises,
           DeleteBooking, DeleteResource, vars

\* The instants that rows and the slots of the list begin and end at.
Instants ==
    {Instant(t) : t \in Times \cup {At(d, t) : d \in Dates, t \in Opens..Closes}}

\* What local times say of the order of instants.
LEMMA ClocksOrder ==
    ASSUME ClocksGoForward, NEW i \in Instants, NEW j \in Instants
    PROVE  /\ i \in Int /\ j \in Int
           /\ Local(i) \in Nat /\ Local(j) \in Nat
           /\ i <= j <=> Local(i) <= Local(j)
  <1>1. /\ i \in Int /\ j \in Int
        /\ Local(i) \in Nat /\ Local(j) \in Nat
        /\ i < j => Local(i) < Local(j)
        /\ j < i => Local(j) < Local(i)
    BY DEF ClocksGoForward, Instants
  <1>2. i = j => Local(i) = Local(j)
    OBVIOUS
  <1>3. QED
    BY <1>1, <1>2

\* The date and the clock time of a local timestamp.
LEMMA DateAndTime ==
    ASSUME NEW local \in Nat
    PROVE  /\ local \div Day \in Nat
           /\ local % Day \in 0..(Day - 1)
           /\ local = At(local \div Day, local % Day)
  BY AvailabilityAssumption DEF At

\* A later date begins a day later at least.
LEMMA LaterDate ==
    ASSUME NEW d \in Nat, NEW e \in Nat, d < e
    PROVE  At(d, Day) <= At(e, 0)
  <1>1. PICK n \in Nat : e = d + 1 + n
    <2>1. e - d - 1 \in Nat /\ e = d + 1 + (e - d - 1)
      OBVIOUS
    <2>2. QED
      BY <2>1
  <1>2. e * Day = d * Day + Day + n * Day
    BY <1>1, AvailabilityAssumption
  <1>3. n * Day >= 0 /\ n * Day \in Int /\ d * Day \in Int
    BY <1>1, AvailabilityAssumption
  <1>4. QED
    BY <1>2, <1>3, AvailabilityAssumption DEF At

LEMMA SlotsAgree ==
    ASSUME ClocksGoForward, IInv, RowsOfTheDay
    PROVE  SlotsAgreeWithIsFree
  <1> SUFFICES ASSUME NEW res \in Resources, NEW date \in Dates,
                      NEW duration \in Durations, NEW slot \in Slots(duration),
                      NEW r, r = [res |-> res, s |-> At(date, slot.s),
                                  e |-> At(date, slot.e)],
                      Local(Instant(r.s)) = r.s, Local(Instant(r.e)) = r.e,
                      \A b \in Confirmed(res) : Told(b, date)
               PROVE  ShownFree(res, date, slot) <=> IsFree(r) /\ ~ IsFreeRaises(r)
    BY DEF SlotsAgreeWithIsFree
  <1> DEFINE S == Instant(r.s)
             E == Instant(r.e)
             range == [s |-> S, e |-> E]
  <1>1. /\ slot.s \in Opens..Closes /\ slot.e \in Opens..Closes
        /\ slot.s \in Nat /\ slot.e \in Nat
        /\ slot.s < slot.e /\ slot.e <= Day /\ date \in Nat
    BY AvailabilityAssumption DEF Slots
  <1>2. /\ S \in Instants /\ E \in Instants
        /\ r.s = At(date, slot.s) /\ r.e = At(date, slot.e)
    BY <1>1 DEF Instants
  <1>3. \A t \in Nat : At(date, t) \in Nat
    BY <1>1, AvailabilityAssumption DEF At
  <1>4. \A t, u \in Nat : t <= u <=> At(date, t) <= At(date, u)
    <2>1. date * Day \in Nat
      BY <1>1, AvailabilityAssumption
    <2>2. QED
      BY <2>1 DEF At
  <1>5. r.s \in Nat /\ r.e \in Nat /\ r.s < r.e
    BY <1>1, <1>2, <1>3, <1>4
  <1>6. S \in Int /\ E \in Int /\ S < E
    <2>1. ~ E <= S
      BY <1>2, <1>5, ClocksOrder
    <2>2. QED
      BY <1>2, <2>1, ClocksOrder
  <1>7. \A b \in Confirmed(res) : b.s \in Instants /\ b.e \in Instants
    BY DEF RowsOfTheDay, Confirmed, Instants
  <1>8. ~ IsFreeRaises(r)
    <2>1. \A b \in Confirmed(res) : ~ b.s > b.e
      BY <1>7, ClocksOrder DEF Told
    <2>2. QED
      BY <1>5, <1>6, <2>1 DEF IsFreeRaises
  <1>9. IsFree(r) <=> \A b \in Confirmed(res) : ~ Overlap(b, range)
    BY DEF IsFree, RangeOf
  <1>10. ASSUME NEW b \in Confirmed(res)
         PROVE  /\ b.s \in Int /\ b.e \in Int /\ b.s < b.e
                /\ Local(b.s) \in Nat /\ Local(b.e) \in Nat
                /\ E <= b.s <=> r.e <= Local(b.s)
                /\ b.e <= S <=> Local(b.e) <= r.s
                /\ DateOf(b.s) \in Nat
                /\ ~ Overlap(b, range) <=> E <= b.s \/ b.e <= S
    <2> HIDE DEF S, E
    <2>1. b.s \in Instants /\ b.e \in Instants
      BY <1>7
    <2>2. /\ b.s \in Int /\ b.e \in Int
          /\ Local(b.s) \in Nat /\ Local(b.e) \in Nat
          /\ E <= b.s <=> Local(E) <= Local(b.s)
          /\ b.e <= S <=> Local(b.e) <= Local(S)
      BY <1>2, <2>1, ClocksOrder
    <2>3. Local(S) = r.s /\ Local(E) = r.e
      BY DEF S, E
    <2>4. b.s < b.e
      BY DEF Told
    <2>5. DateOf(b.s) \in Nat
      BY <2>2, DateAndTime DEF DateOf
    <2>6. Overlap(b, range) <=> b.s < E /\ S < b.e
      BY <1>6, <2>4 DEF Overlap
    <2>7. QED
      BY <1>6, <2>2, <2>3, <2>4, <2>5, <2>6
  <1>11. ASSUME NEW b \in OfDay(res, date)
         PROVE  ~ Overlap(b, range)
                  <=> slot.e <= Printed(b.s) \/ slot.s >= Printed(b.e)
    <2>1. b \in Confirmed(res) /\ DateOf(b.s) = date
      BY DEF OfDay
    <2>2. DateOf(b.e) = date
      BY <2>1 DEF Told
    <2>3. /\ Local(b.s) = At(date, Printed(b.s)) /\ Printed(b.s) \in Nat
          /\ Local(b.e) = At(date, Printed(b.e)) /\ Printed(b.e) \in Nat
      BY <1>10, <2>1, <2>2, DateAndTime, AvailabilityAssumption DEF DateOf, Printed
    <2>4. r.e <= Local(b.s) <=> slot.e <= Printed(b.s)
      BY <1>1, <1>2, <1>4, <2>3
    <2>5. Local(b.e) <= r.s <=> Printed(b.e) <= slot.s
      BY <1>1, <1>2, <1>4, <2>3
    <2>6. QED
      BY <1>1, <1>10, <2>1, <2>3, <2>4, <2>5
  <1>12. ASSUME NEW b \in Confirmed(res), DateOf(b.s) # date
         PROVE  ~ Overlap(b, range)
    <2>1. CASE DateOf(b.s) < date
      <3>1. Local(b.e) <= At(date, 0)
        BY <2>1 DEF Told
      <3>2. At(date, 0) <= r.s /\ At(date, 0) \in Nat
        BY <1>1, <1>2, <1>3, <1>4
      <3>3. Local(b.e) <= r.s
        BY <1>5, <1>10, <3>1, <3>2
      <3>4. QED
        BY <1>10, <3>3
    <2>2. CASE DateOf(b.s) > date
      <3> DEFINE d == DateOf(b.s)
                 t == Local(b.s) % Day
      <3>1. d \in Nat /\ t \in Nat /\ Local(b.s) = At(d, t)
        BY <1>10, DateAndTime, AvailabilityAssumption DEF DateOf
      <3>2. At(date, Day) <= At(d, 0)
        BY <1>1, <2>2, <3>1, LaterDate
      <3>3. d * Day \in Nat
        BY <3>1, AvailabilityAssumption
      <3>4. At(d, 0) <= At(d, t) /\ At(d, 0) \in Nat /\ At(d, t) \in Nat
        BY <3>1, <3>3 DEF At
      <3>5. r.e <= At(date, Day) /\ At(date, Day) \in Nat
        BY <1>1, <1>2, <1>3, <1>4, AvailabilityAssumption
      <3>6. r.e <= Local(b.s)
        BY <1>5, <3>1, <3>2, <3>4, <3>5
      <3>7. QED
        BY <1>10, <3>6
    <2>3. QED
      BY <1>1, <1>10, <1>12, <2>1, <2>2
  <1>13. \A b \in Confirmed(res) : b \in OfDay(res, date) <=> DateOf(b.s) = date
    BY DEF OfDay
  <1>14. OfDay(res, date) \subseteq Confirmed(res)
    BY DEF OfDay
  <1>15. QED
    BY <1>8, <1>9, <1>11, <1>12, <1>13, <1>14 DEF ShownFree

\* On dates whose clocks are not turned back, the list shows free exactly the
\* slots that a POST is accepted for, for every zone conversion, opening hours,
\* durations and edits, unless it hides a part of a booking.
THEOREM ShownAsFound ==
    ASSUME ClocksGoForward
    PROVE  Spec => []SlotsAgreeWithIsFree
  <1>1. Init => RowsOfTheDay
    BY DEF Init, RowsOfTheDay
  <1>2. IInv /\ RowsOfTheDay /\ [Next]_vars => RowsOfTheDay'
    BY RowsOfTheDayStep
  <1>3. IInv /\ RowsOfTheDay => SlotsAgreeWithIsFree
    BY SlotsAgree
  <1>4. Spec => Init /\ [][Next]_vars
    BY DEF Spec
  <1>5. QED
    BY <1>1, <1>2, <1>3, <1>4, BookingInvariant, PTL
=============================================================================

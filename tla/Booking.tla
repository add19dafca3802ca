------------------------------ MODULE Booking -------------------------------
(***************************************************************************)
(* The bookings table and the handlers of /api/bookings that change it.    *)
(* POST runs two statements, each committed on its own: the SELECT of      *)
(* isFree and the INSERT of addBooking; other requests run between them.   *)
(* PUT, DELETE and the deletion of a resource are one statement each.      *)
(* A request refused with 401 or 400 leaves no trace and is not a step.    *)
(***************************************************************************)
EXTENDS Integers, FiniteSets

CONSTANTS
    Workers,        \* threads that run handlers
    Resources,
    Times,          \* a body's date + start and date + end: local timestamps
    Instant(_),     \* such a timestamp AT TIME ZONE 'Europe/Dublin'
    Requests,       \* bodies of POST: [res, s, e, status], s and e in Times
    Edits,          \* bodies of PUT: [status, s, e], on whatever date
    Keep,           \* what a PUT leaves out; s and e need the date, too
    MaxBookings     \* bound on the ids the SERIAL column hands out

Status == {"pending", "confirmed", "cancelled", "completed"}

ASSUME BookingAssumption ==
    /\ \A t \in Times : Instant(t) \in Int
    /\ Times \subseteq Int
    /\ MaxBookings \in Nat
    /\ Keep \notin Times
    /\ Keep \notin Status
    /\ Requests \subseteq [res : Resources, s : Times, e : Times, status : Status]
    /\ Edits \subseteq [status : Status \cup {Keep}, s : Times \cup {Keep},
                        e : Times \cup {Keep}]

VARIABLES
    resources,      \* rows of the resources table
    bookings,       \* rows of the bookings table
    lastId,         \* last value of the id sequence
    job             \* job[w]: the POST request thread w is running

vars == <<resources, bookings, lastId, job>>

\* seen and moved are history the table does not keep: the ids the isFree query
\* of this row's request could see, and whether a PUT has since given the row
\* its range or its confirmed status.
Row == [id : Nat, res : Resources, s : Int, e : Int, status : Status,
        seen : SUBSET Nat, moved : BOOLEAN]

Idle == [step |-> "idle"]
Job == [step : {"idle"}]
          \cup [step : {"accepted"}, req : Requests]
          \cup [step : {"free"}, req : Requests, seen : SUBSET Nat]

-----------------------------------------------------------------------------
(* Names ending in "Bug" are faulty variants of the definition after them,  *)
(* used to see that the properties notice.                                 *)

\* tstzrange(a) && tstzrange(b): an empty range overlaps nothing.
Overlap(a, b) == /\ a.s < a.e
                 /\ b.s < b.e
                 /\ a.s < b.e
                 /\ b.s < a.e

RangeOf(r) == [s |-> Instant(r.s), e |-> Instant(r.e)]

Confirmed(res) == {b \in bookings : b.res = res /\ b.status = "confirmed"}

\* The lower bound is taken for harmless, as the string comparison suggests.
IsFreeRaisesBug(r) == r.s >= r.e \/ \E b \in Confirmed(r.res) : b.s > b.e

\* tstzrange raises an error when its lower bound is above its upper bound,
\* for the requested range as well as for any row the query reaches.
IsFreeRaises(r) ==
    \/ r.s >= r.e
    \/ Instant(r.s) > Instant(r.e)
    \/ \E b \in Confirmed(r.res) : b.s > b.e

\* Only the start of the requested range is looked up.
IsFreeBug(r) ==
    ~ \E b \in Confirmed(r.res) : b.s <= Instant(r.s) /\ Instant(r.s) < b.e

IsFree(r) == ~ \E b \in Confirmed(r.res) : Overlap(b, RangeOf(r))

-----------------------------------------------------------------------------
Init == /\ resources = Resources
        /\ bookings = {}
        /\ lastId = 0
        /\ job = [w \in Workers |-> Idle]

\* A POST that passed the session and field checks reaches isFree.
Accept(w) ==
    /\ job[w].step = "idle"
    /\ \E r \in Requests :
          job' = [job EXCEPT ![w] = [step |-> "accepted", req |-> r]]
    /\ UNCHANGED <<resources, bookings, lastId>>

\* The answer of isFree is ignored.
CheckFreeBug(w) ==
    /\ job[w].step = "accepted"
    /\ ~ IsFreeRaises(job[w].req)
    /\ job' = [job EXCEPT ![w] = [step |-> "free", req |-> job[w].req,
                                  seen |-> {b.id : b \in bookings}]]
    /\ UNCHANGED <<resources, bookings, lastId>>

\* isFree finds the slot free; the answer is only remembered by the thread.
CheckFree(w) ==
    /\ job[w].step = "accepted"
    /\ ~ IsFreeRaises(job[w].req)
    /\ IsFree(job[w].req)
    /\ job' = [job EXCEPT ![w] = [step |-> "free", req |-> job[w].req,
                                  seen |-> {b.id : b \in bookings}]]
    /\ UNCHANGED <<resources, bookings, lastId>>

\* 409, or 500 when the range is refused or tstzrange raised.
Refuse(w) ==
    /\ job[w].step = "accepted"
    /\ IsFreeRaises(job[w].req) \/ ~ IsFree(job[w].req)
    /\ job' = [job EXCEPT ![w] = Idle]
    /\ UNCHANGED <<resources, bookings, lastId>>

\* addBooking: the sequence advances before the foreign key is checked.
AddBooking(w) ==
    /\ job[w].step = "free"
    /\ lastId < MaxBookings
    /\ LET r == job[w].req
       IN  bookings' = IF r.res \in resources
                       THEN bookings \cup
                              {[id |-> lastId + 1, res |-> r.res,
                                s |-> Instant(r.s), e |-> Instant(r.e),
                                status |-> r.status,
                                seen |-> job[w].seen, moved |-> FALSE]}
                       ELSE bookings
    /\ lastId' = lastId + 1
    /\ job' = [job EXCEPT ![w] = Idle]
    /\ UNCHANGED resources

\* Any statement may raise; the handler answers 500.
StatementRaises(w) ==
    /\ job[w].step # "idle"
    /\ job' = [job EXCEPT ![w] = Idle]
    /\ UNCHANGED <<resources, bookings, lastId>>

\* The row after UPDATE bookings SET ...: each field is kept or replaced on its
\* own, so that a date with a start or an end only can leave a booking over two
\* days; nothing compares the result with the other rows.
Edited(b, edit) ==
    LET s == IF edit.s = Keep THEN b.s ELSE Instant(edit.s)
        e == IF edit.e = Keep THEN b.e ELSE Instant(edit.e)
        status == IF edit.status = Keep THEN b.status ELSE edit.status
    IN  [b EXCEPT !.s = s, !.e = e, !.status = status,
                  !.moved = \/ b.moved
                            \/ s # b.s \/ e # b.e
                            \/ b.status # "confirmed" /\ status = "confirmed"]

UpdateBooking(id, edit) ==
    /\ bookings' = {IF b.id = id THEN Edited(b, edit) ELSE b : b \in bookings}
    /\ UNCHANGED <<resources, lastId, job>>

DeleteBooking(id) ==
    /\ bookings' = {b \in bookings : b.id # id}
    /\ UNCHANGED <<resources, lastId, job>>

\* DELETE FROM resources cascades to bookings.
DeleteResource(res) ==
    /\ resources' = resources \ {res}
    /\ bookings' = {b \in bookings : b.res # res}
    /\ UNCHANGED <<lastId, job>>

Post(w) == \/ Accept(w)
           \/ CheckFree(w)
           \/ Refuse(w)
           \/ AddBooking(w)
           \/ StatementRaises(w)

Next == \/ \E w \in Workers : Post(w)
        \/ \E id \in 1..MaxBookings, edit \in Edits : UpdateBooking(id, edit)
        \/ \E id \in 1..MaxBookings : DeleteBooking(id)
        \/ \E res \in Resources : DeleteResource(res)

Spec == Init /\ [][Next]_vars

-----------------------------------------------------------------------------
\* Every variable keeps the shape the tables and handlers give it.
TypeOK == /\ resources \subseteq Resources
          /\ bookings \subseteq Row
          /\ lastId \in Nat
          /\ job \in [Workers -> Job]

\* Two confirmed bookings of a resource overlap only when an administrator put
\* one of them there by PUT, or when each request's isFree query ran before
\* the other request's INSERT.
OverlapOnlyFromRaces ==
    \A a, b \in bookings :
        /\ a.id # b.id
        /\ a.res = b.res
        /\ a.status = "confirmed" /\ b.status = "confirmed"
        /\ Overlap(a, b)
        => \/ a.moved \/ b.moved
           \/ a.id \notin b.seen /\ b.id \notin a.seen

\* isFree fails for every later request of a resource that holds a confirmed
\* row whose start is after its end; only a PUT can leave such a row, because
\* the same tstzrange that fails guards every INSERT.
OnlyEditsPoison ==
    \A b \in bookings : b.s > b.e => b.moved

\* What addBooking's "must be wrapped in service transaction" is there for:
\* bookings made through POST never overlap.
NoDoubleBooking ==
    \A a, b \in bookings :
        /\ a.id # b.id
        /\ a.res = b.res
        /\ a.status = "confirmed" /\ b.status = "confirmed"
        /\ ~ a.moved /\ ~ b.moved
        => ~ Overlap(a, b)

-----------------------------------------------------------------------------
\* The bookings that hold their slot by way of POST, as the abstract calendar
\* sees them.
Held == {[id |-> b.id, res |-> b.res, s |-> b.s, e |-> b.e] :
            b \in {c \in bookings : c.status = "confirmed" /\ ~ c.moved}}

Calendar == INSTANCE Calendar WITH
    reserved <- Held,
    Capacity <- Cardinality(Workers),
    Slots <- [id : 1..MaxBookings, res : Resources,
              s : {Instant(t) : t \in Times}, e : {Instant(t) : t \in Times}]

\* No moment of a resource is taken by more bookings than there are threads
\* running handlers; with one thread the calendar is exact.
ImplementsCalendar == Calendar!Spec
=============================================================================

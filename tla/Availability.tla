---------------------------- MODULE Availability -----------------------------
(***************************************************************************)
(* GET /availability: the slots of a date and whether each is free.  It    *)
(* compares clock times as PostgreSQL prints them, where isFree compares   *)
(* instants; both are about the confirmed rows of Booking's table.         *)
(***************************************************************************)
EXTENDS Booking

CONSTANTS
    Local(_),   \* the local timestamp of an instant in Europe/Dublin
    Day,        \* length of a day in timestamps; date d begins at d * Day
    Dates,      \* the dates asked for
    Opens, Closes,
    Durations   \* of the slots asked for, in steps of the list

ASSUME AvailabilityAssumption ==
    /\ Day \in Nat \ {0} /\ Opens \in 0..Day /\ Closes \in 0..Day
    /\ Dates \subseteq Nat
    /\ Durations \subseteq Nat \ {0}

\* $2::date + time
At(date, time) == date * Day + time

\* (... AT TIME ZONE 'Europe/Dublin')::date and to_char(..., 'HH24:MI')
DateOf(instant) == Local(instant) \div Day
Printed(instant) == Local(instant) % Day

\* The rows whose start is on the date.
OfDay(res, date) == {b \in Confirmed(res) : DateOf(b.s) = date}

\* The loop of getAvailableTimeSlots
Slots(duration) ==
    {[s |-> s, e |-> s + duration] : s \in Opens..(Closes - duration)}

\* A slot that begins when a booking ends is taken.
ShownFreeBug(res, date, slot) ==
    \A b \in OfDay(res, date) : slot.e <= Printed(b.s) \/ slot.s > Printed(b.e)

ShownFree(res, date, slot) ==
    \A b \in OfDay(res, date) : slot.e <= Printed(b.s) \/ slot.s >= Printed(b.e)

\* Dates on which the clocks are not turned back: of two instants the later one
\* has the later local time.  Clocks may be turned forward.
ClocksGoForward ==
    LET times == Times \cup {At(d, t) : d \in Dates, t \in Opens..Closes}
        instants == {Instant(t) : t \in times}
    IN  \A i, j \in instants : /\ i \in Int
                               /\ Local(i) \in Nat
                               /\ i < j => Local(i) < Local(j)

\* The list tells of a booking what isFree knows of it: it is neither empty nor
\* reversed, one that begins on the date ends on it, before 24:00, and one that
\* began earlier has ended.  A PUT can leave others, and a POST ends at 24:00.
Told(b, date) ==
    /\ b.s < b.e
    /\ DateOf(b.s) = date => DateOf(b.e) = date
    /\ DateOf(b.s) < date => Local(b.e) <= At(date, 0)

\* A POST of a slot that is shown free is accepted, and one that is shown taken is
\* refused, although rows lie on other dates too.  Excepted are times the date does
\* not have, and lists that hide a part of a booking: of one that runs over
\* midnight the date it begins on shows other hours, and the next date nothing.
SlotsAgreeWithIsFree ==
    \A res \in Resources, date \in Dates, duration \in Durations :
        \A slot \in Slots(duration) :
            LET r == [res |-> res, s |-> At(date, slot.s), e |-> At(date, slot.e)]
            IN  /\ Local(Instant(r.s)) = r.s /\ Local(Instant(r.e)) = r.e
                /\ \A b \in Confirmed(res) : Told(b, date)
                => (ShownFree(res, date, slot) <=> IsFree(r) /\ ~ IsFreeRaises(r))
=============================================================================

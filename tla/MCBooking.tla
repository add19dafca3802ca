----------------------------- MODULE MCBooking ------------------------------
(* Booking on a small instance. *)
EXTENDS Availability, TLC

CONSTANT r1

\* Half hours of two dates, six to a day; on the first the clocks go forward at
\* 01:00: the times that do not exist are read with the offset before the change.
SpringForward(t) == IF t >= 4 THEN t - 2 ELSE t
SpringLocal(instant) == IF instant >= 2 THEN instant + 2 ELSE instant

ASSUME SpringDay == ClocksGoForward

Body(s, e, status) == [res |-> r1, s |-> s, e |-> e, status |-> status]
Edit(status, s, e) == [status |-> status, s |-> s, e |-> e]

\* Two requests that overlap (00:00-01:00, 00:30-02:00) and one that ends before
\* it starts (01:30-02:00).
MCRequests == {Body(0, 2, "confirmed"), Body(1, 4, "confirmed"),
               Body(3, 4, "confirmed")}

\* Confirm, cancel, and move the start alone or the end alone to the second date:
\* one after the other they move the whole booking there.
MCEdits == {Edit("confirmed", Keep, Keep), Edit("cancelled", Keep, Keep),
            Edit(Keep, 7, Keep), Edit(Keep, Keep, 8)}

MCSymmetry == Permutations(Workers)
=============================================================================

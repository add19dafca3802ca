------------------------------ MODULE Calendar ------------------------------
(***************************************************************************)
(* What the booking API promises: reservations of resources, no moment of  *)
(* a resource's time taken by more than Capacity of them.  Capacity = 1 is *)
(* the calendar a customer expects.                                        *)
(***************************************************************************)
EXTENDS Integers, FiniteSets

CONSTANTS
    Slots,      \* every reservation [id, res, s, e] that can ever be made
    Capacity    \* reservations of one resource that one moment may carry

VARIABLE reserved

Covers(y, t) == y.s <= t /\ t < y.e

Init == reserved = {}

\* Ranges that share a moment share the first moment of one of them, so only
\* the first moments are counted.
Reserve(x) ==
    /\ reserved' = reserved \cup {x}
    /\ \A y \in reserved : y.id # x.id
    /\ \A t \in {y.s : y \in reserved \cup {x}} :
          Covers(x, t) =>
              Cardinality({y \in reserved : y.res = x.res /\ Covers(y, t)})
                  < Capacity

Release == reserved' \subseteq reserved

Next == \/ Release
        \/ \E x \in Slots : Reserve(x)

Spec == Init /\ [][Next]_reserved
=============================================================================

---------------------------- MODULE WeekRegister -----------------------------
(***************************************************************************)
(* What an administrator expects of the weekly hours of each artist: they  *)
(* are one of the weeks somebody saved, whole, or they are being replaced. *)
(* A week that is not being replaced changes only by a new replacement, or *)
(* is emptied at once.                                                     *)
(***************************************************************************)
CONSTANTS Resources, Weeks, Empty, Unsettled

VARIABLE week

Init == week = [r \in Resources |-> Empty]

Begin(r) == week' = [week EXCEPT ![r] = Unsettled]

Settle(r) == /\ week[r] = Unsettled
             /\ \E v \in Weeks : week' = [week EXCEPT ![r] = v]

Clear(r) == week' = [week EXCEPT ![r] = Empty]

Next == \E r \in Resources : Begin(r) \/ Settle(r) \/ Clear(r)

Spec == Init /\ [][Next]_week
=============================================================================

-------------------------------- MODULE Jobs --------------------------------
(***************************************************************************)
(* What a task queue promises: tasks, numbered as they are submitted, are  *)
(* started in that order, each once, and end.                              *)
(***************************************************************************)
EXTENDS Integers

VARIABLES
    submitted,  \* tasks submitted
    started,    \* tasks started
    running     \* those of them that have not ended

Init == /\ submitted = 0
        /\ started = 0
        /\ running = {}

Submit == /\ submitted' = submitted + 1
          /\ UNCHANGED <<started, running>>

Start == /\ started < submitted
         /\ started' = started + 1
         /\ running' = running \cup {started + 1}
         /\ UNCHANGED submitted

End == /\ \E t \in running : running' = running \ {t}
       /\ UNCHANGED <<submitted, started>>

Next == Submit \/ Start \/ End

Spec == Init /\ [][Next]_<<submitted, started, running>>
=============================================================================

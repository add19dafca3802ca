------------------------------ MODULE ConnPool ------------------------------
(***************************************************************************)
(* What a connection pool promises: every connection is either free or in  *)
(* the hands of exactly one thread, and no thread holds more than MaxHeld. *)
(***************************************************************************)
EXTENDS Integers, FiniteSets

CONSTANTS Threads, Conns, MaxHeld

VARIABLES free, held

Init == /\ free = Conns
        /\ held = [t \in Threads |-> {}]

Take(t) == /\ Cardinality(held[t]) < MaxHeld
           /\ \E c \in free : /\ free' = free \ {c}
                              /\ held' = [held EXCEPT ![t] = @ \cup {c}]

Give(t) == \E c \in held[t] : /\ free' = free \cup {c}
                              /\ held' = [held EXCEPT ![t] = @ \ {c}]

Next == \E t \in Threads : Take(t) \/ Give(t)

Spec == Init /\ [][Next]_<<free, held>>
=============================================================================

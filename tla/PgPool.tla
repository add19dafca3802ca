------------------------------- MODULE PgPool -------------------------------
(***************************************************************************)
(* PgPool: a queue of database connections under a mutex, with a condition *)
(* variable on which acquire waits while the queue is empty.  A critical   *)
(* section is one action; release notifies after it has left its own, so   *)
(* that other threads run between the push and the notification.           *)
(***************************************************************************)
EXTENDS Integers, Sequences, FiniteSets

CONSTANTS
    Threads,    \* threads of the nexus pool
    Conns,      \* connections, all opened by the constructor
    MaxHeld     \* guards a request holds at once: 1 in every registered route,
                \* 2 in CartService::addToCart and updateQuantity

ASSUME PoolAssumption ==
    /\ IsFiniteSet(Threads)
    /\ IsFiniteSet(Conns)
    /\ MaxHeld \in Nat \ {0}

VARIABLES
    available,  \* the queue of connections nobody holds
    held,       \* held[t]: connections of the guards of thread t
    pc          \* pc[t]: where t is with respect to the pool

vars == <<available, held, pc>>

Queued == {available[i] : i \in DOMAIN available}

\* The constructor opens Conns one after the other and pushes each.
Init == /\ available \in [1..Cardinality(Conns) -> Conns]
        /\ \A i, j \in DOMAIN available : available[i] = available[j] => i = j
        /\ held = [t \in Threads |-> {}]
        /\ pc = [t \in Threads |-> "run"]

(* Names ending in "Bug" are faulty variants of the definition after them,  *)
(* used to see that the properties notice.                                 *)

\* A guard is constructed.
Call(t) == /\ pc[t] = "run"
           /\ Cardinality(held[t]) < MaxHeld
           /\ pc' = [pc EXCEPT ![t] = "acquire"]
           /\ UNCHANGED <<available, held>>

\* front() without pop().
AcquireBug(t) ==
    /\ pc[t] = "acquire"
    /\ IF available = <<>>
       THEN /\ pc' = [pc EXCEPT ![t] = "asleep"]
            /\ UNCHANGED <<available, held>>
       ELSE /\ held' = [held EXCEPT ![t] = @ \cup {Head(available)}]
            /\ pc' = [pc EXCEPT ![t] = "run"]
            /\ UNCHANGED available

\* acquire holds the mutex and tests the predicate of the wait.
Acquire(t) ==
    /\ pc[t] = "acquire"
    /\ IF available = <<>>
       THEN /\ pc' = [pc EXCEPT ![t] = "asleep"]
            /\ UNCHANGED <<available, held>>
       ELSE /\ held' = [held EXCEPT ![t] = @ \cup {Head(available)}]
            /\ available' = Tail(available)
            /\ pc' = [pc EXCEPT ![t] = "run"]

\* wait may return without a notification; the predicate is tested again.
SpuriousWakeup(t) == /\ pc[t] = "asleep"
                     /\ pc' = [pc EXCEPT ![t] = "acquire"]
                     /\ UNCHANGED <<available, held>>

\* The guard is destroyed and its connection is not given back.
ReleaseLeakBug(t) == /\ pc[t] = "run"
                     /\ \E c \in held[t] :
                           held' = [held EXCEPT ![t] = @ \ {c}]
                     /\ pc' = [pc EXCEPT ![t] = "notify"]
                     /\ UNCHANGED available

\* A guard is destroyed: release pushes its connection ...
Release(t) == /\ pc[t] = "run"
              /\ \E c \in held[t] :
                    /\ available' = Append(available, c)
                    /\ held' = [held EXCEPT ![t] = @ \ {c}]
              /\ pc' = [pc EXCEPT ![t] = "notify"]

\* notify_one is forgotten.
NotifyBug(t) == /\ pc[t] = "notify"
                /\ pc' = [pc EXCEPT ![t] = "run"]
                /\ UNCHANGED <<available, held>>

\* ... and then wakes one sleeper, if there is one.
Notify(t) ==
    LET asleep == {s \in Threads : pc[s] = "asleep"}
    IN  /\ pc[t] = "notify"
        /\ \/ /\ asleep = {}
              /\ pc' = [pc EXCEPT ![t] = "run"]
           \/ \E s \in asleep :
                 pc' = [pc EXCEPT ![t] = "run", ![s] = "acquire"]
        /\ UNCHANGED <<available, held>>

Step(t) == Call(t) \/ Acquire(t) \/ Release(t) \/ Notify(t)

Next == \E t \in Threads : Step(t) \/ SpuriousWakeup(t)

Spec == Init /\ [][Next]_vars

\* A running thread goes on inside the pool and destroys its guards in the end.
Fairness == \A t \in Threads : /\ WF_vars(Acquire(t))
                               /\ WF_vars(Notify(t))
                               /\ WF_vars(Release(t))

FairSpec == Spec /\ Fairness

-----------------------------------------------------------------------------
\* Every variable keeps its type.
TypeOK == /\ available \in Seq(Conns)
          /\ held \in [Threads -> SUBSET Conns]
          /\ pc \in [Threads -> {"run", "acquire", "asleep", "notify"}]

\* While a thread sleeps, every queued connection has a thread on its way to
\* take it or to wake a sleeper for it: notifying after the mutex is released
\* loses no wakeup.
NoLostWakeup ==
    (\E t \in Threads : pc[t] = "asleep") =>
        Len(available) <= Cardinality({t \in Threads :
                                          pc[t] \in {"acquire", "notify"}})

\* The threads never all wait for each other's connections.
NotAllWaiting ==
    \/ available # <<>>
    \/ \E t \in Threads : pc[t] \in {"run", "notify"}

\* With one guard at a time, a thread finds the queue empty only while other
\* threads hold all the connections, one each: none has got lost, and with as
\* many connections as threads nobody ever waits.
WaitsOnlyForHolders ==
    MaxHeld = 1 =>
        \A t \in Threads :
            pc[t] = "acquire" /\ available = <<>> =>
                Cardinality({s \in Threads \ {t} : held[s] # {}})
                    >= Cardinality(Conns)

\* A sleeping thread and a connection in the queue do not stay together: each
\* connection that is given back finds a thread that waits for it.
SleepersGetConnections ==
    (available # <<>> /\ \E t \in Threads : pc[t] = "asleep")
        ~> (available = <<>> \/ \A t \in Threads : pc[t] # "asleep")

Pool == INSTANCE ConnPool WITH free <- Queued

\* The queue, the mutex and the condition variable implement the pool: no
\* connection is lost, or handed to two threads.
ImplementsConnPool == Pool!Spec
=============================================================================

---------------------------- MODULE PgPoolProofs -----------------------------
(***************************************************************************)
(* The connection pool for every number of threads and connections: it     *)
(* implements the abstract pool, it loses no wakeup, and a pool with one   *)
(* connection per thread never makes a thread wait.                        *)
(***************************************************************************)
EXTENDS PgPool, FiniteSetTheorems, TLAPS

\* Every connection is in the queue once, or in the hands of one thread.
QueueOnce == \A i, j \in DOMAIN available : available[i] = available[j] => i = j
HeldOnce == /\ \A s, t \in Threads : s # t => held[s] \cap held[t] = {}
            /\ \A t \in Threads : held[t] \cap Queued = {}
            /\ \A c \in Conns : c \in Queued \/ \E t \in Threads : c \in held[t]

\* A thread about to take a connection has room for it.
Room == \A t \in Threads :
           /\ Cardinality(held[t]) <= MaxHeld
           /\ pc[t] \in {"acquire", "asleep"} => Cardinality(held[t]) < MaxHeld

IInv == /\ TypeOK
        /\ QueueOnce
        /\ HeldOnce
        /\ Room

-----------------------------------------------------------------------------
(* The queue as a set.                                                     *)

LEMMA QueuedTail ==
    ASSUME available \in Seq(Conns), QueueOnce, available # <<>>,
           available' = Tail(available)
    PROVE  /\ Head(available) \in Queued
           /\ Queued' = Queued \ {Head(available)}
           /\ QueueOnce'
  <1>1. /\ Len(available) \in Nat \ {0}
        /\ DOMAIN available = 1..Len(available)
        /\ Head(available) = available[1]
    OBVIOUS
  <1>2. /\ DOMAIN available' = 1..(Len(available) - 1)
        /\ \A i \in 1..(Len(available) - 1) : available'[i] = available[i + 1]
    BY <1>1
  <1>3. ASSUME NEW c \in Queued'
        PROVE  c \in Queued /\ c # Head(available)
    <2>1. PICK i \in 1..(Len(available) - 1) : c = available[i + 1]
      BY <1>2, <1>3 DEF Queued
    <2>2. i + 1 \in DOMAIN available /\ 1 \in DOMAIN available /\ i + 1 # 1
      BY <1>1
    <2>3. c # available[1]
      BY <2>1, <2>2 DEF QueueOnce
    <2> QED
      BY <1>1, <2>1, <2>2, <2>3 DEF Queued
  <1>4. ASSUME NEW c \in Queued \ {Head(available)} PROVE c \in Queued'
    <2>1. PICK i \in DOMAIN available : c = available[i]
      BY <1>4 DEF Queued
    <2>2. i # 1 /\ i - 1 \in 1..(Len(available) - 1)
      BY <1>1, <1>4, <2>1
    <2>3. available'[i - 1] = c
      BY <1>1, <1>2, <2>1, <2>2
    <2> QED
      BY <1>2, <2>2, <2>3 DEF Queued
  <1>5. QueueOnce'
    BY <1>1, <1>2 DEF QueueOnce
  <1>6. Head(available) \in Queued
    BY <1>1 DEF Queued
  <1> QED
    BY <1>3, <1>4, <1>5, <1>6

LEMMA QueuedAppend ==
    ASSUME available \in Seq(Conns), QueueOnce, NEW c \in Conns, c \notin Queued,
           available' = Append(available, c)
    PROVE  /\ Queued' = Queued \cup {c}
           /\ QueueOnce'
  <1>1. /\ Len(available) \in Nat
        /\ DOMAIN available = 1..Len(available)
        /\ DOMAIN available' = 1..(Len(available) + 1)
        /\ available'[Len(available) + 1] = c
        /\ \A i \in 1..Len(available) : available'[i] = available[i]
    OBVIOUS
  <1>2. Queued' = Queued \cup {c}
    BY <1>1 DEF Queued
  <1>3. QueueOnce'
    BY <1>1 DEF QueueOnce, Queued
  <1> QED
    BY <1>2, <1>3

-----------------------------------------------------------------------------
LEMMA InitIInv == Init => IInv /\ Queued = Conns
  <1> SUFFICES ASSUME Init PROVE IInv /\ Queued = Conns
    OBVIOUS
  <1> DEFINE n == Cardinality(Conns)
  <1>1. n \in Nat /\ IsFiniteSet(1..n) /\ Cardinality(1..n) = n
    BY PoolAssumption, FS_CardinalityType, FS_Interval
  <1>2. available \in Injection(1..n, Conns)
    BY DEF Init, Injection, IsInjective
  <1>3. available \in Surjection(1..n, Conns)
    BY <1>1, <1>2, PoolAssumption, FS_Injection
  <1>4. Queued = Conns
    BY <1>3 DEF Queued, Surjection, Init
  <1>5. TypeOK
    <2>1. available \in Seq(Conns)
      BY <1>1 DEF Init
    <2> QED
      BY <2>1 DEF TypeOK, Init
  <1>6. QueueOnce
    BY DEF Init, QueueOnce
  <1>7. HeldOnce
    BY <1>4 DEF Init, HeldOnce
  <1>8. Room
    BY FS_EmptySet, PoolAssumption DEF Init, Room
  <1> QED
    BY <1>4, <1>5, <1>6, <1>7, <1>8 DEF IInv

-----------------------------------------------------------------------------
LEMMA Counts ==
    ASSUME TypeOK, NEW t \in Threads
    PROVE  IsFiniteSet(held[t]) /\ Cardinality(held[t]) \in Nat
  BY PoolAssumption, FS_Subset, FS_CardinalityType DEF TypeOK

\* A thread takes the first connection of the queue.
LEMMA TakeStep ==
    ASSUME IInv, NEW t \in Threads, Acquire(t), available # <<>>
    PROVE  /\ IInv'
           /\ Head(available) \in Queued
           /\ Queued' = Queued \ {Head(available)}
           /\ held' = [held EXCEPT ![t] = @ \cup {Head(available)}]
           /\ Cardinality(held[t]) < MaxHeld
  <1> DEFINE c == Head(available)
  <1>0. TypeOK /\ QueueOnce /\ HeldOnce /\ Room
    BY DEF IInv
  <1>1. /\ pc[t] = "acquire"
        /\ available' = Tail(available)
        /\ held' = [held EXCEPT ![t] = @ \cup {c}]
        /\ pc' = [pc EXCEPT ![t] = "run"]
    BY DEF Acquire
  <1>2. /\ c \in Queued
        /\ Queued' = Queued \ {c}
        /\ QueueOnce'
    BY <1>0, <1>1, QueuedTail DEF TypeOK
  <1>3. c \in Conns /\ Tail(available) \in Seq(Conns)
    BY <1>0 DEF TypeOK
  <1>4. TypeOK'
    BY <1>0, <1>1, <1>3 DEF TypeOK
  <1>5. HeldOnce'
    <2>1. \A s \in Threads : held'[s] = IF s = t THEN held[t] \cup {c} ELSE held[s]
      BY <1>0, <1>1 DEF TypeOK
    <2> QED
      BY <1>0, <1>2, <2>1 DEF HeldOnce
  <1>6. Cardinality(held[t]) < MaxHeld
    BY <1>0, <1>1 DEF Room
  <1>7. Room'
    <2> SUFFICES ASSUME NEW s \in Threads
                 PROVE  /\ Cardinality(held'[s]) <= MaxHeld
                        /\ pc'[s] \in {"acquire", "asleep"} =>
                              Cardinality(held'[s]) < MaxHeld
      BY DEF Room
    <2>1. CASE s = t
      <3>1. held'[s] = held[t] \cup {c} /\ pc'[s] = "run"
        BY <1>0, <1>1, <2>1 DEF TypeOK
      <3>2. IsFiniteSet(held[t]) /\ Cardinality(held[t]) \in Nat
        BY <1>0, Counts
      <3>3. Cardinality(held[t] \cup {c}) =
              IF c \in held[t] THEN Cardinality(held[t])
                               ELSE Cardinality(held[t]) + 1
        BY <3>2, FS_AddElement, Zenon
      <3> HIDE DEF c
      <3> QED
        BY <1>6, <3>1, <3>2, <3>3, PoolAssumption
    <2>2. CASE s # t
      <3>1. held'[s] = held[s] /\ pc'[s] = pc[s]
        BY <1>0, <1>1, <2>2 DEF TypeOK
      <3> QED
        BY <1>0, <3>1 DEF Room
    <2> QED
      BY <2>1, <2>2
  <1> QED
    BY <1>1, <1>2, <1>4, <1>5, <1>6, <1>7 DEF IInv

\* A thread gives a connection back.
LEMMA GiveStep ==
    ASSUME IInv, NEW t \in Threads, Release(t)
    PROVE  /\ IInv'
           /\ \E c \in held[t] : /\ available' = Append(available, c)
                                 /\ Queued' = Queued \cup {c}
                                 /\ held' = [held EXCEPT ![t] = @ \ {c}]
  <1>0. TypeOK /\ QueueOnce /\ HeldOnce /\ Room
    BY DEF IInv
  <1>1. PICK c \in held[t] : /\ available' = Append(available, c)
                             /\ held' = [held EXCEPT ![t] = @ \ {c}]
    BY DEF Release
  <1>2. pc[t] = "run" /\ pc' = [pc EXCEPT ![t] = "notify"]
    BY DEF Release
  <1>3. c \in Conns /\ c \notin Queued
    BY <1>0 DEF TypeOK, HeldOnce
  <1>4. Queued' = Queued \cup {c} /\ QueueOnce'
    BY <1>0, <1>1, <1>3, QueuedAppend DEF TypeOK
  <1>5. \A s \in Threads : /\ held'[s] = IF s = t THEN held[t] \ {c} ELSE held[s]
                           /\ pc'[s] = IF s = t THEN "notify" ELSE pc[s]
    BY <1>0, <1>1, <1>2 DEF TypeOK
  <1>6. TypeOK'
    BY <1>0, <1>1, <1>2, <1>3 DEF TypeOK
  <1>7. HeldOnce'
    BY <1>0, <1>1, <1>4, <1>5 DEF HeldOnce
  <1>8. Room'
    <2> SUFFICES ASSUME NEW s \in Threads
                 PROVE  /\ Cardinality(held'[s]) <= MaxHeld
                        /\ pc'[s] \in {"acquire", "asleep"} =>
                              Cardinality(held'[s]) < MaxHeld
      BY DEF Room
    <2>1. Cardinality(held'[s]) <= Cardinality(held[s]) /\ Cardinality(held'[s]) \in Nat
      <3>1. held'[s] \in SUBSET held[s]
        BY <1>5
      <3> QED
        BY <1>0, <1>6, <3>1, Counts, FS_Subset, FS_CardinalityType
    <2>2. Cardinality(held[s]) \in Nat
      BY <1>0, Counts
    <2> QED
      BY <1>0, <1>5, <2>1, <2>2, PoolAssumption DEF Room
  <1> QED
    BY <1>1, <1>4, <1>6, <1>7, <1>8 DEF IInv

\* The other steps move no connection.
LEMMA OtherStep ==
    ASSUME IInv, [Next]_vars, UNCHANGED <<available, held>>
    PROVE  IInv' /\ Queued' = Queued
  <1>0. TypeOK /\ QueueOnce /\ HeldOnce /\ Room
    BY DEF IInv
  <1>1. Queued' = Queued
    BY DEF Queued
  <1>2. QueueOnce' /\ HeldOnce'
    BY <1>0, <1>1 DEF QueueOnce, HeldOnce
  <1>3. TypeOK' /\ Room'
    <2>1. CASE UNCHANGED vars
      BY <1>0, <2>1 DEF vars, TypeOK, Room
    <2>2. ASSUME NEW t \in Threads, Call(t) PROVE TypeOK' /\ Room'
      BY <1>0, <2>2 DEF Call, TypeOK, Room
    <2>3. ASSUME NEW t \in Threads, SpuriousWakeup(t) PROVE TypeOK' /\ Room'
      BY <1>0, <2>3 DEF SpuriousWakeup, TypeOK, Room
    <2>4. ASSUME NEW t \in Threads, Acquire(t), available = <<>>
          PROVE  TypeOK' /\ Room'
      BY <1>0, <2>4 DEF Acquire, TypeOK, Room
    <2>5. ASSUME NEW t \in Threads, Acquire(t), available # <<>> PROVE FALSE
      <3>1. Len(Tail(available)) # Len(available)
        BY <1>0, <2>5 DEF TypeOK
      <3> QED
        BY <2>5, <3>1 DEF Acquire
    <2>6. ASSUME NEW t \in Threads, Release(t) PROVE FALSE
      <3>1. PICK c \in held[t] : available' = Append(available, c)
        BY <2>6 DEF Release
      <3>2. Len(Append(available, c)) # Len(available)
        BY <1>0, <3>1 DEF TypeOK
      <3> QED
        BY <3>1, <3>2
    <2>7. ASSUME NEW t \in Threads, Notify(t) PROVE TypeOK' /\ Room'
      <3>1. CASE pc' = [pc EXCEPT ![t] = "run"]
        BY <1>0, <3>1 DEF TypeOK, Room
      <3>2. ASSUME NEW s \in Threads, pc[s] = "asleep",
                   pc' = [pc EXCEPT ![t] = "run", ![s] = "acquire"]
            PROVE  TypeOK' /\ Room'
        BY <1>0, <3>2 DEF TypeOK, Room
      <3> QED
        BY <2>7, <3>1, <3>2 DEF Notify
    <2> QED
      BY <2>1, <2>2, <2>3, <2>4, <2>5, <2>6, <2>7 DEF Next, Step
  <1> QED
    BY <1>1, <1>2, <1>3 DEF IInv

LEMMA NextIInv ==
    ASSUME IInv, [Next]_vars
    PROVE  IInv'
  <1>1. CASE UNCHANGED <<available, held>>
    BY <1>1, OtherStep
  <1>2. ASSUME NEW t \in Threads, Acquire(t), available # <<>> PROVE IInv'
    BY <1>2, TakeStep
  <1>3. ASSUME NEW t \in Threads, Release(t) PROVE IInv'
    BY <1>3, GiveStep
  <1>4. ASSUME ~ UNCHANGED <<available, held>>
        PROVE  \E t \in Threads : \/ Acquire(t) /\ available # <<>>
                                  \/ Release(t)
    BY <1>4 DEF Next, Step, vars, Call, Acquire, SpuriousWakeup, Notify
  <1> QED
    BY <1>1, <1>2, <1>3, <1>4

THEOREM PoolInvariant == Spec => []IInv
  <1>1. Init => IInv
    BY InitIInv
  <1>2. IInv /\ [Next]_vars => IInv'
    BY NextIInv
  <1> QED
    BY <1>1, <1>2, PTL DEF Spec

\* Every reachable state of the pool is well typed.
THEOREM TypeCorrect == Spec => []TypeOK
  <1>1. IInv => TypeOK
    BY DEF IInv
  <1> QED
    BY <1>1, PoolInvariant, PTL

-----------------------------------------------------------------------------
(* The queue under its mutex implements the abstract pool.                 *)

LEMMA SameCardinality == \A S : Pool!Cardinality(S) = Cardinality(S)
  BY DEF Pool!Cardinality, Cardinality

LEMMA StepImplements ==
    ASSUME IInv, [Next]_vars
    PROVE  [Pool!Next]_<<Queued, held>>
  <1>1. CASE UNCHANGED <<available, held>>
    BY <1>1, OtherStep
  <1>2. ASSUME NEW t \in Threads, Acquire(t), available # <<>>
        PROVE  Pool!Next
    BY <1>2, TakeStep, SameCardinality DEF Pool!Next, Pool!Take
  <1>3. ASSUME NEW t \in Threads, Release(t) PROVE Pool!Next
    BY <1>3, GiveStep DEF Pool!Next, Pool!Give
  <1>4. ASSUME ~ UNCHANGED <<available, held>>
        PROVE  \E t \in Threads : \/ Acquire(t) /\ available # <<>>
                                  \/ Release(t)
    BY <1>4 DEF Next, Step, vars, Call, Acquire, SpuriousWakeup, Notify
  <1> QED
    BY <1>1, <1>2, <1>3, <1>4

\* No connection is lost, or handed to two threads, whatever the threads do.
THEOREM Implements == Spec => ImplementsConnPool
  <1>1. Init => Pool!Init
    BY InitIInv DEF Pool!Init, Init
  <1>2. IInv /\ [Next]_vars => [Pool!Next]_<<Queued, held>>
    BY StepImplements
  <1> QED
    BY <1>1, <1>2, PoolInvariant, PTL DEF Spec, ImplementsConnPool, Pool!Spec

-----------------------------------------------------------------------------
(* No wakeup is lost: the invariant is inductive once the types are known. *)

Awake == {t \in Threads : pc[t] \in {"acquire", "notify"}}

LEMMA AwakeFinite == IsFiniteSet(Awake) /\ Cardinality(Awake) \in Nat
  BY PoolAssumption, FS_Subset, FS_CardinalityType DEF Awake

\* A step that takes only t out of Awake leaves at most one thread less there.
LEMMA AwakeLoses ==
    ASSUME NEW t \in Threads, NEW S, S \subseteq Threads, Awake \ {t} \subseteq S
    PROVE  /\ Cardinality(S) \in Nat
           /\ Cardinality(S) >= Cardinality(Awake) - 1
  <1>1. IsFiniteSet(S) /\ Cardinality(S) \in Nat
    BY PoolAssumption, FS_Subset, FS_CardinalityType
  <1>2. Cardinality(Awake \ {t}) <= Cardinality(S)
    BY <1>1, FS_Subset
  <1>3. /\ IsFiniteSet(Awake \ {t})
        /\ Cardinality(Awake \ {t}) =
              IF t \in Awake THEN Cardinality(Awake) - 1 ELSE Cardinality(Awake)
    BY AwakeFinite, FS_RemoveElement, Zenon
  <1>4. Cardinality(Awake \ {t}) \in Nat
    BY <1>3, FS_CardinalityType, Zenon
  <1> QED
    BY <1>1, <1>2, <1>3, <1>4, AwakeFinite

\* A step that puts a new thread into Awake and leaves the others there.
LEMMA AwakeGains ==
    ASSUME NEW t \in Threads, t \notin Awake,
           NEW S, S \subseteq Threads, Awake \cup {t} \subseteq S
    PROVE  /\ Cardinality(S) \in Nat
           /\ Cardinality(S) >= Cardinality(Awake) + 1
  <1>1. IsFiniteSet(S) /\ Cardinality(S) \in Nat
    BY PoolAssumption, FS_Subset, FS_CardinalityType
  <1>2. Cardinality(Awake \cup {t}) <= Cardinality(S)
    BY <1>1, FS_Subset
  <1>3. Cardinality(Awake \cup {t}) = Cardinality(Awake) + 1
    BY AwakeFinite, FS_AddElement
  <1> QED
    BY <1>1, <1>2, <1>3, AwakeFinite

Sleepers == \E t \in Threads : pc[t] = "asleep"

LEMMA WakeupStep ==
    ASSUME TypeOK, NoLostWakeup, [Next]_vars
    PROVE  NoLostWakeup'
  <1>1. NoLostWakeup <=> (Sleepers => Len(available) <= Cardinality(Awake))
    BY DEF NoLostWakeup, Awake, Sleepers
  <1>2. NoLostWakeup' <=> (Sleepers' => Len(available') <= Cardinality(Awake'))
    BY DEF NoLostWakeup, Awake, Sleepers
  <1>3. Len(available) \in Nat
    BY DEF TypeOK
  <1>4. Awake' \subseteq Threads
    BY DEF Awake
  <1>5. SUFFICES ASSUME Sleepers' PROVE Len(available') <= Cardinality(Awake')
    BY <1>2
  <1>6. CASE UNCHANGED vars
    BY <1>2, <1>5, <1>6 DEF vars, NoLostWakeup, Awake, Sleepers
  <1>7. ASSUME NEW t \in Threads, Call(t)
        PROVE  Len(available') <= Cardinality(Awake')
    <2>1. Awake \cup {t} \subseteq Awake' /\ t \notin Awake /\ available' = available
      BY <1>7 DEF Call, TypeOK, Awake
    <2>2. Sleepers
      BY <1>5, <1>7 DEF Call, TypeOK, Sleepers
    <2> QED
      BY <1>1, <1>3, <1>4, <2>1, <2>2, AwakeGains, AwakeFinite
  <1>8. ASSUME NEW t \in Threads, Acquire(t), available = <<>>
        PROVE  Len(available') <= Cardinality(Awake')
    <2>1. Awake \ {t} \subseteq Awake' /\ available' = <<>>
      BY <1>8 DEF Acquire, TypeOK, Awake
    <2>2. Cardinality(Awake') \in Nat
      BY <1>4, <2>1, AwakeLoses, Zenon
    <2> QED
      BY <2>1, <2>2
  <1>9. ASSUME NEW t \in Threads, Acquire(t), available # <<>>
        PROVE  Len(available') <= Cardinality(Awake')
    <2>1. Awake \ {t} \subseteq Awake' /\ Len(available') = Len(available) - 1
      BY <1>9 DEF Acquire, TypeOK, Awake
    <2>2. Sleepers
      BY <1>5, <1>9 DEF Acquire, TypeOK, Sleepers
    <2>3. /\ Cardinality(Awake') \in Nat
          /\ Cardinality(Awake') >= Cardinality(Awake) - 1
      BY <1>4, <2>1, AwakeLoses, Zenon
    <2> QED
      BY <1>1, <1>3, <2>1, <2>2, <2>3, AwakeFinite
  <1>10. ASSUME NEW t \in Threads, SpuriousWakeup(t)
         PROVE  Len(available') <= Cardinality(Awake')
    <2>1. Awake \cup {t} \subseteq Awake' /\ t \notin Awake /\ available' = available
      BY <1>10 DEF SpuriousWakeup, TypeOK, Awake
    <2>2. Sleepers
      BY <1>10 DEF SpuriousWakeup, Sleepers
    <2> QED
      BY <1>1, <1>3, <1>4, <2>1, <2>2, AwakeGains, AwakeFinite
  <1>11. ASSUME NEW t \in Threads, Release(t)
         PROVE  Len(available') <= Cardinality(Awake')
    <2>1. Awake \cup {t} \subseteq Awake' /\ t \notin Awake
      BY <1>11 DEF Release, TypeOK, Awake
    <2>2. Len(available') = Len(available) + 1
      BY <1>11 DEF Release, TypeOK, Awake
    <2>3. Sleepers
      BY <1>5, <1>11 DEF Release, TypeOK, Sleepers
    <2> QED
      BY <1>1, <1>3, <1>4, <2>1, <2>2, <2>3, AwakeGains, AwakeFinite
  <1>12. ASSUME NEW t \in Threads, Notify(t)
         PROVE  Len(available') <= Cardinality(Awake')
    <2>1. pc[t] = "notify" /\ available' = available
      BY <1>12 DEF Notify
    <2>2. CASE /\ \A s \in Threads : pc[s] # "asleep"
               /\ pc' = [pc EXCEPT ![t] = "run"]
      BY <1>5, <2>2 DEF TypeOK, Sleepers
    <2>3. ASSUME NEW s \in Threads, pc[s] = "asleep",
                 pc' = [pc EXCEPT ![t] = "run", ![s] = "acquire"]
          PROVE  Len(available') <= Cardinality(Awake')
      <3>1. Sleepers /\ s \notin Awake
        BY <2>3 DEF Awake, Sleepers
      <3>2. Awake' = (Awake \ {t}) \cup {s}
        BY <2>1, <2>3 DEF TypeOK, Awake
      <3>3. t \in Awake /\ s \notin Awake \ {t}
        BY <2>1, <3>1 DEF Awake
      <3>4. /\ IsFiniteSet(Awake \ {t})
            /\ Cardinality(Awake \ {t}) = Cardinality(Awake) - 1
        BY <3>3, AwakeFinite, FS_RemoveElement
      <3>5. Cardinality((Awake \ {t}) \cup {s}) =
              IF s \in Awake \ {t} THEN Cardinality(Awake \ {t})
                                  ELSE Cardinality(Awake \ {t}) + 1
        BY <3>4, FS_AddElement, Zenon
      <3> QED
        BY <1>1, <1>3, <2>1, <3>1, <3>2, <3>3, <3>4, <3>5, AwakeFinite
    <2> QED
      BY <1>12, <2>2, <2>3 DEF Notify
  <1> QED
    BY <1>6, <1>7, <1>8, <1>9, <1>10, <1>11, <1>12 DEF Next, Step

\* Notifying after the mutex is released loses no wakeup, however the steps of
\* the threads interleave and whenever a wait returns by itself.
THEOREM WakeupsArrive == Spec => []NoLostWakeup
  <1>1. Init => NoLostWakeup
    BY DEF Init, NoLostWakeup
  <1>2. TypeOK /\ NoLostWakeup /\ [Next]_vars => NoLostWakeup'
    BY WakeupStep
  <1> QED
    BY <1>1, <1>2, TypeCorrect, PTL DEF Spec

-----------------------------------------------------------------------------
(* A pool with a connection for every thread never makes a request wait.   *)

\* A thread that holds at most one connection holds no two.
LEMMA AtMostOne ==
    ASSUME NEW S, IsFiniteSet(S), Cardinality(S) <= 1, NEW c \in S, NEW d \in S
    PROVE  c = d
  <1>1. Cardinality(S) \in Nat /\ Cardinality(S) # 0
    BY FS_EmptySet, FS_CardinalityType
  <1>2. Cardinality(S) = 1
    BY <1>1
  <1>3. PICK x : S = {x}
    BY <1>2, FS_Singleton, Zenon
  <1> QED
    BY <1>3

LEMMA HoldersOfAll ==
    ASSUME IInv
    PROVE  WaitsOnlyForHolders
  <1> SUFFICES ASSUME MaxHeld = 1,
                      NEW t \in Threads, pc[t] = "acquire", available = <<>>,
                      ~ Cardinality({s \in Threads \ {t} : held[s] # {}})
                            >= Cardinality(Conns)
               PROVE  FALSE
    BY DEF WaitsOnlyForHolders
  <1>0. TypeOK /\ HeldOnce /\ Room
    BY DEF IInv
  <1>1. Queued = {}
    BY DEF Queued
  <1>2. ASSUME NEW s \in Threads
        PROVE  /\ IsFiniteSet(held[s])
               /\ Cardinality(held[s]) \in Nat
               /\ Cardinality(held[s]) <= 1
    <2>1. held[s] \subseteq Conns
      BY <1>0 DEF TypeOK
    <2> QED
      BY <1>0, <2>1, PoolAssumption, FS_Subset, FS_CardinalityType DEF Room
  <1>3. held[t] = {}
    <2>1. Cardinality(held[t]) < 1
      BY <1>0 DEF Room
    <2>2. Cardinality(held[t]) = 0
      BY <1>2, <2>1
    <2> QED
      BY <1>2, <2>2, FS_EmptySet
  <1> DEFINE Others == {s \in Threads \ {t} : held[s] # {}}
             holder == [c \in Conns |-> CHOOSE s \in Threads : c \in held[s]]
  <1>4. ASSUME NEW c \in Conns PROVE holder[c] \in Others /\ c \in held[holder[c]]
    <2>1. \E s \in Threads : c \in held[s]
      BY <1>0, <1>1 DEF HeldOnce
    <2>2. holder[c] \in Threads /\ c \in held[holder[c]]
      BY <2>1
    <2> QED
      BY <1>3, <2>2
  <1>5. IsFiniteSet(Others) /\ Cardinality(Others) \in Nat
    <2>1. Others \subseteq Threads
      OBVIOUS
    <2> QED
      BY <2>1, PoolAssumption, FS_Subset, FS_CardinalityType
  <1>6. Cardinality(Conns) \in Nat
    BY PoolAssumption, FS_CardinalityType
  <1>7. holder \in [Conns -> Others]
    BY <1>4
  <1>8. Cardinality(Others) < Cardinality(Conns)
    <2>1. ~ Cardinality(Others) >= Cardinality(Conns)
      OBVIOUS
    <2> HIDE DEF Others
    <2> QED
      BY <2>1, <1>5, <1>6
  <1> HIDE DEF Others
  <1> HIDE DEF holder
  <1>9. PICK c \in Conns, d \in Conns : c # d /\ holder[c] = holder[d]
    <2>1. IsFiniteSet(Conns)
      BY PoolAssumption
    <2>2. IsFiniteSet(Others)
      BY <1>5
    <2>3. \E x, y \in Conns : x # y /\ holder[x] = holder[y]
      BY <1>7, <1>8, <2>1, <2>2, FS_PigeonHole
    <2> QED
      BY <2>3
  <1>10. holder[c] \in Threads
    BY <1>4 DEF Others
  <1> QED
    BY <1>2, <1>4, <1>9, <1>10, AtMostOne

\* With one guard at a time, whoever finds the queue empty waits for other
\* threads that hold every connection: release loses none.
THEOREM NobodyWaitsForNothing == Spec => []WaitsOnlyForHolders
  <1>1. IInv => WaitsOnlyForHolders
    BY HoldersOfAll
  <1> QED
    BY <1>1, PoolInvariant, PTL

\* With one guard at a time and at least one connection, the threads never all
\* wait for each other: whoever waits holds nothing.
THEOREM OneGuardNeverBlocks ==
    ASSUME MaxHeld = 1, Conns # {}
    PROVE  Spec => []NotAllWaiting
  <1>1. ASSUME IInv, available = <<>>,
               \A t \in Threads : pc[t] \notin {"run", "notify"}
        PROVE  FALSE
    <2>0. TypeOK /\ HeldOnce /\ Room
      BY <1>1 DEF IInv
    <2>1. PICK c \in Conns : TRUE
      OBVIOUS
    <2>2. c \notin Queued
      BY <1>1 DEF Queued
    <2>3. PICK t \in Threads : c \in held[t]
      BY <2>0, <2>2 DEF HeldOnce
    <2>4. pc[t] \in {"acquire", "asleep"}
      BY <1>1, <2>0 DEF TypeOK
    <2>5. IsFiniteSet(held[t]) /\ Cardinality(held[t]) < 1
      BY <2>0, <2>4, PoolAssumption, FS_Subset DEF TypeOK, Room
    <2>6. held[t] = {}
      BY <2>5, FS_CardinalityType, FS_EmptySet
    <2> QED
      BY <2>3, <2>6
  <1>2. IInv => NotAllWaiting
    BY <1>1 DEF NotAllWaiting
  <1> QED
    BY <1>2, PoolInvariant, PTL

NeverWaits == \A t \in Threads : pc[t] = "acquire" => available # <<>>

\* With at least as many connections as threads and one guard at a time, as
\* main sets the server up, acquire finds a connection whenever it looks.
THEOREM SizedPoolNeverWaits ==
    ASSUME MaxHeld = 1, Cardinality(Threads) <= Cardinality(Conns)
    PROVE  Spec => []NeverWaits
  <1>1. ASSUME WaitsOnlyForHolders, NEW t \in Threads, pc[t] = "acquire",
               available = <<>>
        PROVE  FALSE
    <2> DEFINE H == {s \in Threads \ {t} : held[s] # {}}
    <2>1. Cardinality(H) >= Cardinality(Conns)
      BY <1>1 DEF WaitsOnlyForHolders
    <2>2. /\ IsFiniteSet(Threads \ {t})
          /\ Cardinality(Threads \ {t}) = Cardinality(Threads) - 1
      BY PoolAssumption, FS_RemoveElement
    <2>3. H \subseteq Threads \ {t}
      OBVIOUS
    <2>4. IsFiniteSet(H) /\ Cardinality(H) <= Cardinality(Threads \ {t})
      BY <2>2, <2>3, FS_Subset
    <2>5. /\ Cardinality(H) \in Nat /\ Cardinality(Threads) \in Nat
          /\ Cardinality(Conns) \in Nat
      BY <2>4, PoolAssumption, FS_CardinalityType
    <2> HIDE DEF H
    <2> QED
      BY <2>1, <2>2, <2>4, <2>5
  <1>2. WaitsOnlyForHolders => NeverWaits
    BY <1>1 DEF NeverWaits
  <1> QED
    BY <1>2, NobodyWaitsForNothing, PTL
=============================================================================

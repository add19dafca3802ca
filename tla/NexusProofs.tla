----------------------------- MODULE NexusProofs -----------------------------
(***************************************************************************)
(* The thread pool for every number of workers: it implements the abstract *)
(* queue of jobs, it loses no wakeup, and when it is destroyed nothing is  *)
(* left undone.                                                            *)
(***************************************************************************)
EXTENDS Nexus, FiniteSetTheorems, TLAPS

\* The queue holds the last Len(tasks) tasks enqueued, in order.
InOrder ==
    /\ Len(tasks) <= count
    /\ \A i \in 1..Len(tasks) : tasks[i] = count - Len(tasks) + i

\* Every busy worker has a task of its own that left the queue before.
OwnTasks ==
    /\ \A w \in Workers : worker[w] = "busy" => task[w] \in 1..(count - Len(tasks))
    /\ \A v, w \in Workers :
          worker[v] = "busy" /\ worker[w] = "busy" /\ task[v] = task[w] => v = w

\* Workers leave once the destructor has stopped the pool and the queue is
\* empty, and the destructor waits for them.
Stopping ==
    /\ isRunning <=> caller \in {"run", "notify"}
    /\ \A w \in Workers : worker[w] = "exit" => ~ isRunning /\ tasks = <<>>
    /\ caller = "destroyed" => ~ isRunning /\ \A w \in Workers : worker[w] = "exit"

IInv == /\ TypeOK
        /\ InOrder
        /\ OwnTasks
        /\ Stopping

-----------------------------------------------------------------------------
\* The queue after its first task has been taken from it.
LEMMA TailOfTasks ==
    ASSUME tasks \in Seq(Nat), tasks # <<>>
    PROVE  /\ Len(tasks) \in Nat \ {0}
           /\ Head(tasks) = tasks[1]
           /\ Tail(tasks) \in Seq(Nat)
           /\ Len(Tail(tasks)) = Len(tasks) - 1
           /\ \A i \in 1..(Len(tasks) - 1) : Tail(tasks)[i] = tasks[i + 1]
  OBVIOUS

LEMMA TasksLength == \A s \in Seq(Nat) : Len(s) \in Nat
  OBVIOUS

LEMMA InitIInv == Init => IInv
  BY DEF Init, IInv, TypeOK, InOrder, OwnTasks, Stopping

\* The steps that leave the queue and the tasks of the workers alone.
LEMMA OtherStep ==
    ASSUME IInv, [Next]_vars, UNCHANGED <<tasks, count, task>>
    PROVE  IInv' /\ Busy' = Busy
  <1>0. TypeOK /\ InOrder /\ OwnTasks /\ Stopping
    BY DEF IInv
  <1>1. InOrder'
    BY <1>0 DEF InOrder
  <1>2. ASSUME /\ TypeOK' /\ Stopping'
               /\ \A w \in Workers : worker'[w] = "busy" <=> worker[w] = "busy"
        PROVE  IInv' /\ Busy' = Busy
    BY <1>0, <1>1, <1>2 DEF OwnTasks, Busy, IInv
  <1>3. CASE UNCHANGED vars
    BY <1>0, <1>2, <1>3 DEF vars, TypeOK, Stopping
  <1>4. CASE Enqueue
    <2>1. count \in Nat /\ count' = count + 1
      BY <1>0, <1>4 DEF Enqueue, TypeOK
    <2>2. count' # count
      BY <2>1
    <2> QED
      BY <2>2
  <1>5. CASE NotifyOne
    BY <1>0, <1>2, <1>5 DEF NotifyOne, Asleep, TypeOK, Stopping
  <1>6. CASE Stop
    BY <1>0, <1>2, <1>6 DEF Stop, TypeOK, Stopping
  <1>7. CASE NotifyAll
    BY <1>0, <1>2, <1>7 DEF NotifyAll, Asleep, TypeOK, Stopping
  <1>8. CASE Join
    BY <1>0, <1>2, <1>8 DEF Join, TypeOK, Stopping
  <1>9. ASSUME NEW w \in Workers, Take(w) PROVE FALSE
    <2>1. tasks \in Seq(Nat) /\ tasks # <<>> /\ tasks' = Tail(tasks)
      BY <1>0, <1>9 DEF Take, TypeOK
    <2>2. Len(Tail(tasks)) # Len(tasks)
      BY <2>1, TailOfTasks
    <2> QED
      BY <2>1, <2>2
  <1>10. ASSUME NEW w \in Workers, Sleep(w) \/ Exit(w) \/ SpuriousWakeup(w)
         PROVE  IInv' /\ Busy' = Busy
    BY <1>0, <1>2, <1>10 DEF Sleep, Exit, SpuriousWakeup, TypeOK, Stopping
  <1>11. ASSUME NEW w \in Workers, Finish(w) PROVE FALSE
    <2>1. task[w] \in 1..(count - Len(tasks))
      BY <1>0, <1>11 DEF OwnTasks, Finish
    <2>2. task'[w] = 0
      BY <1>0, <1>11 DEF Finish, TypeOK
    <2>3. Len(tasks) \in Nat /\ count \in Nat
      BY <1>0, TasksLength DEF TypeOK
    <2>4. task'[w] = task[w]
      OBVIOUS
    <2> QED
      BY <2>1, <2>2, <2>3, <2>4
  <1> QED
    BY <1>3, <1>4, <1>5, <1>6, <1>7, <1>8, <1>9, <1>10, <1>11 DEF Next, Step

LEMMA EnqueueStep ==
    ASSUME IInv, Enqueue
    PROVE  IInv' /\ Queue!Submit
  <1>0. TypeOK /\ InOrder /\ OwnTasks /\ Stopping
    BY DEF IInv
  <1>1. /\ tasks \in Seq(Nat) /\ count \in Nat /\ Len(tasks) \in Nat
        /\ tasks' = Append(tasks, count + 1)
        /\ count' = count + 1
        /\ caller = "run" /\ caller' = "notify"
        /\ UNCHANGED <<isRunning, worker, task>>
    BY <1>0 DEF Enqueue, TypeOK
  <1>2. /\ Len(tasks') = Len(tasks) + 1
        /\ tasks' \in Seq(Nat)
        /\ \A i \in 1..Len(tasks) : tasks'[i] = tasks[i]
        /\ tasks'[Len(tasks) + 1] = count + 1
    BY <1>1
  <1>3. TypeOK'
    BY <1>0, <1>1, <1>2 DEF TypeOK
  <1>4. InOrder'
    BY <1>0, <1>1, <1>2 DEF InOrder
  <1>5. count' - Len(tasks') = count - Len(tasks)
    BY <1>1, <1>2
  <1>6. OwnTasks'
    BY <1>0, <1>1, <1>5 DEF OwnTasks
  <1>7. Stopping'
    BY <1>0, <1>1 DEF Stopping
  <1>8. Queue!Submit
    BY <1>1, <1>5 DEF Queue!Submit, Busy
  <1> QED
    BY <1>3, <1>4, <1>6, <1>7, <1>8 DEF IInv

LEMMA TakeStep ==
    ASSUME IInv, NEW w \in Workers, Take(w)
    PROVE  IInv' /\ Queue!Start
  <1>0. TypeOK /\ InOrder /\ OwnTasks /\ Stopping
    BY DEF IInv
  <1>1. /\ tasks \in Seq(Nat) /\ count \in Nat
        /\ Len(tasks) \in Nat \ {0}
        /\ tasks' = Tail(tasks)
        /\ task' = [task EXCEPT ![w] = Head(tasks)]
        /\ worker' = [worker EXCEPT ![w] = "busy"]
        /\ worker[w] = "test" /\ tasks # <<>>
        /\ UNCHANGED <<count, isRunning, caller>>
    BY <1>0, TailOfTasks DEF Take, TypeOK
  <1> DEFINE first == count - Len(tasks) + 1
  <1>2. /\ tasks' \in Seq(Nat)
        /\ Len(tasks') = Len(tasks) - 1
        /\ \A i \in 1..(Len(tasks) - 1) : tasks'[i] = tasks[i + 1]
        /\ Head(tasks) = tasks[1]
    BY <1>1, TailOfTasks
  <1>3. Head(tasks) = first /\ first \in Nat
    BY <1>0, <1>1, <1>2 DEF InOrder
  <1>4. TypeOK'
    BY <1>0, <1>1, <1>2, <1>3 DEF TypeOK
  <1>5. InOrder'
    <2>1. \A i \in 1..Len(tasks') : tasks[i + 1] = count - Len(tasks) + (i + 1)
      BY <1>0, <1>1, <1>2 DEF InOrder
    <2> QED
      BY <1>0, <1>1, <1>2, <2>1 DEF InOrder
  <1>6. count' - Len(tasks') = first
    BY <1>1, <1>2
  <1>7. /\ task'[w] = first /\ worker'[w] = "busy"
        /\ \A v \in Workers \ {w} : task'[v] = task[v] /\ worker'[v] = worker[v]
    BY <1>0, <1>1, <1>3 DEF TypeOK
  <1>8. OwnTasks'
    <2>1. first \in 1..first /\ 1..(count - Len(tasks)) \subseteq 1..first
      BY <1>0, <1>1 DEF InOrder
    <2>2. first \notin 1..(count - Len(tasks))
      BY <1>1
    <2>3. \A v \in Workers : worker'[v] = "busy" => task'[v] \in 1..first
      BY <1>0, <1>7, <2>1 DEF OwnTasks
    <2>4. ASSUME NEW u \in Workers, NEW v \in Workers,
                 worker'[u] = "busy", worker'[v] = "busy", task'[u] = task'[v]
          PROVE  u = v
      BY <1>0, <1>7, <2>2, <2>4 DEF OwnTasks
    <2> QED
      BY <1>6, <2>3, <2>4 DEF OwnTasks
  <1>9. Stopping'
    BY <1>0, <1>1, <1>7 DEF Stopping, TypeOK
  <1>10. {task'[v] : v \in Busy'} = {task[v] : v \in Busy} \cup {first}
    <2>1. Busy' = Busy \cup {w} /\ w \notin Busy
      BY <1>1, <1>7 DEF Busy
    <2>2. \A v \in Busy : v \in Workers \ {w}
      BY <2>1 DEF Busy
    <2> HIDE DEF first
    <2> QED
      BY <1>7, <2>1, <2>2
  <1>11. Queue!Start
    <2>1. count - Len(tasks) < count
      BY <1>1
    <2>2. UNCHANGED count
      BY <1>1
    <2> QED
      BY <1>6, <1>10, <2>1, <2>2 DEF Queue!Start
  <1> QED
    BY <1>4, <1>5, <1>8, <1>9, <1>11 DEF IInv

LEMMA FinishStep ==
    ASSUME IInv, NEW w \in Workers, Finish(w)
    PROVE  IInv' /\ Queue!End
  <1>0. TypeOK /\ InOrder /\ OwnTasks /\ Stopping
    BY DEF IInv
  <1>1. /\ worker[w] = "busy" /\ worker'[w] = "test" /\ task'[w] = 0
        /\ \A v \in Workers \ {w} : task'[v] = task[v] /\ worker'[v] = worker[v]
        /\ UNCHANGED <<tasks, count, isRunning, caller>>
    BY <1>0 DEF Finish, TypeOK
  <1>2. TypeOK'
    BY <1>0 DEF Finish, TypeOK
  <1>3. InOrder' /\ OwnTasks' /\ Stopping'
    BY <1>0, <1>1 DEF InOrder, OwnTasks, Stopping
  <1>4. {task'[v] : v \in Busy'} = {task[v] : v \in Busy} \ {task[w]}
    <2>1. Busy' = Busy \ {w} /\ w \in Busy
      BY <1>1 DEF Busy
    <2>2. \A v \in Busy \ {w} : task'[v] = task[v] /\ task[v] # task[w]
      BY <1>0, <1>1, <2>1 DEF OwnTasks, Busy
    <2> QED
      BY <2>1, <2>2
  <1>5. task[w] \in {task[v] : v \in Busy}
    BY <1>1 DEF Busy
  <1>6. Queue!End
    BY <1>1, <1>4, <1>5 DEF Queue!End
  <1> QED
    BY <1>2, <1>3, <1>6 DEF IInv

\* Every step keeps the invariant and is a step of the abstract queue, or none.
LEMMA NextStep ==
    ASSUME IInv, [Next]_vars
    PROVE  /\ IInv'
           /\ [Queue!Next]_<<count, count - Len(tasks), {task[w] : w \in Busy}>>
  <1>1. CASE UNCHANGED <<tasks, count, task>>
    BY <1>1, OtherStep
  <1>2. CASE Enqueue
    BY <1>2, EnqueueStep DEF Queue!Next
  <1>3. ASSUME NEW w \in Workers, Take(w)
        PROVE  IInv' /\ Queue!Next
    BY <1>3, TakeStep DEF Queue!Next
  <1>4. ASSUME NEW w \in Workers, Finish(w)
        PROVE  IInv' /\ Queue!Next
    BY <1>4, FinishStep DEF Queue!Next
  <1>5. ASSUME ~ UNCHANGED <<tasks, count, task>>
        PROVE  Enqueue \/ \E w \in Workers : Take(w) \/ Finish(w)
    BY <1>5 DEF Next, Step, vars, NotifyOne, Stop, NotifyAll, Join, Sleep, Exit,
                SpuriousWakeup
  <1> QED
    BY <1>1, <1>2, <1>3, <1>4, <1>5

THEOREM NexusInvariant == Spec => []IInv
  <1>1. Init => IInv
    BY InitIInv
  <1>2. IInv /\ [Next]_vars => IInv'
    BY NextStep
  <1> QED
    BY <1>1, <1>2, PTL DEF Spec

\* Every reachable state of the pool is well typed.
THEOREM TypeCorrect == Spec => []TypeOK
  <1>1. IInv => TypeOK
    BY DEF IInv
  <1> QED
    BY <1>1, NexusInvariant, PTL

-----------------------------------------------------------------------------
(* No wakeup is lost: the workers on their way to the queue are counted.   *)

Testing == {w \in Workers : worker[w] = "test"}
Owed == IF caller = "notify" THEN 1 ELSE 0

LEMMA WorkersCount ==
    ASSUME NEW S \in SUBSET Workers
    PROVE  IsFiniteSet(S) /\ Cardinality(S) \in Nat
  <1>1. IsFiniteSet(S)
    BY NexusAssumption, FS_Subset
  <1> QED
    BY <1>1, FS_CardinalityType

LEMMA WakeupStep ==
    ASSUME IInv, IInv', NoLostWakeup, Next, Asleep' # {}
    PROVE  Len(tasks') <= Cardinality(Testing') + Owed'
  <1>0. /\ TypeOK /\ TypeOK' /\ Stopping
        /\ Len(tasks) \in Nat /\ Len(tasks') \in Nat
    BY TasksLength DEF IInv, TypeOK
  <1>1. /\ IsFiniteSet(Testing) /\ Cardinality(Testing) \in Nat /\ Owed \in 0..1
        /\ IsFiniteSet(Testing') /\ Cardinality(Testing') \in Nat /\ Owed' \in 0..1
    <2>1. Testing \in SUBSET Workers /\ Testing' \in SUBSET Workers
      BY DEF Testing
    <2>2. Owed \in 0..1 /\ Owed' \in 0..1
      BY DEF Owed
    <2> QED
      BY <2>1, <2>2, WorkersCount
  <1>2. Asleep # {} => Len(tasks) <= Cardinality(Testing) + Owed
    BY DEF NoLostWakeup, Testing, Owed
  <1>3. CASE tasks' = <<>>
    <2>1. Len(tasks') = 0
      BY <1>3
    <2> QED
      BY <1>1, <2>1
  <1>4. ASSUME NEW w \in Workers, worker[w] # "test", worker'[w] = "test",
               \A v \in Workers \ {w} : worker'[v] = worker[v],
               UNCHANGED tasks, Owed <= Owed' + 1
        PROVE  Len(tasks') <= Cardinality(Testing') + Owed'
    <2>1. Testing' = Testing \cup {w} /\ w \notin Testing
      BY <1>4 DEF Testing
    <2>2. Cardinality(Testing') = Cardinality(Testing) + 1
      BY <1>1, <2>1, FS_AddElement
    <2>3. Asleep # {}
      BY <1>4 DEF Asleep
    <2> QED
      BY <1>0, <1>1, <1>2, <1>4, <2>2, <2>3
  <1>5. CASE Enqueue
    <2>1. Testing' = Testing /\ Asleep' = Asleep
      BY <1>5 DEF Enqueue, Testing, Asleep
    <2>2. Owed = 0 /\ Owed' = 1
      BY <1>5 DEF Enqueue, Owed
    <2>3. Len(tasks') = Len(tasks) + 1
      BY <1>0, <1>5 DEF Enqueue, TypeOK
    <2> QED
      BY <1>0, <1>1, <1>2, <2>1, <2>2, <2>3
  <1>6. CASE NotifyOne
    <2>1. PICK w \in Asleep : worker' = [worker EXCEPT ![w] = "test"]
      BY <1>6 DEF NotifyOne, Asleep
    <2>2. /\ w \in Workers /\ worker[w] # "test" /\ worker'[w] = "test"
          /\ \A v \in Workers \ {w} : worker'[v] = worker[v]
      BY <1>0, <2>1 DEF Asleep, TypeOK
    <2>3. UNCHANGED tasks /\ caller' = "run"
      BY <1>6 DEF NotifyOne
    <2>4. Owed <= Owed' + 1
      BY <2>3 DEF Owed
    <2> QED
      BY <1>4, <2>2, <2>3, <2>4
  <1>7. CASE Stop \/ Join
    <2>1. Testing' = Testing /\ Asleep' = Asleep /\ UNCHANGED tasks
      BY <1>7 DEF Stop, Join, Testing, Asleep
    <2>2. Owed = 0 /\ Owed' = 0
      BY <1>7 DEF Stop, Join, Owed
    <2> QED
      BY <1>2, <2>1, <2>2
  <1>8. ASSUME NotifyAll PROVE FALSE
    BY <1>0, <1>8 DEF NotifyAll, Asleep, TypeOK
  <1>9. ASSUME NEW w \in Workers, Take(w)
        PROVE  Len(tasks') <= Cardinality(Testing') + Owed'
    <2>1. /\ tasks \in Seq(Nat) /\ tasks # <<>> /\ tasks' = Tail(tasks)
          /\ worker[w] = "test" /\ worker'[w] = "busy"
          /\ \A v \in Workers \ {w} : worker'[v] = worker[v]
          /\ UNCHANGED caller
      BY <1>0, <1>9 DEF Take, TypeOK
    <2>2. Testing' = Testing \ {w} /\ w \in Testing /\ Asleep' = Asleep
      BY <2>1 DEF Testing, Asleep
    <2>3. Cardinality(Testing') = Cardinality(Testing) - 1
      BY <1>1, <2>2, FS_RemoveElement
    <2>4. Len(tasks') = Len(tasks) - 1
      BY <2>1, TailOfTasks
    <2>5. Owed' = Owed
      BY <2>1 DEF Owed
    <2> QED
      BY <1>0, <1>1, <1>2, <2>2, <2>3, <2>4, <2>5
  <1>10. ASSUME NEW w \in Workers, Sleep(w) \/ Exit(w)
         PROVE  tasks' = <<>>
    BY <1>10 DEF Sleep, Exit
  <1>11. ASSUME NEW w \in Workers, Finish(w) \/ SpuriousWakeup(w)
         PROVE  Len(tasks') <= Cardinality(Testing') + Owed'
    <2>1. /\ worker[w] # "test" /\ worker'[w] = "test"
          /\ \A v \in Workers \ {w} : worker'[v] = worker[v]
          /\ UNCHANGED <<tasks, caller>>
      BY <1>0, <1>11 DEF Finish, SpuriousWakeup, TypeOK
    <2>2. Testing' = Testing \cup {w} /\ w \notin Testing /\ Asleep' \subseteq Asleep
      BY <2>1 DEF Testing, Asleep
    <2>3. Cardinality(Testing') = Cardinality(Testing) + 1
      BY <1>1, <2>2, FS_AddElement
    <2>4. Owed' = Owed
      BY <2>1 DEF Owed
    <2> QED
      BY <1>0, <1>1, <1>2, <2>1, <2>2, <2>3, <2>4
  <1> QED
    BY <1>3, <1>5, <1>6, <1>7, <1>8, <1>9, <1>10, <1>11 DEF Next, Step

\* While a worker sleeps, no more tasks are queued than there are workers
\* awake to take them and notifications owed.
THEOREM WakeupKept == Spec => []NoLostWakeup
  <1>1. Init => NoLostWakeup
    BY DEF Init, NoLostWakeup, Asleep
  <1>2. IInv /\ IInv' /\ NoLostWakeup /\ [Next]_vars => NoLostWakeup'
    <2> SUFFICES ASSUME IInv, IInv', NoLostWakeup, [Next]_vars PROVE NoLostWakeup'
      OBVIOUS
    <2>1. CASE UNCHANGED vars
      BY <2>1 DEF vars, NoLostWakeup, Asleep
    <2>2. CASE Next
      BY <2>2, WakeupStep DEF NoLostWakeup, Testing, Owed
    <2> QED
      BY <2>1, <2>2
  <1> QED
    BY <1>1, <1>2, NexusInvariant, PTL DEF Spec

\* When the destructor returns, nothing is queued and nothing is running,
\* provided that the pool has a worker.
THEOREM Drained == Workers # {} => (Spec => []DrainedWhenDestroyed)
  <1> SUFFICES ASSUME Workers # {} PROVE Spec => []DrainedWhenDestroyed
    OBVIOUS
  <1>1. IInv => DrainedWhenDestroyed
    <2> SUFFICES ASSUME IInv, caller = "destroyed"
                 PROVE  tasks = <<>> /\ Busy = {}
      BY DEF DrainedWhenDestroyed
    <2>1. Stopping
      BY DEF IInv
    <2>2. \A w \in Workers : worker[w] = "exit" /\ tasks = <<>>
      BY <2>1 DEF Stopping
    <2> QED
      BY <2>2 DEF Busy
  <1> QED
    BY <1>1, NexusInvariant, PTL

\* Tasks are started in the order they were enqueued, each once.
THEOREM Implements == Spec => ImplementsJobs
  <1>1. Init => Queue!Init
    <2> SUFFICES ASSUME Init PROVE Queue!Init
      OBVIOUS
    <2>1. Busy = {}
      BY DEF Init, Busy
    <2>2. count = 0 /\ Len(tasks) = 0
      BY DEF Init
    <2> QED
      BY <2>1, <2>2 DEF Queue!Init
  <1>2. IInv /\ [Next]_vars =>
            [Queue!Next]_<<count, count - Len(tasks), {task[w] : w \in Busy}>>
    BY NextStep
  <1> QED
    BY <1>1, <1>2, NexusInvariant, PTL DEF Spec, ImplementsJobs, Queue!Spec
=============================================================================

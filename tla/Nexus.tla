------------------------------- MODULE Nexus --------------------------------
(***************************************************************************)
(* nexus::pool: a queue of tasks under a mutex, workers that wait on a     *)
(* condition variable, and the thread that enqueues tasks and, at the end, *)
(* destroys the pool.  A critical section is one action; both notifications*)
(* come after the mutex is released.                                       *)
(***************************************************************************)
EXTENDS Integers, Sequences, FiniteSets

CONSTANTS
    Workers,    \* the threads the constructor starts
    MaxTasks    \* bound on the tasks enqueued

ASSUME NexusAssumption ==
    /\ IsFiniteSet(Workers)
    /\ MaxTasks \in Nat

VARIABLES
    tasks,      \* the queue; a task is the number it was enqueued as
    count,      \* tasks enqueued so far
    isRunning,
    worker,     \* worker[w]: where w is in its loop
    task,       \* task[w]: the task w runs, 0 for none
    caller      \* where the thread is that owns the pool

vars == <<tasks, count, isRunning, worker, task, caller>>

Asleep == {w \in Workers : worker[w] = "asleep"}
Busy == {w \in Workers : worker[w] = "busy"}

\* A worker starts by testing the predicate of the wait.
Init == /\ tasks = <<>>
        /\ count = 0
        /\ isRunning = TRUE
        /\ worker = [w \in Workers |-> "test"]
        /\ task = [w \in Workers |-> 0]
        /\ caller = "run"

(* Names ending in "Bug" are faulty variants of the definition after them,  *)
(* used to see that the properties notice.                                 *)

\* enqueue pushes under the mutex ...
Enqueue == /\ caller = "run"
           /\ count < MaxTasks
           /\ tasks' = Append(tasks, count + 1)
           /\ count' = count + 1
           /\ caller' = "notify"
           /\ UNCHANGED <<isRunning, worker, task>>

\* notify_one is forgotten.
NotifyOneBug == /\ caller = "notify"
                /\ caller' = "run"
                /\ UNCHANGED <<tasks, count, isRunning, worker, task>>

\* ... and wakes one sleeper, if there is one, after the mutex is released.
NotifyOne == /\ caller = "notify"
             /\ \/ Asleep = {} /\ UNCHANGED worker
                \/ \E w \in Asleep : worker' = [worker EXCEPT ![w] = "test"]
             /\ caller' = "run"
             /\ UNCHANGED <<tasks, count, isRunning, task>>

\* The destructor clears isRunning under the mutex ...
Stop == /\ caller = "run"
        /\ isRunning' = FALSE
        /\ caller' = "notify all"
        /\ UNCHANGED <<tasks, count, worker, task>>

\* The destructor wakes one worker only.
NotifyAllBug == /\ caller = "notify all"
                /\ \/ Asleep = {} /\ UNCHANGED worker
                   \/ \E w \in Asleep : worker' = [worker EXCEPT ![w] = "test"]
                /\ caller' = "join"
                /\ UNCHANGED <<tasks, count, isRunning, task>>

\* ... wakes every sleeper ...
NotifyAll == /\ caller = "notify all"
             /\ worker' = [w \in Workers |->
                             IF w \in Asleep THEN "test" ELSE worker[w]]
             /\ caller' = "join"
             /\ UNCHANGED <<tasks, count, isRunning, task>>

\* ... and joins the workers.
Join == /\ caller = "join"
        /\ \A w \in Workers : worker[w] = "exit"
        /\ caller' = "destroyed"
        /\ UNCHANGED <<tasks, count, isRunning, worker, task>>

\* front() without pop().
TakeBug(w) == /\ worker[w] = "test"
              /\ tasks # <<>>
              /\ task' = [task EXCEPT ![w] = Head(tasks)]
              /\ worker' = [worker EXCEPT ![w] = "busy"]
              /\ UNCHANGED <<tasks, count, isRunning, caller>>

\* The predicate holds, and there is a task: it is run outside the mutex.
Take(w) == /\ worker[w] = "test"
           /\ tasks # <<>>
           /\ task' = [task EXCEPT ![w] = Head(tasks)]
           /\ tasks' = Tail(tasks)
           /\ worker' = [worker EXCEPT ![w] = "busy"]
           /\ UNCHANGED <<count, isRunning, caller>>

\* The predicate does not hold.
Sleep(w) == /\ worker[w] = "test"
            /\ isRunning
            /\ tasks = <<>>
            /\ worker' = [worker EXCEPT ![w] = "asleep"]
            /\ UNCHANGED <<tasks, count, isRunning, task, caller>>

\* wait may return without a notification; the predicate is tested again.
SpuriousWakeup(w) == /\ worker[w] = "asleep"
                     /\ worker' = [worker EXCEPT ![w] = "test"]
                     /\ UNCHANGED <<tasks, count, isRunning, task, caller>>

\* The worker leaves although tasks are queued.
ExitBug(w) == /\ worker[w] = "test"
              /\ ~ isRunning
              /\ worker' = [worker EXCEPT ![w] = "exit"]
              /\ UNCHANGED <<tasks, count, isRunning, task, caller>>

\* The pool is being destroyed and the queue is empty.
Exit(w) == /\ worker[w] = "test"
           /\ ~ isRunning
           /\ tasks = <<>>
           /\ worker' = [worker EXCEPT ![w] = "exit"]
           /\ UNCHANGED <<tasks, count, isRunning, task, caller>>

\* The task returns, or raises: the packaged_task keeps the exception.
Finish(w) == /\ worker[w] = "busy"
             /\ worker' = [worker EXCEPT ![w] = "test"]
             /\ task' = [task EXCEPT ![w] = 0]
             /\ UNCHANGED <<tasks, count, isRunning, caller>>

Step(w) == Take(w) \/ Sleep(w) \/ Exit(w) \/ Finish(w)

Next == \/ Enqueue \/ NotifyOne
        \/ Stop \/ NotifyAll \/ Join
        \/ \E w \in Workers : Step(w) \/ SpuriousWakeup(w)

Spec == Init /\ [][Next]_vars

\* Threads go on; every task ends; nobody has to enqueue or to destroy.
Fairness == /\ WF_vars(NotifyOne)
            /\ WF_vars(NotifyAll)
            /\ WF_vars(Join)
            /\ \A w \in Workers : WF_vars(Step(w))

FairSpec == Spec /\ Fairness

-----------------------------------------------------------------------------
\* Every variable keeps its type.
TypeOK ==
    /\ tasks \in Seq(Nat)
    /\ count \in Nat
    /\ isRunning \in BOOLEAN
    /\ worker \in [Workers -> {"test", "asleep", "busy", "exit"}]
    /\ task \in [Workers -> Nat]
    /\ caller \in {"run", "notify", "notify all", "join", "destroyed"}

\* While a worker sleeps, every queued task has a worker on its way to take it,
\* or the notification that enqueue still owes.
NoLostWakeup ==
    Asleep # {} =>
        Len(tasks) <= Cardinality({w \in Workers : worker[w] = "test"})
                        + (IF caller = "notify" THEN 1 ELSE 0)

\* When the destructor returns every task that was enqueued has been run to its
\* end: a worker leaves only when nothing is queued any more.
DrainedWhenDestroyed ==
    caller = "destroyed" => tasks = <<>> /\ Busy = {}

\* A queued task is started, whatever the other workers do.
TasksStart ==
    \A n \in 1..MaxTasks :
        (n \in {tasks[i] : i \in DOMAIN tasks})
            ~> (n \notin {tasks[i] : i \in DOMAIN tasks})

\* The destructor returns: no worker sleeps through its notification.
DestructorReturns == caller = "notify all" ~> caller = "destroyed"

Queue == INSTANCE Jobs WITH
    submitted <- count,
    started <- count - Len(tasks),
    running <- {task[w] : w \in Busy}

\* The queue and its workers start tasks in the order of the calls of enqueue,
\* each task once.
ImplementsJobs == Queue!Spec
=============================================================================

---------------------------- MODULE ServerProofs ----------------------------
(***************************************************************************)
(* The server for every number of threads, descriptors and connections:    *)
(* whose descriptor a task closes, and what a connection has carried when  *)
(* it is closed.                                                           *)
(***************************************************************************)
EXTENDS Server, SequenceTheorems, TLAPS

\* The queue holds the last connections accepted, in order, and every busy
\* worker has one of the earlier ones for itself.
PoolInv ==
    /\ Pool!TypeOK
    /\ Len(tasks) <= count
    /\ \A i \in 1..Len(tasks) : tasks[i] = count - Len(tasks) + i
    /\ \A w \in Workers : worker[w] = "busy" => task[w] \in 1..(count - Len(tasks))
    /\ \A v, w \in Workers :
          worker[v] = "busy" /\ worker[w] = "busy" /\ task[v] = task[w] => v = w

\* One entry for each connection accepted.
Lists == /\ socket \in Seq(Fds) /\ Len(socket) = count
         /\ peer \in Seq({"there", "gone"}) /\ Len(peer) = count
         /\ sent \in Seq(Answers) /\ Len(sent) = count

Threads == /\ up \in BOOLEAN
           /\ at \in [Workers -> {"idle", "recv", "handle", "loop", "end", "delete"}]
           /\ hasEnded \in [Workers -> BOOLEAN]
           /\ open \subseteq Fds

Answered(c) == sent[c] \in {<<"answer">>, <<"file", "answer">>}

\* What connection c has carried when its worker is at some step of
\* handleConnection with the flag ended.
Carried(step, ended, c) ==
    /\ step # "idle"
    /\ step \in {"recv", "handle", "loop"} => sent[c] = <<>> /\ ~ ended
    /\ step = "end" =>
          \/ ~ ended /\ sent[c] \in {<<>>, <<"file">>}
          \/ ended /\ sent[c] \in {<<>>, <<"part">>} /\ peer[c] = "gone"
    /\ step = "delete" => (peer[c] = "there" => Answered(c))

Progress ==
    /\ \A w \in Workers :
          /\ worker[w] = "busy" => Carried(at[w], hasEnded[w], task[w])
          /\ worker[w] # "busy" => at[w] = "idle" /\ ~ hasEnded[w]
    /\ \A c \in Queued : sent[c] = <<>>
    /\ raised \subseteq Accepted \ Live
    /\ \A c \in Accepted \ (Live \cup raised) : peer[c] = "there" => Answered(c)

IInv == PoolInv /\ Lists /\ Threads /\ DescriptorsAccounted /\ Progress

-----------------------------------------------------------------------------
(* What the steps of the pool do to the connections that are live.         *)

LEMMA TasksLength == \A s \in Seq(Nat) : Len(s) \in Nat /\ DOMAIN s = 1..Len(s)
  OBVIOUS

\* What a queue holds whose entries end at n.
LEMMA QueueSet ==
    ASSUME NEW s \in Seq(Nat), NEW n \in Nat, Len(s) <= n,
           \A i \in 1..Len(s) : s[i] = n - Len(s) + i
    PROVE  {s[i] : i \in DOMAIN s} = (n - Len(s) + 1)..n
  <1>1. Len(s) \in Nat /\ DOMAIN s = 1..Len(s)
    OBVIOUS
  <1>2. ASSUME NEW k \in (n - Len(s) + 1)..n PROVE k \in {s[i] : i \in DOMAIN s}
    <2>1. k - (n - Len(s)) \in 1..Len(s)
      BY <1>1
    <2>2. s[k - (n - Len(s))] = k
      BY <1>1, <2>1
    <2> QED
      BY <1>1, <2>1, <2>2
  <1>3. \A i \in DOMAIN s : s[i] \in (n - Len(s) + 1)..n
    BY <1>1
  <1> QED
    BY <1>2, <1>3

\* The queue after its first task has been taken from it.
LEMMA TailOfTasks ==
    ASSUME tasks \in Seq(Nat), tasks # <<>>
    PROVE  /\ Len(tasks) > 0
           /\ Head(tasks) = tasks[1]
           /\ Tail(tasks) \in Seq(Nat)
           /\ Len(Tail(tasks)) = Len(tasks) - 1
           /\ \A i \in 1..(Len(tasks) - 1) : Tail(tasks)[i] = tasks[i + 1]
  OBVIOUS

LEMMA QueuedAre ==
    ASSUME PoolInv
    PROVE  /\ tasks \in Seq(Nat) /\ Len(tasks) \in Nat /\ count \in Nat
           /\ Queued = (count - Len(tasks) + 1)..count
           /\ Current \subseteq 1..(count - Len(tasks))
           /\ Live \subseteq Accepted
  <1>1. tasks \in Seq(Nat) /\ count \in Nat
    BY DEF PoolInv, Pool!TypeOK
  <1>2. Len(tasks) \in Nat
    BY <1>1, TasksLength
  <1>3. Queued = (count - Len(tasks) + 1)..count
    BY <1>1, QueueSet DEF Queued, PoolInv
  <1>4. Current \subseteq 1..(count - Len(tasks))
    BY DEF Current, PoolInv
  <1>5. /\ (count - Len(tasks) + 1)..count \subseteq 1..count
        /\ 1..(count - Len(tasks)) \subseteq 1..count
    BY <1>1, <1>2 DEF PoolInv
  <1>6. Live \subseteq Accepted
    BY <1>3, <1>4, <1>5 DEF Live, Accepted
  <1> QED
    BY <1>1, <1>2, <1>3, <1>4, <1>6

LEMMA EnqueueLive ==
    ASSUME PoolInv, Pool!Enqueue
    PROVE  /\ PoolInv' /\ Live' = Live \cup {count + 1}
           /\ Queued' = Queued \cup {count + 1}
           /\ count' = count + 1 /\ Current' = Current
           /\ UNCHANGED <<worker, task>>
  <1>1. /\ tasks \in Seq(Nat) /\ Len(tasks) \in Nat /\ count \in Nat
        /\ Queued = (count - Len(tasks) + 1)..count
    BY QueuedAre
  <1>2. /\ tasks' = Append(tasks, count + 1) /\ count' = count + 1
        /\ caller' = "notify" /\ UNCHANGED <<isRunning, worker, task>>
    BY DEF Pool!Enqueue
  <1>3. /\ Len(tasks') = Len(tasks) + 1 /\ tasks' \in Seq(Nat)
        /\ \A i \in 1..Len(tasks) : tasks'[i] = tasks[i]
        /\ tasks'[Len(tasks) + 1] = count + 1
    BY <1>1, <1>2
  <1>4. Pool!TypeOK'
    <2>1. Pool!TypeOK
      BY DEF PoolInv
    <2>2. count' \in Nat
      BY <1>1, <1>2
    <2>3. tasks' \in Seq(Nat)
      BY <1>3
    <2> QED
      BY <1>2, <2>1, <2>2, <2>3 DEF Pool!TypeOK
  <1>5. \A i \in 1..Len(tasks') : tasks'[i] = count' - Len(tasks') + i
    BY <1>1, <1>2, <1>3, SMTT(30) DEF PoolInv
  <1>6. count' - Len(tasks') = count - Len(tasks)
    BY <1>1, <1>2, <1>3
  <1>7. PoolInv'
    BY <1>1, <1>2, <1>3, <1>4, <1>5, <1>6 DEF PoolInv
  <1>8. Queued' = (count' - Len(tasks') + 1)..count'
    <2>1. count' \in Nat /\ Len(tasks') <= count'
      BY <1>1, <1>2, <1>7 DEF PoolInv
    <2> QED
      BY <1>3, <1>5, <2>1, QueueSet DEF Queued
  <1>9. Queued' = Queued \cup {count + 1}
    BY <1>1, <1>2, <1>6, <1>8 DEF PoolInv
  <1>10. Current' = Current
    BY <1>2 DEF Current
  <1> QED
    BY <1>2, <1>7, <1>9, <1>10 DEF Live

LEMMA TakeLive ==
    ASSUME PoolInv, NEW w \in Workers, Pool!Take(w)
    PROVE  /\ PoolInv' /\ Live' = Live
           /\ Queued' = Queued \ {task'[w]} /\ task'[w] \in Queued
           /\ worker[w] # "busy" /\ worker'[w] = "busy" /\ count' = count
           /\ \A v \in Workers \ {w} : worker'[v] = worker[v] /\ task'[v] = task[v]
  <1>1. /\ tasks \in Seq(Nat) /\ Len(tasks) \in Nat /\ count \in Nat
        /\ Queued = (count - Len(tasks) + 1)..count
        /\ Current \subseteq 1..(count - Len(tasks))
    BY QueuedAre
  <1>2. /\ tasks # <<>> /\ worker[w] = "test"
        /\ tasks' = Tail(tasks) /\ task' = [task EXCEPT ![w] = Head(tasks)]
        /\ worker' = [worker EXCEPT ![w] = "busy"]
        /\ UNCHANGED <<count, isRunning, caller>>
    BY DEF Pool!Take
  <1>3. /\ Len(tasks) > 0 /\ Head(tasks) = tasks[1]
        /\ Tail(tasks) \in Seq(Nat) /\ Len(Tail(tasks)) = Len(tasks) - 1
        /\ \A i \in 1..(Len(tasks) - 1) : Tail(tasks)[i] = tasks[i + 1]
    BY <1>1, <1>2, TailOfTasks
  <1>4. task \in [Workers -> Nat]
        /\ worker \in [Workers -> {"test", "asleep", "busy", "exit"}]
    BY DEF PoolInv, Pool!TypeOK
  <1>5. /\ task'[w] = count - Len(tasks) + 1 /\ worker'[w] = "busy"
        /\ \A v \in Workers \ {w} : worker'[v] = worker[v] /\ task'[v] = task[v]
    BY <1>1, <1>2, <1>3, <1>4 DEF PoolInv
  <1>6. Len(tasks') = Len(tasks) - 1 /\ tasks' \in Seq(Nat)
    BY <1>2, <1>3
  <1>7. \A i \in 1..Len(tasks') : tasks'[i] = count' - Len(tasks') + i
    BY <1>1, <1>2, <1>3, <1>6 DEF PoolInv
  <1>8. Pool!TypeOK'
    <2>1. task'[w] \in Nat
      BY <1>1, <1>3, <1>5 DEF PoolInv
    <2> QED
      BY <1>2, <1>4, <1>6, <2>1, <1>5 DEF PoolInv, Pool!TypeOK
  <1>9. PoolInv'
    <2>1. \A v \in Workers : worker'[v] = "busy" =>
              task'[v] \in 1..(count' - Len(tasks'))
      BY <1>1, <1>2, <1>3, <1>4, <1>5, <1>6 DEF PoolInv
    <2>2. \A v \in Workers \ {w} : worker'[v] = "busy" => task'[v] # task'[w]
      BY <1>1, <1>4, <1>5 DEF PoolInv
    <2>3. \A u, v \in Workers :
            worker'[u] = "busy" /\ worker'[v] = "busy" /\ task'[u] = task'[v] => u = v
      BY <1>5, <2>2 DEF PoolInv
    <2>4. Len(tasks') <= count'
      BY <1>1, <1>2, <1>6 DEF PoolInv
    <2> QED
      BY <1>7, <1>8, <2>1, <2>3, <2>4 DEF PoolInv
  <1>10. Queued' = (count' - Len(tasks') + 1)..count'
    <2>1. count' \in Nat /\ Len(tasks') <= count'
      BY <1>1, <1>2, <1>9 DEF PoolInv
    <2> QED
      BY <1>6, <1>7, <2>1, QueueSet DEF Queued
  <1>11. Queued' = Queued \ {task'[w]} /\ task'[w] \in Queued
    BY <1>1, <1>2, <1>3, <1>5, <1>6, <1>10 DEF PoolInv
  <1>12. Current' = Current \cup {task'[w]}
    BY <1>2, <1>5 DEF Current
  <1>13. Live' = Live
    BY <1>11, <1>12 DEF Live
  <1> QED
    BY <1>2, <1>5, <1>9, <1>11, <1>13

LEMMA FinishLive ==
    ASSUME PoolInv, NEW w \in Workers, Pool!Finish(w)
    PROVE  /\ PoolInv' /\ Live' = Live \ {task[w]} /\ task[w] \in Live
           /\ Queued' = Queued /\ worker'[w] # "busy" /\ count' = count
           /\ \A v \in Workers \ {w} : worker'[v] = worker[v] /\ task'[v] = task[v]
  <1>1. /\ tasks \in Seq(Nat) /\ Len(tasks) \in Nat /\ count \in Nat
        /\ Queued = (count - Len(tasks) + 1)..count
        /\ Current \subseteq 1..(count - Len(tasks))
    BY QueuedAre
  <1>2. /\ worker[w] = "busy" /\ worker'[w] = "test" /\ task'[w] = 0
        /\ \A v \in Workers \ {w} : task'[v] = task[v] /\ worker'[v] = worker[v]
        /\ UNCHANGED <<tasks, count, isRunning, caller>>
    BY DEF PoolInv, Pool!TypeOK, Pool!Finish
  <1>3. Pool!TypeOK'
    BY DEF PoolInv, Pool!TypeOK, Pool!Finish
  <1>4. PoolInv'
    BY <1>2, <1>3 DEF PoolInv
  <1>5. Queued' = Queued
    BY <1>2 DEF Queued
  <1>6. task[w] \in Current
    BY <1>2 DEF Current
  <1>7. Current' = Current \ {task[w]}
    <2>1. \A v \in Workers \ {w} : worker[v] = "busy" => task[v] # task[w]
      BY <1>2 DEF PoolInv
    <2> QED
      BY <1>2, <2>1 DEF Current
  <1>8. task[w] \notin Queued
    BY <1>1, <1>6
  <1> QED
    BY <1>2, <1>4, <1>5, <1>6, <1>7, <1>8 DEF Live

\* Notifications and waits: no task moves.
LEMMA WaitLive ==
    ASSUME PoolInv, \/ Pool!NotifyOne
                    \/ \E w \in Workers : Pool!Sleep(w) \/ Pool!SpuriousWakeup(w)
    PROVE  /\ PoolInv' /\ Live' = Live /\ Queued' = Queued
           /\ UNCHANGED <<count, task>>
           /\ \A w \in Workers : worker'[w] = "busy" <=> worker[w] = "busy"
  <1>1. UNCHANGED <<tasks, count, task, isRunning>>
    BY DEF Pool!NotifyOne, Pool!Sleep, Pool!SpuriousWakeup
  <1>2. /\ \A w \in Workers : worker'[w] = "busy" <=> worker[w] = "busy"
        /\ Pool!TypeOK'
    BY <1>1 DEF PoolInv, Pool!TypeOK, Pool!NotifyOne, Pool!Sleep,
                Pool!SpuriousWakeup, Pool!Asleep
  <1>3. PoolInv'
    BY <1>1, <1>2 DEF PoolInv
  <1>4. Live' = Live /\ Queued' = Queued
    BY <1>1, <1>2 DEF Live, Queued, Current
  <1> QED
    BY <1>1, <1>2, <1>3, <1>4

\* No task moves at all.
LEMMA PoolStays ==
    ASSUME PoolInv, UNCHANGED pool
    PROVE  PoolInv' /\ Live' = Live /\ Queued' = Queued /\ Accepted' = Accepted
  <1>1. UNCHANGED <<tasks, count, isRunning, worker, task, caller>>
    BY DEF pool
  <1>2. Pool!TypeOK'
    BY <1>1 DEF PoolInv, Pool!TypeOK
  <1> QED
    BY <1>1, <1>2 DEF PoolInv, Live, Queued, Current, Accepted

-----------------------------------------------------------------------------
(* The steps, one lemma for those that leave the same things alone.        *)

LEMMA InitIInv == Init => IInv
  <1> SUFFICES ASSUME Init PROVE IInv
    OBVIOUS
  <1>1. /\ tasks = <<>> /\ count = 0 /\ isRunning = TRUE /\ caller = "run"
        /\ worker = [w \in Workers |-> "test"] /\ task = [w \in Workers |-> 0]
    BY DEF Init, Pool!Init
  <1>2. PoolInv
    BY <1>1 DEF PoolInv, Pool!TypeOK
  <1>3. Live = {} /\ Queued = {} /\ Accepted = {}
    BY <1>1 DEF Live, Queued, Current, Accepted
  <1>4. Lists
    BY <1>1 DEF Init, Lists
  <1>5. Threads
    BY DEF Init, Threads
  <1>6. DescriptorsAccounted
    BY <1>3 DEF Init, DescriptorsAccounted
  <1>7. Progress
    BY <1>1, <1>3 DEF Init, Progress
  <1> QED
    BY <1>2, <1>4, <1>5, <1>6, <1>7 DEF IInv

\* A step of handleConnection that closes nothing.
LEMMA StepKeeps ==
    ASSUME IInv, NEW w \in Workers, worker[w] = "busy",
           UNCHANGED <<pool, up, open, socket, peer, raised>>,
           NEW s \in Answers, sent' = [sent EXCEPT ![task[w]] = s],
           NEW a \in {"recv", "handle", "loop", "end", "delete"},
           at' = [at EXCEPT ![w] = a],
           NEW h \in BOOLEAN, hasEnded' = [hasEnded EXCEPT ![w] = h],
           Carried(a, h, task[w])'
    PROVE  IInv'
  <1>1. PoolInv' /\ Live' = Live /\ Queued' = Queued /\ Accepted' = Accepted
    BY PoolStays DEF IInv
  <1>2. UNCHANGED <<count, worker, task, up, open, socket, peer, raised>>
    BY DEF pool
  <1>3. /\ count \in Nat /\ Live \subseteq Accepted
        /\ Queued = (count - Len(tasks) + 1)..count /\ Len(tasks) \in Nat
        /\ Current \subseteq 1..(count - Len(tasks))
    BY QueuedAre DEF IInv
  <1>4. task[w] \in Current /\ task[w] \in Live /\ task[w] \notin Queued
    BY <1>3 DEF Current, Live
  <1>5. sent \in Seq(Answers) /\ Len(sent) = count /\ task[w] \in 1..Len(sent)
    BY <1>3, <1>4 DEF IInv, Lists, Accepted
  <1>6. /\ sent' \in Seq(Answers) /\ Len(sent') = Len(sent)
        /\ \A c \in 1..count : c # task[w] => sent'[c] = sent[c]
    BY <1>5, ExceptSeq
  <1>7. Lists'
    BY <1>2, <1>5, <1>6 DEF IInv, Lists
  <1>8. Threads'
    BY <1>2 DEF IInv, Threads
  <1>9. DescriptorsAccounted'
    BY <1>1, <1>2 DEF IInv, DescriptorsAccounted
  <1>10. Progress'
    <2>1. \A v \in Workers : worker[v] = "busy" /\ v # w => task[v] # task[w]
      BY DEF IInv, PoolInv
    <2>2. /\ at'[w] = a /\ hasEnded'[w] = h
          /\ \A v \in Workers \ {w} : at'[v] = at[v] /\ hasEnded'[v] = hasEnded[v]
      BY DEF IInv, Threads
    <2>3. ASSUME NEW v \in Workers, worker[v] = "busy", v # w
          PROVE  Carried(at[v], hasEnded[v], task[v])'
      <3>1. Carried(at[v], hasEnded[v], task[v])
        BY <2>3 DEF IInv, Progress
      <3>2. task[v] \in 1..count /\ task[v] # task[w]
        BY <1>3, <2>1, <2>3 DEF IInv, PoolInv
      <3> QED
        BY <1>2, <1>6, <2>2, <2>3, <3>1, <3>2 DEF Carried, Answered
    <2>4. Carried(at[w], hasEnded[w], task[w])'
      BY <2>2 DEF Carried, Answered
    <2>5. \A v \in Workers : /\ worker'[v] = "busy" => Carried(at[v], hasEnded[v], task[v])'
                             /\ worker'[v] # "busy" => at'[v] = "idle" /\ ~ hasEnded'[v]
      BY <1>2, <2>2, <2>3, <2>4 DEF IInv, Progress
    <2>6. \A c \in Queued' : sent'[c] = <<>>
      BY <1>1, <1>3, <1>4, <1>6 DEF IInv, Progress, Accepted, Live
    <2>7. \A c \in Accepted' \ (Live' \cup raised') : peer'[c] = "there" => Answered(c)'
      BY <1>1, <1>2, <1>4, <1>6 DEF IInv, Progress, Accepted, Answered
    <2>8. raised' \subseteq Accepted' \ Live'
      BY <1>1, <1>2 DEF IInv, Progress
    <2> QED
      BY <2>5, <2>6, <2>7, <2>8 DEF Progress
  <1> QED
    BY <1>1, <1>7, <1>8, <1>9, <1>10 DEF IInv

\* A task ends: with its descriptor closed, or with its request raised.
LEMMA ReturnKeeps ==
    ASSUME IInv, NEW w \in Workers, worker[w] = "busy",
           UNCHANGED <<up, socket, peer, sent>>,
           \/ /\ Return(w, {socket[task[w]]}) /\ raised' = raised
              /\ peer[task[w]] = "there" => Answered(task[w])
           \/ Return(w, {}) /\ raised' = raised \cup {task[w]}
    PROVE  IInv'
  <1>1. Pool!Finish(w)
    BY DEF Return
  <1>2. /\ PoolInv' /\ Live' = Live \ {task[w]} /\ task[w] \in Live
        /\ Queued' = Queued /\ worker'[w] # "busy" /\ count' = count
        /\ \A v \in Workers \ {w} : worker'[v] = worker[v] /\ task'[v] = task[v]
    BY <1>1, FinishLive DEF IInv
  <1>3. /\ Accepted' = Accepted /\ Live \subseteq Accepted
        /\ raised \subseteq Accepted \ Live
    BY <1>2, QueuedAre DEF Accepted, IInv, Progress
  <1>4. Lists'
    BY <1>2 DEF IInv, Lists
  <1>5. /\ at'[w] = "idle" /\ hasEnded'[w] = FALSE
        /\ \A v \in Workers \ {w} : at'[v] = at[v] /\ hasEnded'[v] = hasEnded[v]
        /\ open' \subseteq open
    BY DEF Return, IInv, Threads
  <1>6. Threads'
    BY <1>5 DEF Return, IInv, Threads
  <1>7. DescriptorsAccounted'
    <2>1. CASE open' = open \ {socket[task[w]]} /\ raised' = raised
      <3>1. Live' \cup raised' = (Live \cup raised) \ {task[w]}
        BY <1>2, <1>3, <2>1
      <3>2. open' = {socket[c] : c \in Live' \cup raised'}
        BY <1>2, <2>1, <3>1 DEF IInv, DescriptorsAccounted
      <3> QED
        BY <3>1, <3>2 DEF IInv, DescriptorsAccounted
    <2>2. CASE open' = open /\ raised' = raised \cup {task[w]}
      <3>1. Live' \cup raised' = Live \cup raised
        BY <1>2, <2>2
      <3> QED
        BY <2>2, <3>1 DEF IInv, DescriptorsAccounted
    <2> QED
      BY <2>1, <2>2 DEF Return
  <1>8. Progress'
    <2>1. \A v \in Workers : /\ worker'[v] = "busy" => Carried(at[v], hasEnded[v], task[v])'
                             /\ worker'[v] # "busy" => at'[v] = "idle" /\ ~ hasEnded'[v]
      BY <1>2, <1>5 DEF IInv, Progress, Carried, Answered
    <2>2. \A c \in Queued' : sent'[c] = <<>>
      BY <1>2 DEF IInv, Progress
    <2>3. raised' \subseteq Accepted' \ Live'
      BY <1>2, <1>3
    <2>4. \A c \in Accepted' \ (Live' \cup raised') : peer'[c] = "there" => Answered(c)'
      BY <1>2, <1>3 DEF IInv, Progress, Answered
    <2> QED
      BY <2>1, <2>2, <2>3, <2>4 DEF Progress
  <1> QED
    BY <1>2, <1>4, <1>6, <1>7, <1>8 DEF IInv

\* The connection accepted is the last of all the lists, with a descriptor that
\* no connection holds.
LEMMA AcceptKeeps == ASSUME IInv, Accept PROVE IInv'
  <1> DEFINE n == count + 1
  <1>1. /\ PoolInv' /\ Live' = Live \cup {n} /\ Queued' = Queued \cup {n}
        /\ count' = n /\ UNCHANGED <<worker, task>>
    BY EnqueueLive DEF Accept, IInv
  <1>2. /\ count \in Nat /\ Live \subseteq 1..count
        /\ Queued \subseteq Live /\ raised \subseteq 1..count
    BY QueuedAre DEF IInv, Progress, Accepted, Live
  <1>3. PICK fd \in Fds \ open : open' = open \cup {fd} /\ socket' = Append(socket, fd)
    BY DEF Accept
  <1>4. /\ socket' \in Seq(Fds) /\ Len(socket') = n
        /\ \A c \in 1..count : socket'[c] = socket[c]
        /\ socket'[n] = fd
    BY <1>2, <1>3, AppendProperties DEF IInv, Lists
  <1>5. /\ peer' \in Seq({"there", "gone"}) /\ Len(peer') = n
        /\ \A c \in 1..count : peer'[c] = peer[c]
    BY <1>2, AppendProperties DEF Accept, IInv, Lists
  <1>6. /\ sent' \in Seq(Answers) /\ Len(sent') = n
        /\ \A c \in 1..count : sent'[c] = sent[c]
        /\ sent'[n] = <<>>
    <2>1. <<>> \in Answers
      BY DEF Answers
    <2> QED
      BY <1>2, <2>1, AppendProperties DEF Accept, IInv, Lists
  <1>7. UNCHANGED <<up, at, hasEnded, raised>>
    BY DEF Accept
  <1>8. Lists'
    BY <1>1, <1>4, <1>5, <1>6 DEF Lists
  <1>9. Threads'
    BY <1>3, <1>7 DEF IInv, Threads
  <1>10. DescriptorsAccounted'
    <2>1. n \notin Live \cup raised /\ Live \cup raised \subseteq 1..count
      BY <1>2
    <2>2. {socket'[c] : c \in Live \cup raised} = open
      BY <1>4, <2>1 DEF IInv, DescriptorsAccounted
    <2>3. open' = {socket'[c] : c \in Live' \cup raised'}
      BY <1>1, <1>3, <1>4, <1>7, <2>2
    <2>4. \A c \in Live \cup raised : socket'[c] # fd
      BY <1>3, <2>2
    <2>5. \A c, d \in Live \cup raised : c # d => socket'[c] # socket'[d]
      BY <1>4, <2>1 DEF IInv, DescriptorsAccounted
    <2>6. \A c, d \in Live' \cup raised' : c # d => socket'[c] # socket'[d]
      BY <1>1, <1>4, <1>7, <2>4, <2>5
    <2> QED
      BY <2>3, <2>6 DEF DescriptorsAccounted
  <1>11. Progress'
    <2>1. ASSUME NEW v \in Workers, worker[v] = "busy"
          PROVE  Carried(at[v], hasEnded[v], task[v])'
      <3>1. task[v] \in 1..count
        BY <1>2, <2>1 DEF Live, Current
      <3>2. Carried(at[v], hasEnded[v], task[v])
        BY <2>1 DEF IInv, Progress
      <3> QED
        BY <1>1, <1>5, <1>6, <1>7, <3>1, <3>2 DEF Carried, Answered
    <2>2. \A v \in Workers : /\ worker'[v] = "busy" => Carried(at[v], hasEnded[v], task[v])'
                             /\ worker'[v] # "busy" => at'[v] = "idle" /\ ~ hasEnded'[v]
      BY <1>1, <1>7, <2>1 DEF IInv, Progress
    <2>3. \A c \in Queued' : sent'[c] = <<>>
      BY <1>1, <1>2, <1>6 DEF IInv, Progress
    <2>4. raised' \subseteq Accepted' \ Live'
      BY <1>1, <1>2, <1>7 DEF IInv, Progress, Accepted
    <2>5. \A c \in Accepted' \ (Live' \cup raised') : peer'[c] = "there" => Answered(c)'
      <3>1. Accepted' \ (Live' \cup raised') \subseteq Accepted \ (Live \cup raised)
        BY <1>1, <1>2, <1>7 DEF Accepted
      <3> QED
        BY <1>5, <1>6, <1>7, <3>1 DEF IInv, Progress, Answered, Accepted
    <2> QED
      BY <2>2, <2>3, <2>4, <2>5 DEF Progress
  <1> QED
    BY <1>1, <1>8, <1>9, <1>10, <1>11 DEF IInv

\* A worker takes the first connection of the queue, to which nothing was sent.
LEMMA TakeKeeps == ASSUME IInv, NEW w \in Workers, Take(w) PROVE IInv'
  <1>1. /\ PoolInv' /\ Live' = Live
        /\ Queued' = Queued \ {task'[w]} /\ task'[w] \in Queued
        /\ worker[w] # "busy" /\ worker'[w] = "busy" /\ count' = count
        /\ \A v \in Workers \ {w} : worker'[v] = worker[v] /\ task'[v] = task[v]
    BY TakeLive DEF Take, IInv
  <1>2. /\ UNCHANGED <<up, open, socket, peer, sent, hasEnded, raised>>
        /\ at' = [at EXCEPT ![w] = "recv"]
    BY DEF Take
  <1>3. Lists'
    BY <1>1, <1>2 DEF IInv, Lists
  <1>4. Threads'
    BY <1>2 DEF IInv, Threads
  <1>5. DescriptorsAccounted'
    BY <1>1, <1>2 DEF IInv, DescriptorsAccounted
  <1>6. /\ at'[w] = "recv" /\ hasEnded'[w] = FALSE /\ sent'[task'[w]] = <<>>
        /\ \A v \in Workers \ {w} : at'[v] = at[v] /\ hasEnded'[v] = hasEnded[v]
    BY <1>1, <1>2 DEF IInv, Threads, Progress
  <1>7. Progress'
    <2>1. \A v \in Workers : /\ worker'[v] = "busy" => Carried(at[v], hasEnded[v], task[v])'
                             /\ worker'[v] # "busy" => at'[v] = "idle" /\ ~ hasEnded'[v]
      BY <1>1, <1>2, <1>6 DEF IInv, Progress, Carried, Answered
    <2>2. \A c \in Queued' : sent'[c] = <<>>
      BY <1>1, <1>2 DEF IInv, Progress
    <2> QED
      BY <1>1, <1>2, <2>1, <2>2 DEF IInv, Progress, Accepted, Answered
  <1> QED
    BY <1>1, <1>3, <1>4, <1>5, <1>7 DEF IInv

LEMMA WaitKeeps ==
    ASSUME IInv, Notify \/ \E w \in Workers : Sleep(w) \/ SpuriousWakeup(w)
    PROVE  IInv'
  <1>1. /\ \/ Pool!NotifyOne
           \/ \E w \in Workers : Pool!Sleep(w) \/ Pool!SpuriousWakeup(w)
        /\ UNCHANGED <<up, open, socket, peer, sent, at, hasEnded, raised>>
    BY DEF Notify, Sleep, SpuriousWakeup
  <1>2. /\ PoolInv' /\ Live' = Live /\ Queued' = Queued
        /\ UNCHANGED <<count, task>>
        /\ \A w \in Workers : worker'[w] = "busy" <=> worker[w] = "busy"
    BY <1>1, WaitLive DEF IInv
  <1>3. Lists' /\ Threads' /\ DescriptorsAccounted'
    BY <1>1, <1>2 DEF IInv, Lists, Threads, DescriptorsAccounted
  <1>4. Progress'
    <2>1. \A v \in Workers : /\ worker'[v] = "busy" => Carried(at[v], hasEnded[v], task[v])'
                             /\ worker'[v] # "busy" => at'[v] = "idle" /\ ~ hasEnded'[v]
      BY <1>1, <1>2 DEF IInv, Progress, Carried, Answered
    <2> QED
      BY <1>1, <1>2, <2>1 DEF IInv, Progress, Accepted, Answered
  <1> QED
    BY <1>2, <1>3, <1>4 DEF IInv

\* A client that has gone waits for nothing.
LEMMA VanishKeeps == ASSUME IInv, NEW c \in Accepted, Vanish(c) PROVE IInv'
  <1>1. /\ UNCHANGED <<pool, up, open, socket, sent, at, hasEnded, raised>>
        /\ peer' = [peer EXCEPT ![c] = "gone"]
    BY DEF Vanish
  <1>2. PoolInv' /\ Live' = Live /\ Queued' = Queued /\ Accepted' = Accepted
    BY <1>1, PoolStays DEF IInv
  <1>3. UNCHANGED <<count, worker, task>>
    BY <1>1 DEF pool
  <1>4. peer \in Seq({"there", "gone"}) /\ c \in 1..Len(peer) /\ count = Len(peer)
    BY DEF IInv, Lists, Accepted
  <1>5. /\ peer' \in Seq({"there", "gone"}) /\ Len(peer') = count
        /\ peer'[c] = "gone"
        /\ \A d \in 1..count : d # c => peer'[d] = peer[d]
    BY <1>1, <1>4, ExceptSeq
  <1>6. Lists'
    BY <1>1, <1>3, <1>5 DEF IInv, Lists
  <1>7. Threads' /\ DescriptorsAccounted'
    BY <1>1, <1>2 DEF IInv, Threads, DescriptorsAccounted
  <1>8. Progress'
    <2>1. ASSUME NEW v \in Workers, worker[v] = "busy"
          PROVE  Carried(at[v], hasEnded[v], task[v])'
      <3>1. task[v] \in 1..count
        BY <2>1, QueuedAre DEF IInv, Live, Current, Accepted
      <3>2. Carried(at[v], hasEnded[v], task[v])
        BY <2>1 DEF IInv, Progress
      <3> QED
        BY <1>1, <1>3, <1>5, <3>1, <3>2 DEF Carried, Answered
    <2>2. \A v \in Workers : /\ worker'[v] = "busy" => Carried(at[v], hasEnded[v], task[v])'
                             /\ worker'[v] # "busy" => at'[v] = "idle" /\ ~ hasEnded'[v]
      BY <1>1, <1>3, <2>1 DEF IInv, Progress
    <2>3. \A d \in Accepted' \ (Live' \cup raised') : peer'[d] = "there" => Answered(d)'
      BY <1>1, <1>2, <1>5 DEF IInv, Progress, Accepted, Answered
    <2> QED
      BY <1>1, <1>2, <2>2, <2>3 DEF IInv, Progress
  <1> QED
    BY <1>2, <1>6, <1>7, <1>8 DEF IInv

\* What the worker of a connection knows of it.
LEMMA Handling ==
    ASSUME IInv, NEW w \in Workers, NEW step, Handles(w, step)
    PROVE  /\ worker[w] = "busy" /\ at[w] = step
           /\ Carried(step, hasEnded[w], task[w])
           /\ task[w] \in Accepted /\ sent[task[w]] \in Answers
           /\ sent = [sent EXCEPT ![task[w]] = sent[task[w]]]
           /\ hasEnded[w] \in BOOLEAN
           /\ hasEnded = [hasEnded EXCEPT ![w] = hasEnded[w]]
  <1>1. worker[w] = "busy" /\ at[w] = step
    BY DEF Handles
  <1>2. Carried(step, hasEnded[w], task[w])
    BY <1>1 DEF IInv, Progress
  <1>3. task[w] \in Accepted
    BY <1>1, QueuedAre DEF IInv, Live, Current
  <1>4. sent[task[w]] \in Answers
    BY <1>3 DEF IInv, Lists, Accepted
  <1>5. sent = [sent EXCEPT ![task[w]] = sent[task[w]]]
    BY DEF IInv, Lists
  <1>6. hasEnded[w] \in BOOLEAN /\ hasEnded = [hasEnded EXCEPT ![w] = hasEnded[w]]
    BY DEF IInv, Threads
  <1> QED
    BY <1>1, <1>2, <1>3, <1>4, <1>5, <1>6

\* The steps of handleConnection that send nothing.
LEMMA MoveKeeps ==
    ASSUME IInv, NEW w \in Workers, Receive(w) \/ ParseLoops(w) \/ Answer(w)
    PROVE  IInv'
  <1>1. /\ UNCHANGED <<pool, up, open, socket, peer, sent, hasEnded, raised>>
        /\ \/ Handles(w, "recv") /\ at' = [at EXCEPT ![w] = "handle"]
           \/ Handles(w, "handle") /\ at' = [at EXCEPT ![w] = "loop"]
           \/ Handles(w, "handle") /\ at' = [at EXCEPT ![w] = "end"]
    BY DEF Receive, ParseLoops, Answer
  <1>2. UNCHANGED <<task>>
    BY <1>1 DEF pool
  <1>3. PICK a \in {"handle", "loop", "end"} : /\ at' = [at EXCEPT ![w] = a]
                                                /\ \E step \in {"recv", "handle"} : Handles(w, step)
    BY <1>1
  <1>4. PICK step \in {"recv", "handle"} : Handles(w, step)
    BY <1>3
  <1>5. /\ worker[w] = "busy" /\ Carried(step, hasEnded[w], task[w])
        /\ sent[task[w]] \in Answers
        /\ sent' = [sent EXCEPT ![task[w]] = sent[task[w]]]
        /\ hasEnded[w] \in BOOLEAN
        /\ hasEnded' = [hasEnded EXCEPT ![w] = hasEnded[w]]
    BY <1>1, <1>4, Handling
  <1>6. Carried(a, hasEnded[w], task[w])'
    BY <1>1, <1>2, <1>3, <1>4, <1>5 DEF Carried, Answered
  <1>7. PICK s \in Answers : s = sent[task[w]]
    BY <1>5
  <1>8. PICK h \in BOOLEAN : h = hasEnded[w]
    BY <1>5
  <1>9. /\ sent' = [sent EXCEPT ![task[w]] = s]
        /\ hasEnded' = [hasEnded EXCEPT ![w] = h]
        /\ Carried(a, h, task[w])'
    BY <1>1, <1>5, <1>6, <1>7, <1>8
  <1> QED
    BY <1>1, <1>3, <1>5, <1>9, StepKeeps, ZenonT(40)

\* What a connection carries after one more piece.
LEMMA FirstPiece == \A e : Append(<<>>, e) = <<e>>
  OBVIOUS

LEMMA SecondPiece == \A d, e : Append(<<d>>, e) = <<d, e>>
  <1> SUFFICES ASSUME NEW d, NEW e PROVE Append(<<d>>, e) = <<d, e>>
    OBVIOUS
  <1>1. <<d>> \in Seq({d, e}) /\ Len(<<d>>) = 1 /\ <<d>>[1] = d
    OBVIOUS
  <1>2. /\ <<d, e>> \in Seq({d, e}) /\ Len(<<d, e>>) = 2
        /\ <<d, e>>[1] = d /\ <<d, e>>[2] = e
    OBVIOUS
  <1>3. /\ Append(<<d>>, e) \in Seq({d, e}) /\ Len(Append(<<d>>, e)) = 2
        /\ Append(<<d>>, e)[1] = d /\ Append(<<d>>, e)[2] = e
    BY <1>1, AppendProperties
  <1>4. \A i \in 1..2 : Append(<<d>>, e)[i] = <<d, e>>[i]
    BY <1>2, <1>3
  <1> QED
    BY <1>2, <1>3, <1>4, SeqEqual

LEMMA Pieces ==
    /\ Append(<<>>, "file") = <<"file">>
    /\ Append(<<>>, "answer") = <<"answer">>
    /\ Append(<<>>, "part") = <<"part">>
    /\ Append(<<"file">>, "answer") = <<"file", "answer">>
    /\ Append(<<"file">>, "part") = <<"file", "part">>
  BY FirstPiece, SecondPiece

\* A file is sent to a connection that carried nothing.
LEMMA SendFileKeeps == ASSUME IInv, NEW w \in Workers, SendFile(w) PROVE IInv'
  <1>1. /\ worker[w] = "busy" /\ Carried("handle", hasEnded[w], task[w])
        /\ task[w] \in Accepted
        /\ sent = [sent EXCEPT ![task[w]] = sent[task[w]]]
        /\ hasEnded = [hasEnded EXCEPT ![w] = hasEnded[w]]
    BY Handling DEF SendFile
  <1>2. sent[task[w]] = <<>> /\ hasEnded[w] = FALSE
    BY <1>1 DEF Carried, IInv, Threads
  <1>3. /\ UNCHANGED <<pool, up, open, socket, peer, raised>>
        /\ at' = [at EXCEPT ![w] = "end"]
    BY DEF SendFile
  <1>4. UNCHANGED <<peer, task>>
    BY <1>3 DEF pool
  <1>5. CASE Send(w, "file") /\ UNCHANGED hasEnded
    <2>1. /\ sent' = [sent EXCEPT ![task[w]] = <<"file">>]
          /\ hasEnded' = [hasEnded EXCEPT ![w] = FALSE]
      BY <1>1, <1>2, <1>5, Pieces DEF Send
    <2>2. sent'[task[w]] = <<"file">>
      BY <1>1, <2>1 DEF IInv, Lists, Accepted
    <2>3. Carried("end", FALSE, task[w])'
      BY <1>4, <2>2 DEF Carried
    <2>4. <<"file">> \in Answers
      BY DEF Answers
    <2> QED
      BY <1>1, <1>3, <2>1, <2>3, <2>4, StepKeeps
  <1>6. CASE SendFails(w) /\ hasEnded' = [hasEnded EXCEPT ![w] = TRUE]
    <2>1. /\ peer[task[w]] = "gone"
          /\ UNCHANGED sent \/ sent' = [sent EXCEPT ![task[w]] = <<"part">>]
      BY <1>2, <1>6, Pieces DEF SendFails, Send
    <2>2. PICK s \in {<<>>, <<"part">>} : sent' = [sent EXCEPT ![task[w]] = s]
      BY <1>1, <1>2, <2>1
    <2>3. sent'[task[w]] = s
      BY <1>1, <2>2 DEF IInv, Lists, Accepted
    <2>4. Carried("end", TRUE, task[w])'
      BY <1>4, <2>1, <2>2, <2>3 DEF Carried
    <2>5. s \in Answers
      BY <2>2 DEF Answers
    <2> QED
      BY <1>1, <1>3, <1>6, <2>2, <2>4, <2>5, StepKeeps
  <1> QED
    BY <1>5, <1>6 DEF SendFile

\* end answers, unless it has ended, and then the client is gone.
LEMMA EndKeeps == ASSUME IInv, NEW w \in Workers, End(w) PROVE IInv'
  <1>1. /\ worker[w] = "busy" /\ Carried("end", hasEnded[w], task[w])
        /\ task[w] \in Accepted /\ sent[task[w]] \in Answers
        /\ sent = [sent EXCEPT ![task[w]] = sent[task[w]]]
    BY Handling DEF End
  <1>2. /\ UNCHANGED <<pool, up, open, socket, peer, raised>>
        /\ at' = [at EXCEPT ![w] = "delete"]
        /\ hasEnded' = [hasEnded EXCEPT ![w] = TRUE]
    BY DEF End
  <1>3. UNCHANGED <<peer, task>>
    BY <1>2 DEF pool
  <1>4. PICK s \in Answers :
            /\ sent' = [sent EXCEPT ![task[w]] = s]
            /\ peer[task[w]] = "there" => s \in {<<"answer">>, <<"file", "answer">>}
    <2>1. CASE hasEnded[w] /\ UNCHANGED sent
      BY <1>1, <2>1 DEF Carried, IInv, Lists, Accepted
    <2>2. CASE ~ hasEnded[w] /\ (Send(w, "answer") \/ SendFails(w))
      <3>1. sent[task[w]] \in {<<>>, <<"file">>}
        BY <1>1, <2>2 DEF Carried
      <3>2. /\ Append(sent[task[w]], "answer") \in {<<"answer">>, <<"file", "answer">>}
            /\ Append(sent[task[w]], "part") \in Answers
        BY <3>1, Pieces DEF Answers
      <3>3. {<<"answer">>, <<"file", "answer">>} \subseteq Answers
        BY DEF Answers
      <3>4. CASE Send(w, "answer")
        BY <3>2, <3>3, <3>4 DEF Send
      <3>5. CASE SendFails(w)
        BY <1>1, <3>2, <3>5 DEF Send, SendFails
      <3> QED
        BY <2>2, <3>4, <3>5
    <2> QED
      BY <2>1, <2>2 DEF End
  <1>5. sent'[task[w]] = s
    BY <1>1, <1>4 DEF IInv, Lists, Accepted
  <1>6. peer[task[w]] \in {"there", "gone"}
    BY <1>1 DEF IInv, Lists, Accepted
  <1>7. Carried("delete", TRUE, task[w])'
    BY <1>3, <1>4, <1>5 DEF Carried, Answered
  <1> QED
    BY <1>1, <1>2, <1>4, <1>7, StepKeeps

\* The ways a task ends.
LEMMA ReturnsKeep ==
    ASSUME IInv, NEW w \in Workers, Hangup(w) \/ Raise(w) \/ Close(w)
    PROVE  IInv'
  <1>1. CASE Hangup(w)
    <2>1. worker[w] = "busy" /\ peer[task[w]] # "there"
      BY <1>1 DEF Hangup, Handles
    <2> QED
      BY <1>1, <2>1, ReturnKeeps DEF Hangup
  <1>2. CASE Raise(w)
    <2>1. worker[w] = "busy"
      BY <1>2 DEF Raise, Handles
    <2> QED
      BY <1>2, <2>1, ReturnKeeps DEF Raise
  <1>3. CASE Close(w)
    <2>1. worker[w] = "busy" /\ (peer[task[w]] = "there" => Answered(task[w]))
      BY <1>3, Handling DEF Close, Carried
    <2> QED
      BY <1>3, <2>1, ReturnKeeps DEF Close
  <1> QED
    BY <1>1, <1>2, <1>3

LEMMA StaysKeep ==
    ASSUME IInv, UNCHANGED <<pool, open, socket, peer, sent, at, hasEnded, raised>>,
           up' \in BOOLEAN
    PROVE  IInv'
  <1>1. PoolInv' /\ Live' = Live /\ Queued' = Queued /\ Accepted' = Accepted
    BY PoolStays DEF IInv
  <1>2. UNCHANGED <<count, worker, task>>
    BY DEF pool
  <1>3. Lists' /\ Threads' /\ DescriptorsAccounted'
    BY <1>1, <1>2 DEF IInv, Lists, Threads, DescriptorsAccounted
  <1>4. Progress'
    BY <1>1, <1>2 DEF IInv, Progress, Carried, Answered
  <1> QED
    BY <1>1, <1>3, <1>4 DEF IInv

LEMMA NextIInv == ASSUME IInv, [Next]_vars PROVE IInv'
  <1>1. CASE Accept
    BY <1>1, AcceptKeeps
  <1>2. CASE AcceptFails \/ \E w \in Workers : ParseTerminates(w)
    BY <1>2, StaysKeep DEF AcceptFails, ParseTerminates
  <1>3. CASE Notify \/ \E w \in Workers : Sleep(w) \/ SpuriousWakeup(w)
    BY <1>3, WaitKeeps
  <1>4. CASE \E c \in Accepted : Vanish(c)
    BY <1>4, VanishKeeps
  <1>5. CASE \E w \in Workers : Take(w)
    BY <1>5, TakeKeeps
  <1>6. CASE \E w \in Workers : Receive(w) \/ ParseLoops(w) \/ Answer(w)
    BY <1>6, MoveKeeps
  <1>7. CASE \E w \in Workers : SendFile(w)
    BY <1>7, SendFileKeeps
  <1>8. CASE \E w \in Workers : End(w)
    BY <1>8, EndKeeps
  <1>9. CASE \E w \in Workers : Hangup(w) \/ Raise(w) \/ Close(w)
    BY <1>9, ReturnsKeep
  <1>10. CASE UNCHANGED vars
    <2>1. UNCHANGED <<pool, open, socket, peer, sent, at, hasEnded, raised>> /\ up' = up
      BY <1>10 DEF vars
    <2>2. up' \in BOOLEAN
      BY <2>1 DEF IInv, Threads
    <2> QED
      BY <2>1, <2>2, StaysKeep
  <1> QED
    BY <1>1, <1>2, <1>3, <1>4, <1>5, <1>6, <1>7, <1>8, <1>9, <1>10 DEF Next, Handle

\* The inductive invariant: queue, lists, threads, descriptors and what every
\* connection has carried, for every pool and any number of connections.
THEOREM ServerInvariant == Spec => []IInv
  <1>1. Init => IInv
    BY InitIInv
  <1>2. IInv /\ [Next]_vars => IInv'
    BY NextIInv
  <1> QED
    BY <1>1, <1>2, PTL DEF Spec

-----------------------------------------------------------------------------
\* Every variable keeps its type, the nexus pool's under the server included.
THEOREM TypeCorrect == Spec => []TypeOK
  <1>1. IInv => TypeOK
    <2> SUFFICES ASSUME IInv PROVE TypeOK
      OBVIOUS
    <2>1. Pool!TypeOK
      BY DEF IInv, PoolInv
    <2>2. /\ socket \in [Accepted -> Fds]
          /\ peer \in [Accepted -> {"there", "gone"}]
          /\ DOMAIN sent = Accepted
      BY DEF IInv, Lists, Accepted
    <2>3. raised \subseteq Accepted
      BY DEF IInv, Progress
    <2>4. /\ up \in BOOLEAN /\ open \subseteq Fds
          /\ at \in [Workers -> {"idle", "recv", "handle", "loop", "end", "delete"}]
          /\ hasEnded \in [Workers -> BOOLEAN]
      BY DEF IInv, Threads
    <2> QED
      BY <2>1, <2>2, <2>3, <2>4 DEF TypeOK
  <1> QED
    BY <1>1, ServerInvariant, PTL

\* A descriptor the kernel hands out again is never closed or written by the
\* task that had it before, and only requests that raised keep theirs open.
THEOREM DescriptorsOfOneTask == Spec => []DescriptorsAccounted
  <1>1. IInv => DescriptorsAccounted
    BY DEF IInv
  <1> QED
    BY <1>1, ServerInvariant, PTL

\* A response is sent once: a second answer can only follow a whole file.
THEOREM OneResponse == Spec => []OneAnswer
  <1>1. IInv => OneAnswer
    BY DEF IInv, Lists, OneAnswer, Accepted
  <1> QED
    BY <1>1, ServerInvariant, PTL

\* Whatever handler ran, a client still there has its answer before its socket
\* is closed, unless the request raised.
THEOREM AnsweredBeforeClosed == Spec => []ClosedMeansAnswered
  <1>1. IInv => ClosedMeansAnswered
    <2> SUFFICES ASSUME IInv, NEW c \in Accepted \ (Live \cup raised),
                        peer[c] = "there"
                 PROVE  sent[c] # <<>> /\ sent[c][Len(sent[c])] = "answer"
      BY DEF ClosedMeansAnswered
    <2>1. sent[c] = <<"answer">> \/ sent[c] = <<"file", "answer">>
      BY DEF IInv, Progress, Answered
    <2> QED
      BY <2>1, SMTT(30)
  <1> QED
    BY <1>1, ServerInvariant, PTL
=============================================================================

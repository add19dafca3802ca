------------------------------- MODULE Server -------------------------------
(***************************************************************************)
(* expresso::core::Server on its nexus pool: the accept loop in the main   *)
(* thread, and handleConnection as the task a worker runs for each         *)
(* accepted socket, down to the bytes of the response and the close.  File *)
(* descriptors are numbers the kernel hands out again after a close.       *)
(***************************************************************************)
EXTENDS Integers, Sequences, FiniteSets

CONSTANTS
    Workers,    \* threads of the nexus pool
    Fds,        \* descriptors the process may have open for clients
    MaxTasks    \* bound on the connections accepted

ASSUME ServerAssumption ==
    /\ IsFiniteSet(Workers)
    /\ Fds \subseteq Nat
    /\ MaxTasks \in Nat

VARIABLES
    tasks, count, isRunning, worker, task, caller,      \* the nexus pool
    up,         \* the process runs
    open,       \* descriptors of client sockets that are open
    socket,     \* socket[c]: clientSocket, as the task of connection c holds it
    peer,       \* peer[c]: whether the client of c is still there
    sent,       \* sent[c]: what was written to connection c
    at,         \* at[w]: where w is in handleConnection
    hasEnded,   \* hasEnded[w]: the field of the Response w answers with
    raised      \* connections whose request raised, history

pool == <<tasks, count, isRunning, worker, task, caller>>
vars == <<pool, up, open, socket, peer, sent, at, hasEnded, raised>>

Pool == INSTANCE Nexus

Accepted == 1..count
Queued == {tasks[i] : i \in DOMAIN tasks}
Current == {task[w] : w \in {v \in Workers : worker[v] = "busy"}}

\* Connections whose task has not ended.
Live == Queued \cup Current

Init == /\ Pool!Init
        /\ up = TRUE
        /\ open = {}
        /\ socket = <<>>
        /\ peer = <<>>
        /\ sent = <<>>
        /\ at = [w \in Workers |-> "idle"]
        /\ hasEnded = [w \in Workers |-> FALSE]
        /\ raised = {}

(* Names ending in "Bug" are faulty variants of the definition after them,  *)
(* used to see that the properties notice.                                 *)

-----------------------------------------------------------------------------
(* The main thread and the clients.                                        *)

\* accept returns the lowest free descriptor; the connection is enqueued.
Accept ==
    /\ up
    /\ Pool!Enqueue
    /\ \E fd \in Fds \ open :
          /\ \A other \in Fds \ open : fd <= other
          /\ open' = open \cup {fd}
          /\ socket' = Append(socket, fd)
    /\ peer' = Append(peer, "there")
    /\ sent' = Append(sent, <<>>)
    /\ UNCHANGED <<up, at, hasEnded, raised>>

\* accept returns -1: logger::error throws, nothing catches it in main, and the
\* process is gone.
AcceptFails ==
    /\ up
    /\ caller = "run"
    /\ up' = FALSE
    /\ UNCHANGED <<pool, open, socket, peer, sent, at, hasEnded, raised>>

Notify == /\ up
          /\ Pool!NotifyOne
          /\ UNCHANGED <<up, open, socket, peer, sent, at, hasEnded, raised>>

\* A client goes away; what is written to it from now on may fail.
Vanish(c) ==
    /\ up
    /\ c \in Live
    /\ peer[c] = "there"
    /\ peer' = [peer EXCEPT ![c] = "gone"]
    /\ UNCHANGED <<pool, up, open, socket, sent, at, hasEnded, raised>>

-----------------------------------------------------------------------------
(* handleConnection, run by worker w.                                      *)

Handles(w, step) == up /\ worker[w] = "busy" /\ at[w] = step

Take(w) == /\ up
           /\ Pool!Take(w)
           /\ at' = [at EXCEPT ![w] = "recv"]
           /\ UNCHANGED <<up, open, socket, peer, sent, hasEnded, raised>>

Sleep(w) == /\ up
            /\ Pool!Sleep(w)
            /\ UNCHANGED <<up, open, socket, peer, sent, at, hasEnded, raised>>

SpuriousWakeup(w) ==
    /\ up
    /\ Pool!SpuriousWakeup(w)
    /\ UNCHANGED <<up, open, socket, peer, sent, at, hasEnded, raised>>

\* The task of w ends with descriptors fds closed.
Return(w, fds) == /\ open' = open \ fds
                  /\ at' = [at EXCEPT ![w] = "idle"]
                  /\ hasEnded' = [hasEnded EXCEPT ![w] = FALSE]
                  /\ Pool!Finish(w)

\* The client went away before it sent anything, or recv failed: the socket is
\* closed and nothing is answered.
Hangup(w) ==
    /\ Handles(w, "recv")
    /\ peer[task[w]] = "gone"
    /\ Return(w, {socket[task[w]]})
    /\ UNCHANGED <<up, socket, peer, sent, raised>>

\* The end of the headers was received, or the client stopped sending: the
\* response is made, and the request is parsed and goes through the router.
Receive(w) ==
    /\ Handles(w, "recv")
    /\ at' = [at EXCEPT ![w] = "handle"]
    /\ UNCHANGED <<pool, up, open, socket, peer, sent, hasEnded, raised>>

\* A query without "=" is searched for ever.
ParseLoops(w) ==
    /\ Handles(w, "handle")
    /\ at' = [at EXCEPT ![w] = "loop"]
    /\ UNCHANGED <<pool, up, open, socket, peer, sent, hasEnded, raised>>

\* A number beyond long long, or a string without an end once the memory is
\* full: parseNumber and parseString are noexcept, and the process is gone.
ParseTerminates(w) ==
    /\ Handles(w, "handle")
    /\ up' = FALSE
    /\ UNCHANGED <<pool, open, socket, peer, sent, at, hasEnded, raised>>

\* The catch block reaches its close, and delete res comes after it.
RaiseBug(w) ==
    /\ Handles(w, "handle")
    /\ open' = open \ {socket[task[w]]}
    /\ at' = [at EXCEPT ![w] = "end"]
    /\ UNCHANGED <<pool, up, socket, peer, sent, hasEnded, raised>>

\* makeRequest, a middleware or a handler raises: so does logger::error in the
\* catch block, and neither the answer nor the close after it is reached.
Raise(w) ==
    /\ Handles(w, "handle")
    /\ raised' = raised \cup {task[w]}
    /\ Return(w, {})
    /\ UNCHANGED <<up, socket, peer, sent>>

\* The handler returns without end, and nothing answers for it.
AnswerBug(w) ==
    /\ Handles(w, "handle")
    /\ at' = [at EXCEPT ![w] = "delete"]
    /\ UNCHANGED <<pool, up, open, socket, peer, sent, hasEnded, raised>>

\* A handler that answers, a refusing middleware or an unknown path call end;
\* for a handler that does not, the destructor of the response does the same.
Answer(w) ==
    /\ Handles(w, "handle")
    /\ at' = [at EXCEPT ![w] = "end"]
    /\ UNCHANGED <<pool, up, open, socket, peer, sent, hasEnded, raised>>

\* What w writes arrives, or, if the client is gone, perhaps a part of it.
Send(w, what) == sent' = [sent EXCEPT ![task[w]] = Append(@, what)]
SendFails(w) == /\ peer[task[w]] = "gone"
                /\ UNCHANGED sent \/ Send(w, "part")

\* StaticServe found a file: sendFile sets hasEnded only when a send fails, and
\* the router calls end next.
SendFile(w) ==
    /\ Handles(w, "handle")
    /\ \/ Send(w, "file") /\ UNCHANGED hasEnded
       \/ SendFails(w) /\ hasEnded' = [hasEnded EXCEPT ![w] = TRUE]
    /\ at' = [at EXCEPT ![w] = "end"]
    /\ UNCHANGED <<pool, up, open, socket, peer, raised>>

\* end answers again although the response has ended.
EndBug(w) ==
    /\ Handles(w, "end")
    /\ Send(w, "answer") \/ SendFails(w)
    /\ hasEnded' = [hasEnded EXCEPT ![w] = TRUE]
    /\ at' = [at EXCEPT ![w] = "delete"]
    /\ UNCHANGED <<pool, up, open, socket, peer, raised>>

\* end: headers and body are sent unless the response has ended.
End(w) ==
    /\ Handles(w, "end")
    /\ \/ hasEnded[w] /\ UNCHANGED sent
       \/ ~ hasEnded[w] /\ (Send(w, "answer") \/ SendFails(w))
    /\ hasEnded' = [hasEnded EXCEPT ![w] = TRUE]
    /\ at' = [at EXCEPT ![w] = "delete"]
    /\ UNCHANGED <<pool, up, open, socket, peer, raised>>

\* The response is deleted, which sends nothing any more, and the socket closed.
Close(w) ==
    /\ Handles(w, "delete")
    /\ Return(w, {socket[task[w]]})
    /\ UNCHANGED <<up, socket, peer, sent, raised>>

Handle(w) == \/ Take(w) \/ Sleep(w)
             \/ Receive(w) \/ Hangup(w)
             \/ ParseLoops(w) \/ ParseTerminates(w) \/ Raise(w)
             \/ Answer(w) \/ SendFile(w) \/ End(w) \/ Close(w)

Next == \/ Accept \/ AcceptFails \/ Notify
        \/ \E c \in Accepted : Vanish(c)
        \/ \E w \in Workers : Handle(w) \/ SpuriousWakeup(w)

Spec == Init /\ [][Next]_vars

\* Threads go on, and a client sends its request or goes away in the end.
Fairness == WF_vars(Notify) /\ \A w \in Workers : WF_vars(Handle(w))

FairSpec == Spec /\ Fairness

-----------------------------------------------------------------------------
\* What a connection may carry: an answer, a file with an answer after it, or
\* what arrived of them when the client went away.
Answers == {<<>>, <<"answer">>, <<"part">>,
            <<"file">>, <<"file", "answer">>, <<"file", "part">>}

\* Every variable keeps its type.
TypeOK == /\ Pool!TypeOK
          /\ up \in BOOLEAN
          /\ open \subseteq Fds
          /\ socket \in [Accepted -> Fds]
          /\ peer \in [Accepted -> {"there", "gone"}]
          /\ DOMAIN sent = Accepted
          /\ at \in [Workers -> {"idle", "recv", "handle", "loop", "end", "delete"}]
          /\ hasEnded \in [Workers -> BOOLEAN]
          /\ raised \subseteq Accepted

\* Whatever a task writes or closes is its own connection, although descriptors
\* are reused as soon as they are closed, and a descriptor stays open after its
\* task only if the request raised.
DescriptorsAccounted ==
    /\ open = {socket[c] : c \in Live \cup raised}
    /\ \A c, d \in Live \cup raised : c # d => socket[c] # socket[d]

\* A connection carries one answer; a second one follows only a whole file,
\* which sendFile writes without recording that the response has ended.
OneAnswer == \A c \in Accepted : sent[c] \in Answers

\* A client that waits for its answer has it when its connection is closed; only
\* those whose request raised wait in vain.
ClosedMeansAnswered ==
    \A c \in Accepted \ (Live \cup raised) :
        peer[c] = "there" => sent[c] # <<>> /\ sent[c][Len(sent[c])] = "answer"

\* A request that loops costs one worker: while one is left, every connection
\* comes to its turn.
QueueMoves ==
    [](up /\ \E w \in Workers : at[w] # "loop") =>
        \A c \in 1..MaxTasks : c \in Queued ~> c \notin Queued
=============================================================================

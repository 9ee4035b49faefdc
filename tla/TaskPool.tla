------------------------------ MODULE TaskPool ------------------------------
(***************************************************************************)
(* The ThreadTasks of one process: each gets a socket, from accept() on    *)
(* the thread that runs Start or from connect() on a thread that calls     *)
(* AddTask, goes to the thread pool, and is closed and deleted by its pool *)
(* thread (Bosnnc.cpp).  What happens on the socket meanwhile is module    *)
(* Connection; here it matters that Winsock names sockets by handles, and  *)
(* may give the handle of a closed socket to the next one.                 *)
(***************************************************************************)
EXTENDS Naturals, Sequences, FiniteSets

CONSTANTS
    Tasks,       \* ThreadTasks of the process
    Handles,     \* values a SOCKET can have
    Free,        \* no task: what an unused handle refers to
    NoSocket,    \* INVALID_SOCKET
    Recycled,    \* FALSE: Winsock never gives out a handle value again
    MaxThreads,  \* threads of the default pool
    Backlog,     \* connections the listening socket holds
    MaxCalls     \* bound: calls of AddTask with one task

BOSNCC_MODEL_CLIENT == 1
BOSNCC_MODEL_SERVER == 2

ASSUME NamesAssumption == Free \notin Tasks /\ NoSocket \notin Handles

ASSUME LimitsAssumption ==
    /\ Recycled \in BOOLEAN
    /\ MaxThreads \in Nat \ {0} /\ Backlog \in Nat \ {0} /\ MaxCalls \in Nat

VARIABLES
    RunModel, \* what SetRunoModel made of the process, once and for all
    phase,    \* phase[t]: how far task t has come
    sock,     \* sock[t]: ConnectSocket
    calls,    \* calls[t]: calls of AddTask with t
    backlog,  \* connections waiting for accept(), by the task they will get
    queue,    \* queue[t]: work items of t that are submitted and not started
    table,    \* table[h]: the task whose connection handle h refers to
    used      \* handles that have been given out

vars == <<RunModel, phase, sock, calls, backlog, queue, table, used>>

Phases ==
    {"none",       \* not made yet, or not given to AddTask
     "arrived",    \* its client has connected and waits in the backlog
     "reset",      \* ... and has gone away again
     "lost",       \* accept() failed: the task made for it is forgotten
     "connecting", \* AddTask is in connect()
     "failed",     \* AddTask returned an error, the task is the caller's
     "queued", "running",
     "closing",    \* closed once in a callback that is about to close again
     "closed",     \* closed in a callback, the loop is about to return
     "deleted"}

\* What Winsock may hand out, and what closesocket() does to a handle value,
\* whatever it refers to by now.
Available ==
    {h \in Handles : table[h] = Free /\ (Recycled \/ h \notin used)}

closesocket(h) == table' = [table EXCEPT ![h] = Free]

Moves(t, p) == phase' = [phase EXCEPT ![t] = p]

\* CreateThreadpoolWork and SubmitThreadpoolWork: handed to the pool, which
\* starts its work items in any order.
Submit(t) ==
    /\ queue' = [queue EXCEPT ![t] = @ + 1]
    /\ Moves(t, "queued")

\* The threads that are inside ServerThreadPoolWorking.
Busy == {t \in Tasks : phase[t] \in {"running", "closing", "closed"}}

Opens(t, h) ==
    /\ h \in Available
    /\ table' = [table EXCEPT ![h] = t]
    /\ used' = used \cup {h}
    /\ sock' = [sock EXCEPT ![t] = h]

-----------------------------------------------------------------------------
(* The server: connections arrive, the thread in Start accepts them. *)

\* A client completes the handshake, or goes away before it is accepted.
Arrive(t) ==
    /\ RunModel = BOSNCC_MODEL_SERVER
    /\ phase[t] = "none" /\ Len(backlog) < Backlog
    /\ backlog' = Append(backlog, t)
    /\ Moves(t, "arrived")
    /\ UNCHANGED <<RunModel, sock, calls, queue, table, used>>

ClientGoesAway(t) ==
    /\ phase[t] = "arrived"
    /\ Moves(t, "reset")
    /\ UNCHANGED <<RunModel, sock, calls, backlog, queue, table, used>>

\* Mutant: accepts only what a thread can take at once.
Accepts_WhenIdle(t) ==
    /\ phase[t] = "arrived" /\ Cardinality(Busy) < MaxThreads
    /\ \E h \in Handles : Opens(t, h)
    /\ Submit(t)

\* accept() returns a socket, and the task made for it goes to the pool.
Accepts(t) ==
    /\ phase[t] = "arrived"
    /\ \E h \in Handles : Opens(t, h)
    /\ Submit(t)

\* Mutant: what accept() returns is not checked.
AcceptFails_Unchecked(t) ==
    /\ phase[t] = "reset"
    /\ sock' = [sock EXCEPT ![t] = NoSocket]
    /\ Submit(t)
    /\ UNCHANGED <<table, used>>

\* accept() reports a connection that was reset; the task made for it is
\* reachable no more.
AcceptFails(t) ==
    /\ phase[t] = "reset"
    /\ sock' = [sock EXCEPT ![t] = NoSocket]
    /\ Moves(t, "lost")
    /\ UNCHANGED <<queue, table, used>>

\* The listening socket is readable: one task, for the first connection.
On_Accept_CallBack ==
    /\ RunModel = BOSNCC_MODEL_SERVER /\ backlog # <<>>
    /\ Accepts(Head(backlog)) \/ AcceptFails(Head(backlog))
    /\ backlog' = Tail(backlog)
    /\ UNCHANGED <<RunModel, calls>>

-----------------------------------------------------------------------------
(* The client: application threads call AddTask, again after a failure. *)

MayAdd(t) ==
    /\ RunModel = BOSNCC_MODEL_CLIENT
    /\ phase[t] \in {"none", "failed"} /\ calls[t] < MaxCalls
    /\ calls' = [calls EXCEPT ![t] = @ + 1]

\* The address cannot be resolved, or is not IPv4 (-2, -3), or socket() fails (-4).
AddTaskRefused(t) ==
    /\ MayAdd(t)
    /\ Moves(t, "failed")
    /\ sock' \in {sock, [sock EXCEPT ![t] = NoSocket]}
    /\ UNCHANGED <<RunModel, backlog, queue, table, used>>

AddTaskConnects(t) ==
    /\ MayAdd(t)
    /\ \E h \in Handles : Opens(t, h)
    /\ Moves(t, "connecting")
    /\ UNCHANGED <<RunModel, backlog, queue>>

\* connect() succeeds on a fresh socket: t's own, or that of another call which
\* has been given t's handle meanwhile (which of the two connects it first is
\* not recorded).
AddTaskConnected(t) ==
    /\ phase[t] = "connecting"
    /\ table[sock[t]] # Free /\ phase[table[sock[t]]] = "connecting"
    /\ Submit(t)
    /\ UNCHANGED <<RunModel, sock, calls, backlog, table, used>>

\* Mutant: the socket is left to the caller when connect() fails.
AddTaskUnconnected_LeavesOpen(t) ==
    /\ phase[t] = "connecting"
    /\ Moves(t, "failed")
    /\ UNCHANGED <<RunModel, sock, calls, backlog, queue, table, used>>

\* Mutant: no return after the failure of connect().
AddTaskUnconnected_GoesOn(t) ==
    /\ phase[t] = "connecting"
    /\ closesocket(sock[t])
    /\ Submit(t)
    /\ UNCHANGED <<RunModel, sock, calls, backlog, used>>

\* Mutant: the result of connect() is looked at after the task was submitted.
AddTaskUnconnected_Late(t) ==
    /\ phase[t] = "connecting"
    /\ closesocket(sock[t])
    /\ Moves(t, "failed") /\ queue' = [queue EXCEPT ![t] = @ + 1]
    /\ UNCHANGED <<RunModel, sock, calls, backlog, used>>

\* connect() fails: -5.
AddTaskUnconnected(t) ==
    /\ phase[t] = "connecting"
    /\ closesocket(sock[t])
    /\ Moves(t, "failed")
    /\ UNCHANGED <<RunModel, sock, calls, backlog, queue, used>>

-----------------------------------------------------------------------------
(* The pool threads. *)

\* A thread takes a work item and runs the loop of its task.  The mode is 100
\* or 300 here, so the default branch of the switch is never taken.
ServerThreadPoolWorking(t) ==
    /\ queue[t] > 0 /\ Cardinality(Busy) < MaxThreads
    /\ queue' = [queue EXCEPT ![t] = @ - 1]
    /\ Moves(t, "running")
    /\ UNCHANGED <<RunModel, sock, calls, backlog, table, used>>

\* A callback closes the socket: the header is refused, the message does not
\* parse, the business function returns neither 1 nor 2, or the event callback.
CloseSocket(t) ==
    /\ phase[t] \in {"running", "closing"}
    /\ closesocket(sock[t])
    /\ Moves(t, "closed")
    /\ UNCHANGED <<RunModel, sock, calls, backlog, queue, used>>

\* The business function returns 2: the case has no break, so that the default
\* closes once more.
CloseOnTwo(t) ==
    /\ phase[t] = "running"
    /\ closesocket(sock[t])
    /\ Moves(t, "closing")
    /\ UNCHANGED <<RunModel, sock, calls, backlog, queue, used>>

\* Mutant: event_base_loopbreak is not called after the socket is closed.
ReleaseTask_OnlyWithoutEvents(t) ==
    /\ phase[t] = "running"
    /\ closesocket(sock[t])
    /\ Moves(t, "deleted")
    /\ UNCHANGED <<RunModel, sock, calls, backlog, queue, used>>

\* The loop returns, after a close or because no event is left in it; the
\* bufferevent closes its socket when it is freed, and the task is deleted.
\* The close is where bufferevent.h:158-160 puts it; a libevent that leaves it
\* to the next turn of a loop that has returned would never get to it.
ReleaseTask(t) ==
    /\ phase[t] \in {"running", "closed"}
    /\ closesocket(sock[t])
    /\ Moves(t, "deleted")
    /\ UNCHANGED <<RunModel, sock, calls, backlog, queue, used>>

\* Nothing is left to do with the tasks of this instance.
Finished ==
    /\ \A t \in Tasks :
        \/ phase[t] \in {"lost", "deleted"}
        \/ phase[t] = "failed" /\ calls[t] = MaxCalls
    /\ UNCHANGED vars

Init ==
    /\ RunModel \in {BOSNCC_MODEL_CLIENT, BOSNCC_MODEL_SERVER}
    /\ phase = [t \in Tasks |-> "none"]
    /\ sock = [t \in Tasks |-> NoSocket]
    /\ calls = [t \in Tasks |-> 0]
    /\ backlog = <<>>
    /\ queue = [t \in Tasks |-> 0]
    /\ table = [h \in Handles |-> Free]
    /\ used = {}

Next ==
    \/ On_Accept_CallBack
    \/ \E t \in Tasks :
        \/ Arrive(t)
        \/ ClientGoesAway(t)
        \/ AddTaskRefused(t)
        \/ AddTaskConnects(t)
        \/ AddTaskConnected(t)
        \/ AddTaskUnconnected(t)
        \/ ServerThreadPoolWorking(t)
        \/ CloseSocket(t)
        \/ CloseOnTwo(t)
        \/ ReleaseTask(t)
    \/ Finished

Spec == Init /\ [][Next]_vars

\* The loop of Start serves the listening socket, the pool starts a work item
\* when it has a thread, and a callback that has closed returns to a loop that
\* ends.  Nothing obliges a connection to end.
FairSpec ==
    /\ Spec
    /\ WF_vars(On_Accept_CallBack)
    /\ \A t \in Tasks :
        /\ WF_vars(ServerThreadPoolWorking(t))
        /\ WF_vars(phase[t] = "closing" /\ CloseSocket(t))
        /\ WF_vars(phase[t] = "closed" /\ ReleaseTask(t))

-----------------------------------------------------------------------------
(* Properties. *)

\* Every variable has its type, and a task that has a socket has a handle.
TypeOK ==
    /\ RunModel \in {BOSNCC_MODEL_CLIENT, BOSNCC_MODEL_SERVER}
    /\ phase \in [Tasks -> Phases]
    /\ sock \in [Tasks -> Handles \cup {NoSocket}]
    /\ calls \in [Tasks -> Nat]
    /\ backlog \in Seq(Tasks)
    /\ queue \in [Tasks -> Nat]
    /\ table \in [Handles -> Tasks \cup {Free}]
    /\ used \subseteq Handles
    /\ \A t \in Tasks :
        phase[t] \in {"connecting", "queued", "running", "closing", "closed"}
          => sock[t] \in Handles

\* A socket is open only while AddTask, the queue or a running loop has its
\* task: none outlives its task, and none stays open when AddTask fails,
\* though threads close each other's sockets on recycled handles.
NoSocketLeaks ==
    \A h \in Handles :
        table[h] # Free =>
            /\ sock[table[h]] = h
            /\ phase[table[h]] \in {"connecting", "queued", "running"}

\* The pool has a task at most once: the thread that deletes it is the only
\* one that has it, whatever failures and retries went before.
SubmittedOnce ==
    \A t \in Tasks : queue[t] = IF phase[t] = "queued" THEN 1 ELSE 0

\* A task loses the connection it needs only to a task that had the same
\* handle value before, has closed it already and closes it once more
\* (Bosnnc.cpp: a callback, then bufferevent_free).  A failing AddTask may close
\* another's socket only when its own was lost in that way before.
LostOnlyToReuse ==
    \A t \in Tasks :
        phase[t] \in {"connecting", "queued", "running"} /\ table[sock[t]] # t
          => \E u \in Tasks \ {t} :
                sock[u] = sock[t] /\ phase[u] \in {"closing", "closed", "deleted"}

\* The handle of a task the pool has refers to the task's own connection.
\* True only while Winsock does not recycle handle values.
OwnSocket ==
    \A t \in Tasks : phase[t] \in {"queued", "running"} => table[sock[t]] = t

\* ThreadTask.h:27 says that a business function that returns 1 keeps its
\* connection: while a loop goes on, nobody closes its socket.
OneKeepsConnection ==
    [][\A t \in Tasks :
        phase[t] = "running" /\ phase'[t] = "running" /\ table[sock[t]] = t
          => table'[sock[t]] = t]_vars

\* The process serves each connection, and each task that AddTask has
\* connected, at most once, never one that was gone when it was accepted, and
\* no more of them at a time than the pool has threads.
Svc == INSTANCE Service
           WITH waiting <- {t \in Tasks : phase[t] = "arrived" \/ queue[t] > 0},
                serving <- Busy,
                gone <- {t \in Tasks : phase[t] \in {"reset", "lost", "deleted"}}

Serves == Svc!Spec

\* The pool never holds up the accepting thread: whatever its threads are
\* busy with, a connection leaves the backlog.
AcceptNeverWaits ==
    \A t \in Tasks : phase[t] = "arrived" ~> phase[t] # "arrived"

\* If every loop closes its socket or runs out of events at some time, every
\* task handed to the pool gets a thread.
Served ==
    (\A t \in Tasks : phase[t] = "running" ~> phase[t] # "running")
      => \A t \in Tasks : phase[t] = "queued" ~> phase[t] = "running"

=============================================================================

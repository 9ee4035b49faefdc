--------------------------- MODULE TaskPoolProofs ---------------------------
(***************************************************************************)
(* Theorems of TaskPool, for every number of tasks, handles, threads and   *)
(* calls: sockets do not leak and the pool has each task once, however     *)
(* threads close each other's sockets; when handle values are not          *)
(* recycled, no thread closes another's; and TaskPool implements Service.   *)
(***************************************************************************)
EXTENDS TaskPool, TLAPS

\* The invariant of every process.
PoolInv == TypeOK /\ NoSocketLeaks /\ SubmittedOnce

\* What is true besides when a handle value is given out once: two tasks never
\* have the same one, and a task that needs its connection still has it.
FreshInv ==
    /\ \A t \in Tasks : sock[t] # NoSocket => sock[t] \in used
    /\ \A t, u \in Tasks : sock[t] = sock[u] /\ sock[t] # NoSocket => t = u
    /\ \A t \in Tasks :
        phase[t] \in {"connecting", "queued", "running"} => table[sock[t]] = t

-----------------------------------------------------------------------------
(* One action at a time. *)

\* Closing a handle leaves no socket behind whose task was at the handle.
LEMMA CloseKeeps ==
    ASSUME PoolInv, NEW t \in Tasks, NEW p \in Phases,
           sock[t] \in Handles, closesocket(sock[t]), Moves(t, p),
           UNCHANGED <<RunModel, sock, calls, backlog, queue, used>>,
           phase[t] # "queued",
           p \notin {"connecting", "queued"}
    PROVE  PoolInv'
<1>1. TypeOK'
  BY DEF PoolInv, TypeOK, closesocket, Moves
<1>2. NoSocketLeaks'
  BY DEF PoolInv, TypeOK, NoSocketLeaks, closesocket, Moves
<1>3. SubmittedOnce'
  BY DEF PoolInv, TypeOK, SubmittedOnce, Moves
<1> QED BY <1>1, <1>2, <1>3 DEF PoolInv

\* A task that is submitted had no work item in the pool.
LEMMA SubmitKeeps ==
    ASSUME TypeOK, SubmittedOnce, NEW t \in Tasks, Submit(t), phase[t] # "queued"
    PROVE  /\ SubmittedOnce' /\ queue' \in [Tasks -> Nat]
           /\ phase' \in [Tasks -> Phases]
<1>1. /\ queue \in [Tasks -> Nat] /\ phase \in [Tasks -> Phases]
      /\ queue' = [queue EXCEPT ![t] = @ + 1]
      /\ phase' = [phase EXCEPT ![t] = "queued"] /\ "queued" \in Phases
  BY DEF TypeOK, Submit, Moves, Phases
<1>2. queue[t] = 0
  BY DEF SubmittedOnce
<1> QED BY <1>1, <1>2 DEF SubmittedOnce

\* A task that the pool does not have can go anywhere without being submitted.
LEMMA MoveKeeps ==
    ASSUME TypeOK, SubmittedOnce, NEW t \in Tasks, NEW p \in Phases, Moves(t, p),
           phase[t] # "queued", p # "queued", UNCHANGED queue
    PROVE  SubmittedOnce' /\ phase' \in [Tasks -> Phases]
  BY DEF TypeOK, SubmittedOnce, Moves

\* A handle that is given out was nobody's.
LEMMA OpensKeeps ==
    ASSUME PoolInv, NEW t \in Tasks, NEW h \in Handles, Opens(t, h),
           NEW p \in {"connecting", "queued"}, Moves(t, p),
           phase[t] \notin {"connecting", "queued", "running"}
    PROVE  /\ NoSocketLeaks'
           /\ sock' \in [Tasks -> Handles \cup {NoSocket}]
           /\ table' \in [Handles -> Tasks \cup {Free}] /\ used' \subseteq Handles
           /\ \A u \in Tasks :
                phase'[u] \in {"connecting", "queued", "running", "closing", "closed"}
                  => sock'[u] \in Handles
  BY DEF PoolInv, TypeOK, NoSocketLeaks, Opens, Moves, Available

\* The accepting thread.
LEMMA AcceptKeeps == PoolInv /\ On_Accept_CallBack => PoolInv'
<1> SUFFICES ASSUME PoolInv, On_Accept_CallBack PROVE PoolInv'
  OBVIOUS
<1> DEFINE t == Head(backlog)
<1>1. t \in Tasks /\ backlog' \in Seq(Tasks)
  BY DEF PoolInv, TypeOK, On_Accept_CallBack
<1>2. UNCHANGED <<RunModel, calls>>
  BY DEF On_Accept_CallBack
<1>3. Accepts(t) \/ AcceptFails(t)
  BY DEF On_Accept_CallBack
<1> HIDE DEF t
<1>4. CASE Accepts(t)
  <2>1. PICK h \in Handles : Opens(t, h)
    BY <1>4 DEF Accepts
  <2>2. Submit(t) /\ Moves(t, "queued") /\ phase[t] = "arrived"
    BY <1>4 DEF Accepts, Submit
  <2>3. SubmittedOnce' /\ queue' \in [Tasks -> Nat] /\ phase' \in [Tasks -> Phases]
    BY <1>1, <2>2, SubmitKeeps DEF PoolInv
  <2>4. /\ NoSocketLeaks'
        /\ sock' \in [Tasks -> Handles \cup {NoSocket}]
        /\ table' \in [Handles -> Tasks \cup {Free}] /\ used' \subseteq Handles
        /\ \A u \in Tasks :
             phase'[u] \in {"connecting", "queued", "running", "closing", "closed"}
               => sock'[u] \in Handles
    BY <1>1, <2>1, <2>2, OpensKeeps
  <2>5. TypeOK'
    BY <1>1, <1>2, <2>3, <2>4 DEF PoolInv, TypeOK
  <2> QED BY <2>3, <2>4, <2>5 DEF PoolInv
<1>5. CASE AcceptFails(t)
  <2>1. /\ phase[t] = "reset" /\ Moves(t, "lost")
        /\ sock' = [sock EXCEPT ![t] = NoSocket]
        /\ UNCHANGED <<queue, table, used>>
    BY <1>5 DEF AcceptFails
  <2>2. TypeOK'
    BY <1>1, <1>2, <2>1 DEF PoolInv, TypeOK, Moves, Phases
  <2>3. NoSocketLeaks'
    BY <1>1, <2>1 DEF PoolInv, TypeOK, NoSocketLeaks, Moves
  <2>4. SubmittedOnce'
    BY <1>1, <2>1, MoveKeeps DEF PoolInv, Phases
  <2> QED BY <2>2, <2>3, <2>4 DEF PoolInv
<1> QED BY <1>3, <1>4, <1>5

\* A task that a thread takes was waiting in the pool.
LEMMA TakenWasQueued ==
    ASSUME SubmittedOnce, NEW t \in Tasks, ServerThreadPoolWorking(t)
    PROVE  phase[t] = "queued" /\ queue[t] = 1
  BY DEF SubmittedOnce, ServerThreadPoolWorking

\* The thread that takes a work item takes the only one of its task.
LEMMA PoolKeeps ==
    ASSUME PoolInv, NEW t \in Tasks, ServerThreadPoolWorking(t)
    PROVE  PoolInv'
<1>1. /\ queue \in [Tasks -> Nat] /\ phase \in [Tasks -> Phases]
      /\ phase[t] = "queued" /\ queue[t] = 1
      /\ phase' = [phase EXCEPT ![t] = "running"] /\ "running" \in Phases
      /\ queue' = [queue EXCEPT ![t] = @ - 1]
      /\ UNCHANGED <<RunModel, sock, calls, backlog, table, used>>
  BY TakenWasQueued DEF PoolInv, TypeOK, ServerThreadPoolWorking, Moves, Phases
<1>2. queue' \in [Tasks -> Nat]
  BY <1>1
<1>3. TypeOK'
  BY <1>1, <1>2 DEF PoolInv, TypeOK
<1>4. NoSocketLeaks'
  BY <1>1 DEF PoolInv, TypeOK, NoSocketLeaks
<1>5. SubmittedOnce'
  BY <1>1 DEF PoolInv, SubmittedOnce
<1> QED BY <1>3, <1>4, <1>5 DEF PoolInv

\* Every step keeps the invariant.
LEMMA StepKeeps == PoolInv /\ [Next]_vars => PoolInv'
<1> SUFFICES ASSUME PoolInv, [Next]_vars PROVE PoolInv'
  OBVIOUS
<1>1. CASE On_Accept_CallBack
  BY <1>1, AcceptKeeps
<1>2. ASSUME NEW t \in Tasks, Arrive(t) PROVE PoolInv'
  <2>1. TypeOK'
    BY <1>2 DEF PoolInv, TypeOK, Arrive, Moves, Phases
  <2>2. NoSocketLeaks'
    BY <1>2 DEF PoolInv, TypeOK, NoSocketLeaks, Arrive, Moves
  <2>3. SubmittedOnce'
    BY <1>2, MoveKeeps DEF PoolInv, Arrive, Phases
  <2> QED BY <2>1, <2>2, <2>3 DEF PoolInv
<1>3. ASSUME NEW t \in Tasks, ClientGoesAway(t) PROVE PoolInv'
  <2>1. TypeOK'
    BY <1>3 DEF PoolInv, TypeOK, ClientGoesAway, Moves, Phases
  <2>2. NoSocketLeaks'
    BY <1>3 DEF PoolInv, TypeOK, NoSocketLeaks, ClientGoesAway, Moves
  <2>3. SubmittedOnce'
    BY <1>3, MoveKeeps DEF PoolInv, ClientGoesAway, Phases
  <2> QED BY <2>1, <2>2, <2>3 DEF PoolInv
<1>4. ASSUME NEW t \in Tasks, AddTaskRefused(t) PROVE PoolInv'
  <2>1. TypeOK'
    <3>1. calls' \in [Tasks -> Nat]
      BY <1>4 DEF PoolInv, TypeOK, AddTaskRefused, MayAdd
    <3>2. /\ sock' \in [Tasks -> Handles \cup {NoSocket}]
          /\ phase' = [phase EXCEPT ![t] = "failed"]
          /\ \A u \in Tasks : u # t => sock'[u] = sock[u]
          /\ UNCHANGED <<RunModel, backlog, queue, table, used>>
      BY <1>4 DEF PoolInv, TypeOK, AddTaskRefused, Moves
    <3>3. \A u \in Tasks :
            phase'[u] \in {"connecting", "queued", "running", "closing", "closed"}
              => sock'[u] \in Handles
      BY <3>2 DEF PoolInv, TypeOK
    <3> QED BY <3>1, <3>2, <3>3 DEF PoolInv, TypeOK, Phases
  <2>2. NoSocketLeaks'
    BY <1>4 DEF PoolInv, TypeOK, NoSocketLeaks, AddTaskRefused, MayAdd, Moves
  <2>3. SubmittedOnce'
    BY <1>4, MoveKeeps DEF PoolInv, AddTaskRefused, MayAdd, Phases
  <2> QED BY <2>1, <2>2, <2>3 DEF PoolInv
<1>5. ASSUME NEW t \in Tasks, AddTaskConnects(t) PROVE PoolInv'
  <2>1. PICK h \in Handles : Opens(t, h)
    BY <1>5 DEF AddTaskConnects
  <2>2. /\ Moves(t, "connecting") /\ phase[t] \in {"none", "failed"}
        /\ calls' = [calls EXCEPT ![t] = @ + 1]
        /\ UNCHANGED <<RunModel, backlog, queue>>
    BY <1>5 DEF AddTaskConnects, MayAdd
  <2>3. SubmittedOnce' /\ phase' \in [Tasks -> Phases]
    BY <2>2, MoveKeeps DEF PoolInv, Phases
  <2>4. /\ NoSocketLeaks'
        /\ sock' \in [Tasks -> Handles \cup {NoSocket}]
        /\ table' \in [Handles -> Tasks \cup {Free}] /\ used' \subseteq Handles
        /\ \A u \in Tasks :
             phase'[u] \in {"connecting", "queued", "running", "closing", "closed"}
               => sock'[u] \in Handles
    BY <2>1, <2>2, OpensKeeps
  <2>5. TypeOK'
    <3>1. calls' \in [Tasks -> Nat]
      BY <2>2 DEF PoolInv, TypeOK
    <3> QED BY <2>2, <2>3, <2>4, <3>1 DEF PoolInv, TypeOK
  <2> QED BY <2>3, <2>4, <2>5 DEF PoolInv
<1>6. ASSUME NEW t \in Tasks, AddTaskConnected(t) PROVE PoolInv'
  <2>1. /\ Submit(t) /\ phase[t] = "connecting"
        /\ phase' = [phase EXCEPT ![t] = "queued"]
        /\ UNCHANGED <<RunModel, sock, calls, backlog, table, used>>
    BY <1>6 DEF AddTaskConnected, Submit, Moves
  <2>2. SubmittedOnce' /\ queue' \in [Tasks -> Nat] /\ phase' \in [Tasks -> Phases]
    BY <2>1, SubmitKeeps DEF PoolInv
  <2>3. TypeOK'
    BY <2>1, <2>2 DEF PoolInv, TypeOK
  <2>4. NoSocketLeaks'
    BY <2>1 DEF PoolInv, TypeOK, NoSocketLeaks
  <2> QED BY <2>2, <2>3, <2>4 DEF PoolInv
<1>7. ASSUME NEW t \in Tasks, AddTaskUnconnected(t) PROVE PoolInv'
  <2>1. sock[t] \in Handles
    BY <1>7 DEF PoolInv, TypeOK, AddTaskUnconnected
  <2> QED BY <1>7, <2>1, CloseKeeps DEF AddTaskUnconnected, Phases
<1>8. ASSUME NEW t \in Tasks, ServerThreadPoolWorking(t) PROVE PoolInv'
  BY <1>8, PoolKeeps
<1>9. ASSUME NEW t \in Tasks, CloseSocket(t) PROVE PoolInv'
  <2>1. sock[t] \in Handles
    BY <1>9 DEF PoolInv, TypeOK, CloseSocket
  <2> QED BY <1>9, <2>1, CloseKeeps DEF CloseSocket, Phases
<1>10. ASSUME NEW t \in Tasks, CloseOnTwo(t) PROVE PoolInv'
  <2>1. sock[t] \in Handles
    BY <1>10 DEF PoolInv, TypeOK, CloseOnTwo
  <2> QED BY <1>10, <2>1, CloseKeeps DEF CloseOnTwo, Phases
<1>11. ASSUME NEW t \in Tasks, ReleaseTask(t) PROVE PoolInv'
  <2>1. sock[t] \in Handles
    BY <1>11 DEF PoolInv, TypeOK, ReleaseTask
  <2> QED BY <1>11, <2>1, CloseKeeps DEF ReleaseTask, Phases
<1>12. CASE UNCHANGED vars
  BY <1>12 DEF PoolInv, TypeOK, NoSocketLeaks, SubmittedOnce, vars
<1> QED BY <1>1, <1>2, <1>3, <1>4, <1>5, <1>6, <1>7, <1>8, <1>9, <1>10, <1>11,
           <1>12 DEF Next, Finished

\* The invariant holds of every process.
THEOREM Invariance == Spec => []PoolInv
<1>1. Init => PoolInv
  BY NamesAssumption DEF Init, PoolInv, TypeOK, NoSocketLeaks, SubmittedOnce, Phases
<1>2. PoolInv /\ [Next]_vars => PoolInv'
  BY StepKeeps
<1> QED BY <1>1, <1>2, PTL DEF Spec

\* Every variable has its type; a task the pool runs has a socket handle.
THEOREM TypeCorrect == Spec => []TypeOK
<1>1. PoolInv => TypeOK
  BY DEF PoolInv
<1> QED BY <1>1, Invariance, PTL

\* No socket outlives its task or a failed AddTask, even when threads close
\* each other's sockets.
THEOREM SocketsReleased == Spec => []NoSocketLeaks
<1>1. PoolInv => NoSocketLeaks
  BY DEF PoolInv
<1> QED BY <1>1, Invariance, PTL

\* A task is in the hands of one pool thread, which is the one that deletes it.
THEOREM PoolHasTaskOnce == Spec => []SubmittedOnce
<1>1. PoolInv => SubmittedOnce
  BY DEF PoolInv
<1> QED BY <1>1, Invariance, PTL

-----------------------------------------------------------------------------
(* Handle values that are never given out again. *)

\* A handle that is given out is one that nobody ever had.
LEMMA FreshOpens ==
    ASSUME PoolInv, FreshInv, ~Recycled, NEW t \in Tasks, NEW h \in Handles,
           Opens(t, h), NEW p \in {"connecting", "queued"}, Moves(t, p)
    PROVE  FreshInv'
<1>1. /\ h \notin used /\ used' = used \cup {h}
      /\ sock' = [sock EXCEPT ![t] = h] /\ table' = [table EXCEPT ![h] = t]
      /\ phase' = [phase EXCEPT ![t] = p]
      /\ sock \in [Tasks -> Handles \cup {NoSocket}]
      /\ phase \in [Tasks -> Phases]
      /\ table \in [Handles -> Tasks \cup {Free}]
      /\ \A u \in Tasks :
           phase[u] \in {"connecting", "queued", "running"} => sock[u] \in Handles
  BY DEF Opens, Available, Moves, PoolInv, TypeOK
<1>2. \A u \in Tasks : sock[u] # h
  BY <1>1, NamesAssumption DEF FreshInv
<1> QED BY <1>1, <1>2 DEF FreshInv

\* Nobody else has the handle that t closes.
LEMMA FreshClose ==
    ASSUME PoolInv, FreshInv, NEW t \in Tasks, sock[t] \in Handles,
           closesocket(sock[t]), NEW p \in {"failed", "closing", "closed", "deleted"},
           Moves(t, p), UNCHANGED <<sock, used>>
    PROVE  FreshInv'
  BY NamesAssumption DEF PoolInv, TypeOK, FreshInv, closesocket, Moves

\* A task that goes on with its connection.
LEMMA FreshMove ==
    ASSUME PoolInv, FreshInv, NEW t \in Tasks, NEW p \in Phases, Moves(t, p),
           phase[t] \in {"connecting", "queued"},
           UNCHANGED <<table, used, sock>>
    PROVE  FreshInv'
  BY DEF PoolInv, TypeOK, FreshInv, Moves

\* A task that needs no connection, whatever becomes of its ConnectSocket.
LEMMA FreshRest ==
    ASSUME PoolInv, FreshInv, NEW t \in Tasks,
           NEW p \in {"arrived", "reset", "lost", "failed"}, Moves(t, p),
           UNCHANGED <<table, used>>,
           sock' = sock \/ sock' = [sock EXCEPT ![t] = NoSocket]
    PROVE  FreshInv'
  BY NamesAssumption DEF PoolInv, TypeOK, FreshInv, Moves

\* Every step keeps FreshInv when handles are not recycled.
LEMMA FreshStep == ~Recycled /\ PoolInv /\ FreshInv /\ [Next]_vars => FreshInv'
<1> SUFFICES ASSUME ~Recycled, PoolInv, FreshInv, [Next]_vars PROVE FreshInv'
  OBVIOUS
<1>1. CASE On_Accept_CallBack
  <2> DEFINE t == Head(backlog)
  <2>1. t \in Tasks
    BY <1>1 DEF PoolInv, TypeOK, On_Accept_CallBack
  <2>2. Accepts(t) \/ AcceptFails(t)
    BY <1>1 DEF On_Accept_CallBack
  <2> HIDE DEF t
  <2>3. CASE Accepts(t)
    <3>1. PICK h \in Handles : Opens(t, h)
      BY <2>3 DEF Accepts
    <3>2. Moves(t, "queued")
      BY <2>3 DEF Accepts, Submit
    <3> QED BY <2>1, <3>1, <3>2, FreshOpens
  <2>4. CASE AcceptFails(t)
    <3>1. /\ Moves(t, "lost") /\ sock' = [sock EXCEPT ![t] = NoSocket]
          /\ UNCHANGED <<table, used>>
      BY <2>4 DEF AcceptFails
    <3> QED BY <2>1, <3>1, FreshRest
  <2> QED BY <2>2, <2>3, <2>4
<1>2. ASSUME NEW t \in Tasks, Arrive(t) \/ ClientGoesAway(t) PROVE FreshInv'
  <2>1. PICK p \in {"arrived", "reset"} : Moves(t, p)
    BY <1>2 DEF Arrive, ClientGoesAway
  <2>2. UNCHANGED <<table, used, sock>>
    BY <1>2 DEF Arrive, ClientGoesAway
  <2> QED BY <2>1, <2>2, FreshRest
<1>3. ASSUME NEW t \in Tasks, AddTaskRefused(t) PROVE FreshInv'
  <2>1. /\ Moves(t, "failed") /\ UNCHANGED <<table, used>>
        /\ sock' = sock \/ sock' = [sock EXCEPT ![t] = NoSocket]
    BY <1>3 DEF AddTaskRefused
  <2> QED BY <2>1, FreshRest
<1>4. ASSUME NEW t \in Tasks, AddTaskConnects(t) PROVE FreshInv'
  <2>1. PICK h \in Handles : Opens(t, h)
    BY <1>4 DEF AddTaskConnects
  <2>2. Moves(t, "connecting")
    BY <1>4 DEF AddTaskConnects
  <2> QED BY <2>1, <2>2, FreshOpens
<1>5. ASSUME NEW t \in Tasks, AddTaskConnected(t) PROVE FreshInv'
  <2>1. /\ Moves(t, "queued") /\ "queued" \in Phases /\ phase[t] = "connecting"
        /\ UNCHANGED <<table, used, sock>>
    BY <1>5 DEF AddTaskConnected, Submit, Phases
  <2> QED BY <2>1, FreshMove
<1>6. ASSUME NEW t \in Tasks, ServerThreadPoolWorking(t) PROVE FreshInv'
  <2>1. /\ Moves(t, "running") /\ "running" \in Phases
        /\ UNCHANGED <<table, used, sock>>
    BY <1>6 DEF ServerThreadPoolWorking, Phases
  <2>2. phase[t] = "queued"
    BY <1>6, TakenWasQueued DEF PoolInv
  <2> QED BY <2>1, <2>2, FreshMove
<1>7. ASSUME NEW t \in Tasks,
             \/ AddTaskUnconnected(t) \/ CloseSocket(t)
             \/ CloseOnTwo(t) \/ ReleaseTask(t)
      PROVE  FreshInv'
  <2>1. /\ closesocket(sock[t]) /\ UNCHANGED <<sock, used>>
        /\ phase[t] \in {"connecting", "running", "closing", "closed"}
    BY <1>7 DEF AddTaskUnconnected, CloseSocket, CloseOnTwo, ReleaseTask
  <2>2. PICK p \in {"failed", "closing", "closed", "deleted"} : Moves(t, p)
    BY <1>7 DEF AddTaskUnconnected, CloseSocket, CloseOnTwo, ReleaseTask
  <2>3. sock[t] \in Handles
    BY <2>1 DEF PoolInv, TypeOK
  <2> QED BY <2>1, <2>2, <2>3, FreshClose
<1>8. CASE UNCHANGED vars
  BY <1>8 DEF FreshInv, vars
<1> QED BY <1>1, <1>2, <1>3, <1>4, <1>5, <1>6, <1>7, <1>8 DEF Next, Finished

\* When Winsock does not recycle handle values, a task the pool has is on its
\* own connection for as long as it needs it.
THEOREM OwnSocketWhenFresh == ~Recycled => (Spec => []OwnSocket)
<1> SUFFICES ASSUME ~Recycled PROVE Spec => []OwnSocket
  OBVIOUS
<1>1. Init => PoolInv /\ FreshInv
  <2>1. Init => PoolInv
    BY NamesAssumption
       DEF Init, PoolInv, TypeOK, NoSocketLeaks, SubmittedOnce, Phases
  <2>2. Init => FreshInv
    BY DEF Init, FreshInv
  <2> QED BY <2>1, <2>2
<1>2. PoolInv /\ FreshInv /\ [Next]_vars => PoolInv' /\ FreshInv'
  BY StepKeeps, FreshStep
<1>3. PoolInv /\ FreshInv => OwnSocket
  BY DEF FreshInv, OwnSocket
<1> QED BY <1>1, <1>2, <1>3, PTL DEF Spec

-----------------------------------------------------------------------------
(* Handle values that are given out again. *)

\* A task that is given a fresh handle has it to itself.
LEMMA ReuseOpens ==
    ASSUME PoolInv, LostOnlyToReuse, NEW t \in Tasks, NEW h \in Handles,
           Opens(t, h), NEW p \in {"connecting", "queued"}, Moves(t, p),
           phase[t] \notin {"connecting", "queued", "running", "closing",
                            "closed", "deleted"}
    PROVE  LostOnlyToReuse'
<1>1. /\ table[h] = Free /\ Free \notin Tasks
      /\ sock' = [sock EXCEPT ![t] = h] /\ table' = [table EXCEPT ![h] = t]
      /\ phase' = [phase EXCEPT ![t] = p]
      /\ sock \in [Tasks -> Handles \cup {NoSocket}] /\ phase \in [Tasks -> Phases]
      /\ table \in [Handles -> Tasks \cup {Free}]
  BY NamesAssumption DEF PoolInv, TypeOK, Opens, Available, Moves
<1> SUFFICES ASSUME NEW s \in Tasks,
                    phase'[s] \in {"connecting", "queued", "running"},
                    table'[sock'[s]] # s
             PROVE  \E u \in Tasks \ {s} : /\ sock'[u] = sock'[s]
                                           /\ phase'[u] \in {"closing", "closed", "deleted"}
  BY DEF LostOnlyToReuse
<1>2. s # t
  BY <1>1
<1>3. phase[s] \in {"connecting", "queued", "running"} /\ sock[s] \in Handles
  BY <1>1, <1>2 DEF PoolInv, TypeOK
<1>4. table[sock[s]] # s
  BY <1>1, <1>2, <1>3
<1>5. PICK u \in Tasks \ {s} :
        sock[u] = sock[s] /\ phase[u] \in {"closing", "closed", "deleted"}
  BY <1>3, <1>4 DEF LostOnlyToReuse
<1>6. u # t
  BY <1>5
<1> QED BY <1>1, <1>2, <1>5, <1>6

\* A task that closes a handle is the one that others lose it to; a failing
\* AddTask closes its own socket, or one that was lost before.
LEMMA ReuseClose ==
    ASSUME PoolInv, LostOnlyToReuse, NEW t \in Tasks, sock[t] \in Handles,
           closesocket(sock[t]), NEW p \in {"failed", "closing", "closed", "deleted"},
           Moves(t, p), UNCHANGED sock,
           phase[t] \in {"connecting", "running", "closing", "closed"},
           p = "failed" <=> phase[t] = "connecting"
    PROVE  LostOnlyToReuse'
<1>1. /\ table' = [table EXCEPT ![sock[t]] = Free]
      /\ phase' = [phase EXCEPT ![t] = p]
      /\ sock \in [Tasks -> Handles \cup {NoSocket}] /\ phase \in [Tasks -> Phases]
      /\ table \in [Handles -> Tasks \cup {Free}]
  BY DEF PoolInv, TypeOK, closesocket, Moves
<1> SUFFICES ASSUME NEW s \in Tasks,
                    phase'[s] \in {"connecting", "queued", "running"},
                    table'[sock[s]] # s
             PROVE  \E u \in Tasks \ {s} : /\ sock[u] = sock[s]
                                           /\ phase'[u] \in {"closing", "closed", "deleted"}
  BY DEF LostOnlyToReuse
<1>2. s # t
  BY <1>1
<1>3. phase[s] \in {"connecting", "queued", "running"} /\ sock[s] \in Handles
  BY <1>1, <1>2 DEF PoolInv, TypeOK
<1>4. CASE table[sock[s]] # s
  <2>1. PICK u \in Tasks \ {s} :
          sock[u] = sock[s] /\ phase[u] \in {"closing", "closed", "deleted"}
    BY <1>3, <1>4 DEF LostOnlyToReuse
  <2>2. phase'[u] \in {"closing", "closed", "deleted"}
    BY <1>1, <2>1
  <2> QED BY <2>1, <2>2
<1>5. CASE table[sock[s]] = s
  <2>1. sock[s] = sock[t] /\ table[sock[t]] # t
    BY <1>1, <1>2, <1>3, <1>5
  <2>2. CASE phase[t] # "connecting"
    <3>1. phase'[t] \in {"closing", "closed", "deleted"}
      BY <1>1, <2>2
    <3> QED BY <1>2, <2>1, <3>1
  <2>3. CASE phase[t] = "connecting"
    <3>1. PICK u \in Tasks \ {t} :
            sock[u] = sock[t] /\ phase[u] \in {"closing", "closed", "deleted"}
      BY <2>1, <2>3 DEF LostOnlyToReuse
    <3>2. u # s /\ phase'[u] \in {"closing", "closed", "deleted"}
      BY <1>1, <1>3, <3>1
    <3> QED BY <2>1, <3>1, <3>2
  <2> QED BY <2>2, <2>3
<1> QED BY <1>4, <1>5

\* A task that goes on with its connection, or needs none.
LEMMA ReuseMove ==
    ASSUME PoolInv, LostOnlyToReuse, NEW t \in Tasks, NEW p \in Phases, Moves(t, p),
           UNCHANGED table,
           \/ phase[t] \in {"connecting", "queued"} /\ sock' = sock
              /\ p \in {"queued", "running"}
           \/ /\ phase[t] \in {"none", "arrived", "reset", "failed"}
              /\ p \in {"arrived", "reset", "lost", "failed"}
              /\ sock' = sock \/ sock' = [sock EXCEPT ![t] = NoSocket]
    PROVE  LostOnlyToReuse'
<1>1. /\ phase' = [phase EXCEPT ![t] = p] /\ phase \in [Tasks -> Phases]
      /\ sock \in [Tasks -> Handles \cup {NoSocket}]
      /\ \A u \in Tasks : u # t => sock'[u] = sock[u] /\ phase'[u] = phase[u]
  BY DEF PoolInv, TypeOK, Moves
<1> SUFFICES ASSUME NEW s \in Tasks,
                    phase'[s] \in {"connecting", "queued", "running"},
                    table[sock'[s]] # s
             PROVE  \E u \in Tasks \ {s} : /\ sock'[u] = sock'[s]
                                           /\ phase'[u] \in {"closing", "closed", "deleted"}
  BY DEF LostOnlyToReuse
<1>2. phase[s] \in {"connecting", "queued", "running"} /\ sock'[s] = sock[s]
  BY <1>1
<1>3. PICK u \in Tasks \ {s} :
        sock[u] = sock[s] /\ phase[u] \in {"closing", "closed", "deleted"}
  BY <1>2 DEF LostOnlyToReuse
<1>4. u # t
  BY <1>3
<1> QED BY <1>1, <1>2, <1>3, <1>4

\* Every step keeps it.
LEMMA ReuseStep == PoolInv /\ LostOnlyToReuse /\ [Next]_vars => LostOnlyToReuse'
<1> SUFFICES ASSUME PoolInv, LostOnlyToReuse, [Next]_vars PROVE LostOnlyToReuse'
  OBVIOUS
<1>1. CASE On_Accept_CallBack
  <2> DEFINE t == Head(backlog)
  <2>1. t \in Tasks
    BY <1>1 DEF PoolInv, TypeOK, On_Accept_CallBack
  <2>2. Accepts(t) \/ AcceptFails(t)
    BY <1>1 DEF On_Accept_CallBack
  <2> HIDE DEF t
  <2>3. CASE Accepts(t)
    <3>1. PICK h \in Handles : Opens(t, h)
      BY <2>3 DEF Accepts
    <3>2. Moves(t, "queued") /\ phase[t] = "arrived"
      BY <2>3 DEF Accepts, Submit
    <3> QED BY <2>1, <3>1, <3>2, ReuseOpens
  <2>4. CASE AcceptFails(t)
    <3>1. /\ Moves(t, "lost") /\ "lost" \in Phases /\ phase[t] = "reset"
          /\ sock' = [sock EXCEPT ![t] = NoSocket] /\ UNCHANGED table
      BY <2>4 DEF AcceptFails, Phases
    <3> QED BY <2>1, <3>1, ReuseMove
  <2> QED BY <2>2, <2>3, <2>4
<1>2. ASSUME NEW t \in Tasks, Arrive(t) \/ ClientGoesAway(t) PROVE LostOnlyToReuse'
  <2>1. PICK p \in {"arrived", "reset"} : Moves(t, p)
    BY <1>2 DEF Arrive, ClientGoesAway
  <2>2. p \in Phases /\ phase[t] \in {"none", "arrived"} /\ UNCHANGED <<table, sock>>
    BY <1>2 DEF Arrive, ClientGoesAway, Phases
  <2> QED BY <2>1, <2>2, ReuseMove
<1>3. ASSUME NEW t \in Tasks, AddTaskRefused(t) PROVE LostOnlyToReuse'
  <2>1. /\ Moves(t, "failed") /\ "failed" \in Phases /\ UNCHANGED table
        /\ phase[t] \in {"none", "failed"}
        /\ sock' = sock \/ sock' = [sock EXCEPT ![t] = NoSocket]
    BY <1>3 DEF AddTaskRefused, MayAdd, Phases
  <2> QED BY <2>1, ReuseMove
<1>4. ASSUME NEW t \in Tasks, AddTaskConnects(t) PROVE LostOnlyToReuse'
  <2>1. PICK h \in Handles : Opens(t, h)
    BY <1>4 DEF AddTaskConnects
  <2>2. Moves(t, "connecting") /\ phase[t] \in {"none", "failed"}
    BY <1>4 DEF AddTaskConnects, MayAdd
  <2> QED BY <2>1, <2>2, ReuseOpens
<1>5. ASSUME NEW t \in Tasks, AddTaskConnected(t) PROVE LostOnlyToReuse'
  <2>1. /\ Moves(t, "queued") /\ "queued" \in Phases /\ phase[t] = "connecting"
        /\ UNCHANGED <<table, sock>>
    BY <1>5 DEF AddTaskConnected, Submit, Phases
  <2> QED BY <2>1, ReuseMove
<1>6. ASSUME NEW t \in Tasks, ServerThreadPoolWorking(t) PROVE LostOnlyToReuse'
  <2>1. /\ Moves(t, "running") /\ "running" \in Phases
        /\ UNCHANGED <<table, sock>>
    BY <1>6 DEF ServerThreadPoolWorking, Phases
  <2>2. phase[t] = "queued"
    BY <1>6, TakenWasQueued DEF PoolInv
  <2> QED BY <2>1, <2>2, ReuseMove
<1>7. ASSUME NEW t \in Tasks,
             \/ AddTaskUnconnected(t) \/ CloseSocket(t)
             \/ CloseOnTwo(t) \/ ReleaseTask(t)
      PROVE  LostOnlyToReuse'
  <2>1. /\ closesocket(sock[t]) /\ UNCHANGED sock
        /\ phase[t] \in {"connecting", "running", "closing", "closed"}
    BY <1>7 DEF AddTaskUnconnected, CloseSocket, CloseOnTwo, ReleaseTask
  <2>2. PICK p \in {"failed", "closing", "closed", "deleted"} :
          Moves(t, p) /\ (p = "failed" <=> phase[t] = "connecting")
    BY <1>7 DEF AddTaskUnconnected, CloseSocket, CloseOnTwo, ReleaseTask
  <2>3. sock[t] \in Handles
    BY <2>1 DEF PoolInv, TypeOK
  <2> QED BY <2>1, <2>2, <2>3, ReuseClose
<1>8. CASE UNCHANGED vars
  BY <1>8 DEF LostOnlyToReuse, vars
<1> QED BY <1>1, <1>2, <1>3, <1>4, <1>5, <1>6, <1>7, <1>8 DEF Next, Finished

\* A task loses the connection it needs only to another that has closed the
\* same handle value before: the second close of Bosnnc.cpp is the only way
\* in which this code takes a socket from a task.
THEOREM OnlyReuseTakesSockets == Spec => []LostOnlyToReuse
<1>1. Init => LostOnlyToReuse
  BY DEF Init, LostOnlyToReuse
<1>2. PoolInv /\ LostOnlyToReuse /\ [Next]_vars => LostOnlyToReuse'
  BY ReuseStep
<1> QED BY <1>1, <1>2, Invariance, PTL DEF Spec

-----------------------------------------------------------------------------
(* The process serves its connections as Service says.                      *)

Waiting == {t \in Tasks : phase[t] = "arrived" \/ queue[t] > 0}

Gone == {t \in Tasks : phase[t] \in {"reset", "lost", "deleted"}}

\* A task is in one place at a time.
LEMMA Places ==
    ASSUME PoolInv, NEW t \in Tasks
    PROVE  /\ t \in Waiting <=> phase[t] \in {"arrived", "queued"}
           /\ t \in Busy <=> phase[t] \in {"running", "closing", "closed"}
           /\ t \in Gone <=> phase[t] \in {"reset", "lost", "deleted"}
<1>1. queue[t] > 0 <=> phase[t] = "queued"
  BY DEF PoolInv, TypeOK, SubmittedOnce
<1> QED BY <1>1 DEF Waiting, Busy, Gone

\* A step that moves one task moves nobody else between the three.
LEMMA OneMoves ==
    ASSUME PoolInv, PoolInv', NEW t \in Tasks, NEW p \in Phases, Moves(t, p)
    PROVE  /\ Waiting' = IF p \in {"arrived", "queued"}
                           THEN Waiting \cup {t} ELSE Waiting \ {t}
           /\ Busy' = IF p \in {"running", "closing", "closed"}
                        THEN Busy \cup {t} ELSE Busy \ {t}
           /\ Gone' = IF p \in {"reset", "lost", "deleted"}
                        THEN Gone \cup {t} ELSE Gone \ {t}
<1>1. phase' = [phase EXCEPT ![t] = p] /\ phase \in [Tasks -> Phases]
  BY DEF PoolInv, TypeOK, Moves
<1>2. \A u \in Tasks : /\ u \in Waiting <=> phase[u] \in {"arrived", "queued"}
                       /\ u \in Busy <=> phase[u] \in {"running", "closing", "closed"}
                       /\ u \in Gone <=> phase[u] \in {"reset", "lost", "deleted"}
  BY Places
<1>3. \A u \in Tasks : /\ u \in Waiting' <=> phase'[u] \in {"arrived", "queued"}
                       /\ u \in Busy' <=> phase'[u] \in {"running", "closing", "closed"}
                       /\ u \in Gone' <=> phase'[u] \in {"reset", "lost", "deleted"}
  <2>1. \A u \in Tasks : queue'[u] > 0 <=> phase'[u] = "queued"
    BY DEF PoolInv, TypeOK, SubmittedOnce
  <2> QED BY <2>1 DEF Waiting, Busy, Gone
<1>4. Waiting \subseteq Tasks /\ Waiting' \subseteq Tasks
  BY DEF Waiting
<1>5. Busy \subseteq Tasks /\ Busy' \subseteq Tasks
  BY DEF Busy
<1>6. Gone \subseteq Tasks /\ Gone' \subseteq Tasks
  BY DEF Gone
<1>7. Waiting' = IF p \in {"arrived", "queued"} THEN Waiting \cup {t} ELSE Waiting \ {t}
  BY <1>1, <1>2, <1>3, <1>4
<1>8. Busy' = IF p \in {"running", "closing", "closed"}
                THEN Busy \cup {t} ELSE Busy \ {t}
  BY <1>1, <1>2, <1>3, <1>5
<1>9. Gone' = IF p \in {"reset", "lost", "deleted"} THEN Gone \cup {t} ELSE Gone \ {t}
  BY <1>1, <1>2, <1>3, <1>6
<1> QED BY <1>7, <1>8, <1>9

\* A task that nobody serves and that is not gone comes, and one that waits goes on.
LEMMA Comes ==
    ASSUME PoolInv, PoolInv', NEW t \in Tasks, NEW p \in {"arrived", "queued"},
           Moves(t, p), phase[t] \in {"none", "connecting", "failed", "arrived"}
    PROVE  Svc!Come(t) \/ UNCHANGED <<Waiting, Busy, Gone>>
<1>1. p \in Phases
  BY DEF Phases
<1>2. Waiting' = Waiting \cup {t} /\ Busy' = Busy \ {t} /\ Gone' = Gone \ {t}
  BY <1>1, OneMoves
<1>3. t \notin Busy /\ t \notin Gone
  BY Places
<1>4. Busy' = Busy /\ Gone' = Gone
  BY <1>2, <1>3
<1>5. CASE t \in Waiting
  BY <1>2, <1>4, <1>5
<1>6. CASE t \notin Waiting
  BY <1>2, <1>3, <1>4, <1>6 DEF Svc!Come, Waiting, Gone
<1> QED BY <1>5, <1>6

\* A task that stays where it is, as Service sees it.
LEMMA Stays ==
    ASSUME PoolInv, PoolInv', NEW t \in Tasks, NEW p \in Phases, Moves(t, p),
           \/ phase[t] \in {"none", "connecting", "failed"}
              /\ p \in {"connecting", "failed"}
           \/ phase[t] \in {"running", "closing"} /\ p \in {"closing", "closed"}
           \/ phase[t] = "reset" /\ p = "lost"
    PROVE  UNCHANGED <<Waiting, Busy, Gone>>
<1>1. /\ Waiting' = IF p \in {"arrived", "queued"}
                      THEN Waiting \cup {t} ELSE Waiting \ {t}
      /\ Busy' = IF p \in {"running", "closing", "closed"}
                   THEN Busy \cup {t} ELSE Busy \ {t}
      /\ Gone' = IF p \in {"reset", "lost", "deleted"}
                   THEN Gone \cup {t} ELSE Gone \ {t}
  BY OneMoves
<1>2. /\ t \in Waiting <=> phase[t] \in {"arrived", "queued"}
      /\ t \in Busy <=> phase[t] \in {"running", "closing", "closed"}
      /\ t \in Gone <=> phase[t] \in {"reset", "lost", "deleted"}
  BY Places
<1> QED BY <1>1, <1>2

\* A client that goes away before it is accepted.
LEMMA GivesUp ==
    ASSUME PoolInv, PoolInv', NEW t \in Tasks, ClientGoesAway(t)
    PROVE  Svc!GiveUp(t)
<1>1. phase[t] = "arrived" /\ Moves(t, "reset") /\ "reset" \in Phases
  BY DEF ClientGoesAway, Phases
<1>2. Waiting' = Waiting \ {t} /\ Busy' = Busy \ {t} /\ Gone' = Gone \cup {t}
  BY <1>1, OneMoves
<1>3. t \in Waiting /\ t \notin Busy
  BY <1>1, Places
<1>4. Busy' = Busy
  BY <1>2, <1>3
<1> QED BY <1>2, <1>3, <1>4 DEF Svc!GiveUp, Waiting, Gone

\* A thread serves the task it takes.
LEMMA Taken ==
    ASSUME PoolInv, PoolInv', NEW t \in Tasks, ServerThreadPoolWorking(t)
    PROVE  Svc!Serve(t)
<1>1. /\ phase[t] = "queued" /\ Moves(t, "running") /\ "running" \in Phases
      /\ Cardinality(Busy) < MaxThreads
  BY TakenWasQueued DEF PoolInv, ServerThreadPoolWorking, Phases
<1>2. Waiting' = Waiting \ {t} /\ Busy' = Busy \cup {t} /\ Gone' = Gone \ {t}
  BY <1>1, OneMoves
<1>3. t \in Waiting /\ t \notin Gone
  BY <1>1, Places
<1>4. Gone' = Gone
  BY <1>2, <1>3
<1> QED BY <1>1, <1>2, <1>3, <1>4
           DEF Svc!Serve, Svc!Cardinality, Cardinality, Waiting, Gone

\* A task that is released has been served.
LEMMA Released ==
    ASSUME PoolInv, PoolInv', NEW t \in Tasks, ReleaseTask(t)
    PROVE  Svc!Finish(t)
<1>1. phase[t] \in {"running", "closed"} /\ Moves(t, "deleted") /\ "deleted" \in Phases
  BY DEF ReleaseTask, Phases
<1>2. Waiting' = Waiting \ {t} /\ Busy' = Busy \ {t} /\ Gone' = Gone \cup {t}
  BY <1>1, OneMoves
<1>3. t \in Busy /\ t \notin Waiting
  BY <1>1, Places
<1>4. Waiting' = Waiting
  BY <1>2, <1>3
<1> QED BY <1>2, <1>3, <1>4 DEF Svc!Finish, Waiting, Gone

\* The accepting thread hands over one that waits, or forgets one that is gone.
LEMMA Accepted ==
    ASSUME PoolInv, PoolInv', On_Accept_CallBack
    PROVE  (\E t \in Tasks : Svc!Come(t)) \/ UNCHANGED <<Waiting, Busy, Gone>>
<1> DEFINE t == Head(backlog)
<1>1. t \in Tasks
  BY DEF PoolInv, TypeOK, On_Accept_CallBack
<1>2. Accepts(t) \/ AcceptFails(t)
  BY DEF On_Accept_CallBack
<1> HIDE DEF t
<1>3. CASE Accepts(t)
  <2>1. phase[t] = "arrived" /\ Moves(t, "queued")
    BY <1>3 DEF Accepts, Submit
  <2> QED BY <1>1, <2>1, Comes
<1>4. CASE AcceptFails(t)
  <2>1. phase[t] = "reset" /\ Moves(t, "lost") /\ "lost" \in Phases
    BY <1>4 DEF AcceptFails, Phases
  <2> QED BY <1>1, <2>1, Stays
<1> QED BY <1>2, <1>3, <1>4

\* The steps that Service does not see.
LEMMA Unseen ==
    ASSUME PoolInv, PoolInv', NEW t \in Tasks,
           \/ AddTaskRefused(t) \/ AddTaskConnects(t) \/ AddTaskUnconnected(t)
           \/ CloseSocket(t) \/ CloseOnTwo(t)
    PROVE  UNCHANGED <<Waiting, Busy, Gone>>
<1>1. CASE AddTaskRefused(t) \/ AddTaskConnects(t) \/ AddTaskUnconnected(t)
  <2>1. PICK p \in {"connecting", "failed"} :
          Moves(t, p) /\ phase[t] \in {"none", "connecting", "failed"}
    BY <1>1 DEF AddTaskRefused, AddTaskConnects, AddTaskUnconnected, MayAdd
  <2>2. p \in Phases
    BY DEF Phases
  <2> QED BY <2>1, <2>2, Stays
<1>2. CASE CloseSocket(t) \/ CloseOnTwo(t)
  <2>1. PICK p \in {"closing", "closed"} :
          Moves(t, p) /\ phase[t] \in {"running", "closing"}
    BY <1>2 DEF CloseSocket, CloseOnTwo
  <2>2. p \in Phases
    BY DEF Phases
  <2> QED BY <2>1, <2>2, Stays
<1> QED BY <1>1, <1>2

\* Whatever AddTask, clients and accept do, nobody is served twice, served
\* after it was gone, or served beyond the number of threads.
THEOREM ImplementsService == Spec => Serves
<1>1. Init => Svc!Init
  BY DEF Init, Svc!Init, Busy
<1>2. PoolInv /\ PoolInv' /\ [Next]_vars => [Svc!Next]_(Svc!vars)
  <2> SUFFICES ASSUME PoolInv, PoolInv', [Next]_vars
               PROVE  Svc!Next \/ UNCHANGED <<Waiting, Busy, Gone>>
    BY DEF Svc!vars, Waiting, Gone
  <2>1. CASE On_Accept_CallBack
    BY <2>1, Accepted DEF Svc!Next
  <2>2. ASSUME NEW t \in Tasks, Arrive(t) \/ AddTaskConnected(t)
        PROVE  Svc!Come(t) \/ UNCHANGED <<Waiting, Busy, Gone>>
    <3>1. /\ phase[t] \in {"none", "connecting"}
          /\ Moves(t, "arrived") \/ Moves(t, "queued")
      BY <2>2 DEF Arrive, AddTaskConnected, Submit
    <3> QED BY <3>1, Comes
  <2>3. ASSUME NEW t \in Tasks, ClientGoesAway(t) PROVE Svc!GiveUp(t)
    BY <2>3, GivesUp
  <2>4. ASSUME NEW t \in Tasks, ServerThreadPoolWorking(t) PROVE Svc!Serve(t)
    BY <2>4, Taken
  <2>5. ASSUME NEW t \in Tasks, ReleaseTask(t) PROVE Svc!Finish(t)
    BY <2>5, Released
  <2>6. ASSUME NEW t \in Tasks,
               \/ AddTaskRefused(t) \/ AddTaskConnects(t) \/ AddTaskUnconnected(t)
               \/ CloseSocket(t) \/ CloseOnTwo(t)
        PROVE  UNCHANGED <<Waiting, Busy, Gone>>
    BY <2>6, Unseen
  <2>7. CASE UNCHANGED vars
    BY <2>7 DEF vars, Waiting, Busy, Gone
  <2> QED BY <2>1, <2>2, <2>3, <2>4, <2>5, <2>6, <2>7 DEF Next, Finished, Svc!Next
<1> QED BY <1>1, <1>2, Invariance, PTL DEF Spec, Serves, Svc!Spec

=============================================================================

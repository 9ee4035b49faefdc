------------------------------- MODULE Facade -------------------------------
(***************************************************************************)
(* The Bosncc singleton (Bosnnc.cpp, lines 3-29 and 74-275): its creation  *)
(* without a lock, the settings, Init with each of its exits, Start, and   *)
(* the settings a new task copies in On_Accept_CallBack.                   *)
(*                                                                         *)
(* One thread of the application, Main, keeps the pointer it got, as those *)
(* of Bosncc_C/main.cpp and Bosncc_S/main.cpp do, and calls SetRunoModel,  *)
(* the setters, Init and Start in any order and any number of times,       *)
(* whatever they return.  Any other thread may call GetInstance and        *)
(* SetTimeout meanwhile.                                                   *)
(***************************************************************************)
EXTENDS Integers, Sequences, FiniteSets

CONSTANTS
    Threads, Main,
    NULL,
    Unset,    \* what a field holds that the constructor leaves alone
    Ports,    \* values of SetListenport
    Timeouts, \* values of SetTimeout
    Functions, \* business functions
    MaxInits  \* bound: calls of Init

ASSUME ThreadsAssumption ==
    Main \in Threads /\ NULL \notin Threads \cup Int /\ MaxInits \in Nat
ASSUME UnsetAssumption == Unset \notin Ports \cup Timeouts \cup Functions \cup Int

VARIABLES
    m_Instance, CreatInstance, RunModel, \* the static members
    obj,    \* obj[o]: the Bosncc object that thread o made, if it made one
    pc,     \* pc[t]: where in GetInstance or Start the thread t is
    ptr,    \* ptr[t]: what GetInstance last returned to t
    inits,  \* what each call of ServerInit left: the port, the state of the
            \* listening socket and of the event base
    wsa,    \* WSAStartup calls without their WSACleanup
    ready,  \* history: an Init of a server has returned 0 since the last Start
            \* returned, and none -8 after it
    called, \* history: SetTimeout, if Main has called it, and
            \* SetBusinessFunction, if it has since it set the mode
    task    \* the settings of the task accepted last

vars == <<m_Instance, CreatInstance, RunModel, obj, pc, ptr, inits, wsa, ready, called, task>>
statics == <<m_Instance, CreatInstance, RunModel>>

-----------------------------------------------------------------------------
(* GetInstance, in the steps another thread can come between.               *)

\* Mutant: the flag is set before the object is there.
Test_FlagFirst(t) ==
    /\ pc[t] = "idle" /\ (t = Main => ptr[t] = NULL)
    /\ pc' = [pc EXCEPT ![t] = IF m_Instance = NULL /\ ~CreatInstance
                               THEN "passed" ELSE "returning"]
    /\ CreatInstance' = TRUE
    /\ UNCHANGED <<m_Instance, RunModel, obj, ptr, inits, wsa, ready, called, task>>

Test(t) ==
    /\ pc[t] = "idle" /\ (t = Main => ptr[t] = NULL)
    /\ pc' = [pc EXCEPT ![t] = IF m_Instance = NULL /\ ~CreatInstance
                               THEN "passed" ELSE "returning"]
    /\ UNCHANGED <<statics, obj, ptr, inits, wsa, ready, called, task>>

\* The constructor: two assignments, and the other members stay unset.
Construct(t) ==
    /\ pc[t] = "passed"
    /\ CreatInstance' = TRUE
    /\ pc' = [pc EXCEPT ![t] = "constructed"]
    /\ UNCHANGED <<m_Instance, RunModel, obj, ptr, inits, wsa, ready, called, task>>

Assign(t) ==
    /\ pc[t] = "constructed"
    /\ m_Instance' = t
    /\ pc' = [pc EXCEPT ![t] = "returning"]
    /\ UNCHANGED <<CreatInstance, RunModel, obj, ptr, inits, wsa, ready, called, task>>

\* m_Instance is read again.
Return(t) ==
    /\ pc[t] = "returning"
    /\ ptr' = [ptr EXCEPT ![t] = m_Instance]
    /\ pc' = [pc EXCEPT ![t] = "idle"]
    /\ UNCHANGED <<statics, obj, inits, wsa, ready, called, task>>

GetInstance(t) == Test(t) \/ Construct(t) \/ Assign(t) \/ Return(t)

-----------------------------------------------------------------------------
(* Mode and settings.                                                       *)

Calls(t) == pc[t] = "idle" /\ ptr[t] # NULL
This == obj[ptr[Main]]

\* Later calls return -1.  RunSetModel is set with RunModel.
SetRunoModel(model) ==
    /\ Calls(Main) /\ RunModel = "none"
    /\ RunModel' = model
    /\ UNCHANGED <<m_Instance, CreatInstance, obj, pc, ptr, inits, wsa, ready, called, task>>

SetListenport(p) ==
    /\ Calls(Main)
    /\ obj' = IF This.Started \/ RunModel # "server" THEN obj
              ELSE [obj EXCEPT ![ptr[Main]].Listenport = p]
    /\ UNCHANGED <<statics, pc, ptr, inits, wsa, ready, called, task>>

\* Mutant: the test of Started the wrong way round.
SetBusinessFunction_Inverted(f) ==
    /\ Calls(Main)
    /\ obj' = IF RunModel # "server" \/ ~This.Started THEN obj
              ELSE [obj EXCEPT ![ptr[Main]].Business_CallBack = f]
    /\ called' = IF RunModel = "none" THEN called
                 ELSE called \cup {"SetBusinessFunction"}
    /\ UNCHANGED <<statics, pc, ptr, inits, wsa, ready, task>>

SetBusinessFunction(f) ==
    /\ Calls(Main)
    /\ obj' = IF RunModel # "server" \/ This.Started THEN obj
              ELSE [obj EXCEPT ![ptr[Main]].Business_CallBack = f]
    /\ called' = IF RunModel = "none" THEN called
                 ELSE called \cup {"SetBusinessFunction"}
    /\ UNCHANGED <<statics, pc, ptr, inits, wsa, ready, task>>

\* Not guarded, and possible while the loop runs.
SetTimeout(t, n) ==
    /\ Calls(t)
    /\ obj' = [obj EXCEPT ![ptr[t]].Timeout = n]
    /\ called' = IF t = Main THEN called \cup {"SetTimeout"} ELSE called
    /\ UNCHANGED <<statics, pc, ptr, inits, wsa, ready, task>>

-----------------------------------------------------------------------------
(* Init.  Each exit is a return value; what it leaves behind differs.       *)

Exits == {0, -2, -3, -4, -5, -6, -7, -8}

\* Mutant: -5 leaves the socket to the caller and cleans up all the same.
SocketAfter_LeftOpen(r) ==
    IF r \in {-2, -3, -4} THEN "none"
    ELSE IF r \in {-5, -6} THEN "open" ELSE "listening"

SocketAfter(r) ==
    IF r \in {-2, -3, -4} THEN "none"
    ELSE IF r = -5 THEN "closed" ELSE IF r = -6 THEN "open" ELSE "listening"

\* Mutant: a startup that failed is cleaned up as well.
WsaAfter_AlwaysCleans(r) ==
    IF r = -2 THEN wsa - 1 ELSE IF r \in {-3, -5} THEN wsa ELSE wsa + 1

WsaAfter(r) == IF r \in {-2, -3, -5} THEN wsa ELSE wsa + 1

\* A port is taken by a socket bound to it until that is closed.  Whether the
\* number is that an unset Listenport happens to hold, nobody knows.
Taken(p) ==
    /\ p # Unset
    /\ \E i \in DOMAIN inits : inits[i].port = p /\ inits[i].sock \in {"open", "listening"}

\* Mutant: a base that is there is used again.
BaseAfter_KeepsOld(r) ==
    IF r = 0 /\ This.Main_Base \in {Unset, NULL} THEN Len(inits) + 1
    ELSE IF r = -8 THEN NULL ELSE This.Main_Base

\* Main_Base: the base made by this Init; event_base_new may have returned NULL.
BaseAfter(r) ==
    IF r = 0 THEN Len(inits) + 1 ELSE IF r = -8 THEN NULL ELSE This.Main_Base

ServerInit(r) ==
    /\ Calls(Main) /\ RunModel = "server"
    /\ Len(inits) < MaxInits
    /\ Taken(This.Listenport) => r \in {-2, -3, -4, -5}
    /\ inits' = Append(inits, [port |-> This.Listenport, sock |-> SocketAfter(r),
                               base |-> IF r = 0 THEN "live" ELSE "none"])
    /\ wsa' = WsaAfter(r)
    /\ obj' = [obj EXCEPT ![ptr[Main]].Main_Base = BaseAfter(r)]
    /\ ready' = (r = 0 \/ (ready /\ r # -8))
    /\ UNCHANGED <<statics, pc, ptr, called, task>>

ClientInit(r) ==
    /\ Calls(Main) /\ RunModel = "client"
    /\ Len(inits) < MaxInits
    /\ r \in {0, -2, -3, -4}
    /\ inits' = Append(inits, [port |-> Unset, sock |-> "none", base |-> "none"])
    /\ wsa' = WsaAfter(r)
    /\ UNCHANGED <<statics, obj, pc, ptr, ready, called, task>>

-----------------------------------------------------------------------------
(* Start and the loop.                                                      *)

\* Whatever Init returned, and whether or not it was called.
Start ==
    /\ Calls(Main) /\ RunModel = "server"
    /\ ~This.Started
    /\ obj' = [obj EXCEPT ![ptr[Main]].Started = TRUE]
    /\ pc' = [pc EXCEPT ![Main] = "serving"]
    /\ UNCHANGED <<statics, ptr, inits, wsa, ready, called, task>>

\* Main_Base is a base that was made and not freed, with an open listener.
Live ==
    /\ This.Main_Base \in DOMAIN inits
    /\ inits[This.Main_Base].base = "live"
    /\ inits[This.Main_Base].sock = "listening"

\* The settings are read through GetInstance, whoever called Start.
On_Accept_CallBack ==
    /\ pc[Main] = "serving" /\ Live
    /\ CreatInstance
    /\ task' = [Timeout |-> obj[m_Instance].Timeout,
                Business_CallBack |-> obj[m_Instance].Business_CallBack]
    /\ UNCHANGED <<statics, obj, pc, ptr, inits, wsa, ready, called>>

\* event_base_dispatch returns; the base is freed, the socket stays open and
\* Main_Base what it was.  On a base that is not Live the two calls are
\* undefined: they may return all the same, or the process ends and Main stays
\* where it is, which is all that can happen with NULL.
StartReturns ==
    /\ pc[Main] = "serving" /\ This.Main_Base # NULL
    /\ obj' = [obj EXCEPT ![ptr[Main]].Started = FALSE]
    /\ inits' = IF Live THEN [inits EXCEPT ![This.Main_Base].base = "freed"] ELSE inits
    /\ pc' = [pc EXCEPT ![Main] = "idle"]
    /\ ready' = FALSE
    /\ UNCHANGED <<statics, ptr, wsa, called, task>>

-----------------------------------------------------------------------------
Init ==
    /\ m_Instance = NULL /\ CreatInstance = FALSE /\ RunModel = "none"
    /\ obj = [o \in Threads |-> [Started |-> FALSE, Listenport |-> Unset,
                Timeout |-> Unset, Business_CallBack |-> Unset, Main_Base |-> Unset]]
    /\ pc = [t \in Threads |-> "idle"]
    /\ ptr = [t \in Threads |-> NULL]
    /\ inits = <<>> /\ wsa = 0 /\ ready = FALSE /\ called = {}
    /\ task = Unset

Next ==
    \/ \E t \in Threads : GetInstance(t) \/ \E n \in Timeouts : SetTimeout(t, n)
    \/ \E model \in {"client", "server"} : SetRunoModel(model)
    \/ \E p \in Ports : SetListenport(p)
    \/ \E r \in Exits : ServerInit(r) \/ ClientInit(r)
    \/ \E f \in Functions : SetBusinessFunction(f)
    \/ Start \/ On_Accept_CallBack \/ StartReturns

Spec == Init /\ [][Next]_vars

-----------------------------------------------------------------------------
(* Properties. *)

\* The members and the threads are in one of their states.
TypeOK ==
    /\ m_Instance \in Threads \cup {NULL} /\ CreatInstance \in BOOLEAN
    /\ RunModel \in {"none", "client", "server"}
    /\ obj \in [Threads -> [Started : BOOLEAN, Listenport : Ports \cup {Unset},
                            Timeout : Timeouts \cup {Unset},
                            Business_CallBack : Functions \cup {Unset},
                            Main_Base : Nat \cup {NULL, Unset}]]
    /\ pc \in [Threads -> {"idle", "passed", "constructed", "returning", "serving"}]
    /\ ptr \in [Threads -> Threads \cup {NULL}]
    /\ inits \in Seq([port : Ports \cup {Unset}, base : {"none", "live", "freed"},
                      sock : {"none", "closed", "open", "listening"}])
    /\ wsa \in Nat /\ ready \in BOOLEAN
    /\ called \subseteq {"SetTimeout", "SetBusinessFunction"}

\* GetInstance (line 8) tests and sets without a lock.  A caller is handed NULL
\* only while another thread is between the constructor and the assignment in
\* line 11, so that a caller that finds NULL and asks again gets the object.
NullOnlyInCreation ==
    [][\A t \in Threads : Return(t) /\ m_Instance = NULL =>
         \E u \in Threads : pc[u] = "constructed"]_vars

\* Each open listening socket has a WSAStartup of its own that is still in
\* force, however many calls of Init failed on the way: the exits that clean up
\* (lines 90, 117, 134-135) and those that do not leave no socket without one.
WsaCoversSockets ==
    Cardinality({i \in DOMAIN inits : inits[i].sock \in {"open", "listening"}}) <= wsa

\* Start dispatches Main_Base without a look at it (line 182).  It is a base
\* that is there, with a listener that is open, exactly when an Init has returned
\* 0 since the last Start returned and none has failed at event_base_new after
\* it; an Init that fails earlier does no harm.  A second Start without another
\* Init is on a base that was freed (line 184), a Start without Init on none.
LoopHasListener == pc[Main] = "serving" => (ready <=> Live)

\* A task accepted gets a business function exactly when SetBusinessFunction was
\* called after SetRunoModel, and a timeout if SetTimeout was called at any time:
\* else it gets what the constructor left there (lines 272-275).  Unless a
\* racing GetInstance has put another object in the place of Main's.
TaskConfigured ==
    [][On_Accept_CallBack /\ ptr[Main] = m_Instance =>
         /\ task'.Business_CallBack \in Functions <=> "SetBusinessFunction" \in called
         /\ "SetTimeout" \in called => task'.Timeout \in Timeouts]_vars

=============================================================================

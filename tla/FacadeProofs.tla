---------------------------- MODULE FacadeProofs ----------------------------
(***************************************************************************)
(* Proofs about Facade, for any threads, ports, settings and calls.        *)
(***************************************************************************)
EXTENDS Facade, FiniteSetTheorems, SequenceTheorems, TLAPS

-----------------------------------------------------------------------------
(* The inductive invariant.                                                 *)

\* The members of a Bosncc object.
Object == [Started : BOOLEAN, Listenport : Ports \cup {Unset},
           Timeout : Timeouts \cup {Unset}, Business_CallBack : Functions \cup {Unset},
           Main_Base : Nat \cup {NULL, Unset}]

\* How far the creation is.  Who still has an assignment of m_Instance before
\* him has made an object that nobody has been handed.
Creation ==
    /\ \A t \in Threads : pc[t] \in {"constructed", "returning"} => CreatInstance
    /\ m_Instance # NULL => CreatInstance
    /\ \A t \in Threads : ptr[t] # NULL => CreatInstance
    /\ CreatInstance /\ m_Instance = NULL => \E u \in Threads : pc[u] = "constructed"
    /\ \A u \in Threads : pc[u] \in {"passed", "constructed"} =>
         m_Instance # u /\ \A t \in Threads : ptr[t] # u

\* Main keeps its pointer, and is the thread in the loop.
MainKeeps ==
    /\ ptr[Main] # NULL => pc[Main] \in {"idle", "serving"}
    /\ \A t \in Threads : pc[t] = "serving" => t = Main
    /\ \A o \in Threads : obj[o].Started => pc[Main] = "serving" /\ o = ptr[Main]
    /\ pc[Main] = "serving" => RunModel = "server"
    /\ RunModel # "none" => ptr[Main] # NULL

\* Only Main's object has a base, and the history says whether it is there.
BaseKnown ==
    /\ \A o \in Threads : obj[o].Main_Base \in DOMAIN inits \cup {NULL, Unset}
    /\ \A o \in Threads : o # ptr[Main] => obj[o].Main_Base = Unset
    /\ ready => ptr[Main] # NULL
    /\ ptr[Main] # NULL => (ready <=> Live)

\* What was called has had its effect, on Main's object.
Settled ==
    /\ \A o \in Threads : obj[o].Business_CallBack # Unset =>
         RunModel = "server" /\ o = ptr[Main]
    /\ "SetBusinessFunction" \in called => RunModel # "none"
    /\ RunModel = "server" =>
         (This.Business_CallBack \in Functions <=> "SetBusinessFunction" \in called)
    /\ "SetTimeout" \in called => ptr[Main] # NULL /\ This.Timeout \in Timeouts

FacadeInv ==
    /\ TypeOK /\ Creation /\ MainKeeps /\ BaseKnown /\ Settled /\ WsaCoversSockets

-----------------------------------------------------------------------------
(* The steps of GetInstance.                                                *)

\* They leave what Main has set up alone: only ptr[Main] matters to it, and that
\* changes once.
LEMMA CreationSteps ==
  ASSUME FacadeInv, NEW t \in Threads, GetInstance(t)
  PROVE  TypeOK' /\ Creation'
<1> USE ThreadsAssumption
<1>1. CASE Test(t)
  <2>1. TypeOK'  BY <1>1 DEF FacadeInv, TypeOK, Test, statics
  <2>2. Creation'  BY <1>1 DEF FacadeInv, TypeOK, Creation, Test, statics
  <2> QED  BY <2>1, <2>2
<1>2. CASE Construct(t)
  <2>1. TypeOK'  BY <1>2 DEF FacadeInv, TypeOK, Construct
  <2>2. Creation'  BY <1>2 DEF FacadeInv, TypeOK, Creation, Construct
  <2> QED  BY <2>1, <2>2
<1>3. CASE Assign(t)
  <2>1. TypeOK'  BY <1>3 DEF FacadeInv, TypeOK, Assign
  <2>2. Creation'  BY <1>3 DEF FacadeInv, TypeOK, Creation, Assign
  <2> QED  BY <2>1, <2>2
<1>4. CASE Return(t)
  <2>1. TypeOK'  BY <1>4 DEF FacadeInv, TypeOK, Return, statics
  <2>2. Creation'  BY <1>4 DEF FacadeInv, TypeOK, Creation, Return, statics
  <2> QED  BY <2>1, <2>2
<1> QED  BY <1>1, <1>2, <1>3, <1>4 DEF GetInstance

\* What the steps of GetInstance can change for Main: its pointer, from NULL.
LEMMA CreationFrame ==
  ASSUME FacadeInv, NEW t \in Threads, GetInstance(t)
  PROVE  /\ UNCHANGED <<RunModel, obj, inits, wsa, ready, called, task>>
         /\ ptr[Main] # NULL => ptr'[Main] = ptr[Main]
         /\ pc'[Main] = "serving" <=> pc[Main] = "serving"
<1> USE ThreadsAssumption
<1>1. CASE Test(t)  BY <1>1 DEF FacadeInv, TypeOK, Test, statics
<1>2. CASE Construct(t)  BY <1>2 DEF FacadeInv, TypeOK, Construct
<1>3. CASE Assign(t)  BY <1>3 DEF FacadeInv, TypeOK, Creation, Assign
<1>4. CASE Return(t)  BY <1>4 DEF FacadeInv, TypeOK, MainKeeps, Return, statics
<1> QED  BY <1>1, <1>2, <1>3, <1>4 DEF GetInstance

\* The rest of the invariant survives the steps of GetInstance: the object that
\* Main is handed first is as its constructor left it, but for its timeout.
LEMMA CreationKeeps ==
  ASSUME FacadeInv, NEW t \in Threads, GetInstance(t)
  PROVE  MainKeeps' /\ BaseKnown' /\ Settled' /\ WsaCoversSockets'
<1> USE ThreadsAssumption, UnsetAssumption
<1>0. /\ UNCHANGED <<RunModel, obj, inits, wsa, ready, called, task>>
      /\ ptr[Main] # NULL => ptr'[Main] = ptr[Main]
      /\ pc'[Main] = "serving" <=> pc[Main] = "serving"
  BY CreationFrame
<1>t. ptr'[Main] \in Threads \cup {NULL}
  BY CreationSteps DEF TypeOK
<1>1. MainKeeps'
  <2>1. CASE Test(t)  BY <2>1 DEF FacadeInv, TypeOK, MainKeeps, Test, statics
  <2>2. CASE Construct(t)  BY <2>2 DEF FacadeInv, TypeOK, MainKeeps, Construct
  <2>3. CASE Assign(t)  BY <2>3 DEF FacadeInv, TypeOK, MainKeeps, Assign
  <2>4. CASE Return(t)  BY <2>4 DEF FacadeInv, TypeOK, MainKeeps, Return, statics
  <2> QED  BY <2>1, <2>2, <2>3, <2>4 DEF GetInstance
<1>2. BaseKnown'
  <2>1. CASE ptr[Main] # NULL  BY <1>0, <2>1 DEF FacadeInv, BaseKnown, Live, This
  <2>2. CASE ptr[Main] = NULL
    <3>1. ~ready /\ \A o \in Threads : obj[o].Main_Base = Unset
      BY <2>2 DEF FacadeInv, BaseKnown
    <3>2. ptr'[Main] # NULL => ~Live'
      <4> SUFFICES ASSUME ptr'[Main] # NULL PROVE ~Live'  OBVIOUS
      <4>1. This'.Main_Base = Unset  BY <1>0, <1>t, <3>1 DEF This
      <4>2. DOMAIN inits' \subseteq Int  BY <1>0 DEF FacadeInv, TypeOK
      <4> QED  BY <4>1, <4>2 DEF Live
    <3> QED  BY <1>0, <3>1, <3>2 DEF BaseKnown
  <2> QED  BY <2>1, <2>2
<1>3. Settled'
  BY <1>0 DEF FacadeInv, MainKeeps, Settled, This
<1>4. WsaCoversSockets'
  BY <1>0 DEF FacadeInv, WsaCoversSockets
<1> QED  BY <1>1, <1>2, <1>3, <1>4

-----------------------------------------------------------------------------
(* Mode and settings.                                                       *)

\* SetRunoModel takes effect before SetBusinessFunction has.
LEMMA ModeStep ==
  ASSUME FacadeInv, NEW model \in {"client", "server"}, SetRunoModel(model)
  PROVE  FacadeInv'
<1> USE ThreadsAssumption, UnsetAssumption
<1>1. TypeOK'  BY DEF FacadeInv, TypeOK, SetRunoModel
<1>2. Creation'  BY DEF FacadeInv, Creation, SetRunoModel
<1>3. MainKeeps'  BY DEF FacadeInv, MainKeeps, SetRunoModel, Calls
<1>4. BaseKnown' /\ WsaCoversSockets'
  BY DEF FacadeInv, BaseKnown, WsaCoversSockets, SetRunoModel, Live, This
<1>5. Settled'
  <2>1. ptr[Main] \in Threads  BY DEF FacadeInv, TypeOK, SetRunoModel, Calls
  <2>2. This.Business_CallBack = Unset /\ "SetBusinessFunction" \notin called
    BY <2>1 DEF FacadeInv, Settled, SetRunoModel, This
  <2> QED  BY <2>2 DEF FacadeInv, Settled, SetRunoModel, This
<1> QED  BY <1>1, <1>2, <1>3, <1>4, <1>5 DEF FacadeInv

\* A step that changes nothing but settings of objects.
LEMMA SettingsOnly ==
  ASSUME FacadeInv, obj' \in [Threads -> Object],
         \A o \in Threads : /\ obj'[o].Started = obj[o].Started
                            /\ obj'[o].Main_Base = obj[o].Main_Base,
         UNCHANGED <<statics, pc, ptr, inits, wsa, ready, task>>,
         called' \subseteq {"SetTimeout", "SetBusinessFunction"}
  PROVE  TypeOK' /\ Creation' /\ MainKeeps' /\ BaseKnown' /\ WsaCoversSockets'
<1> USE ThreadsAssumption
<1>1. TypeOK'  BY DEF FacadeInv, TypeOK, Object, statics
<1>2. Creation'  BY DEF FacadeInv, Creation, statics
<1>3. MainKeeps'  BY DEF FacadeInv, MainKeeps, statics
<1>4. BaseKnown'
  <2>1. ptr[Main] \in Threads \cup {NULL}  BY DEF FacadeInv, TypeOK
  <2>2. CASE ptr[Main] = NULL  BY <2>2 DEF FacadeInv, BaseKnown
  <2>3. CASE ptr[Main] \in Threads
    <3>1. This'.Main_Base = This.Main_Base  BY <2>3 DEF This
    <3>2. Live' <=> Live  BY <3>1 DEF Live
    <3> QED  BY <2>3, <3>2 DEF FacadeInv, BaseKnown
  <2> QED  BY <2>1, <2>2, <2>3
<1>5. WsaCoversSockets'  BY DEF FacadeInv, WsaCoversSockets
<1> QED  BY <1>1, <1>2, <1>3, <1>4, <1>5

\* A setter changes one field of one object that somebody has been handed.
LEMMA SetterStep ==
  ASSUME FacadeInv,
         \/ \E p \in Ports : SetListenport(p)
         \/ \E f \in Functions : SetBusinessFunction(f)
         \/ \E t \in Threads, n \in Timeouts : SetTimeout(t, n)
  PROVE  FacadeInv'
<1> USE ThreadsAssumption, UnsetAssumption
<1>0. obj \in [Threads -> Object]
  BY DEF FacadeInv, TypeOK, Object
<1>c. called \subseteq {"SetTimeout", "SetBusinessFunction"}
  BY DEF FacadeInv, TypeOK
<1>1. ASSUME NEW p \in Ports, SetListenport(p) PROVE FacadeInv'
  <2>1. ptr[Main] \in Threads  BY <1>1 DEF FacadeInv, TypeOK, SetListenport, Calls
  <2> DEFINE x == [obj[ptr[Main]] EXCEPT !.Listenport = p]
  <2>2. x \in Object /\ x.Started = This.Started /\ x.Main_Base = This.Main_Base
        /\ x.Business_CallBack = This.Business_CallBack /\ x.Timeout = This.Timeout
    BY <1>0, <2>1 DEF Object, This
  <2>3. obj' = obj \/ obj' = [obj EXCEPT ![ptr[Main]] = x]
    BY <1>1 DEF SetListenport
  <2> HIDE DEF x
  <2>4. /\ obj' \in [Threads -> Object]
        /\ \A o \in Threads : /\ obj'[o].Started = obj[o].Started
                              /\ obj'[o].Main_Base = obj[o].Main_Base
                              /\ obj'[o].Business_CallBack = obj[o].Business_CallBack
                              /\ obj'[o].Timeout = obj[o].Timeout
    BY <1>0, <2>1, <2>2, <2>3 DEF This
  <2>5. UNCHANGED <<statics, pc, ptr, inits, wsa, ready, called, task>>
    BY <1>1 DEF SetListenport
  <2>6. Settled'
    BY <2>1, <2>4, <2>5 DEF FacadeInv, Settled, This, statics
  <2> QED  BY <1>c, <2>4, <2>5, <2>6, SettingsOnly DEF FacadeInv
<1>2. ASSUME NEW f \in Functions, SetBusinessFunction(f) PROVE FacadeInv'
  <2>1. ptr[Main] \in Threads /\ pc[Main] = "idle"
    BY <1>2 DEF FacadeInv, TypeOK, SetBusinessFunction, Calls
  <2> DEFINE x == [obj[ptr[Main]] EXCEPT !.Business_CallBack = f]
  <2>2. x \in Object /\ x.Started = This.Started /\ x.Main_Base = This.Main_Base
        /\ x.Business_CallBack = f /\ x.Timeout = This.Timeout
    BY <1>0, <2>1 DEF Object, This
  <2>3. ~This.Started  BY <2>1 DEF FacadeInv, MainKeeps, This
  <2>4. obj' = IF RunModel # "server" THEN obj ELSE [obj EXCEPT ![ptr[Main]] = x]
    BY <1>2, <2>3 DEF SetBusinessFunction
  <2> HIDE DEF x
  <2>5. /\ obj' \in [Threads -> Object]
        /\ \A o \in Threads : /\ obj'[o].Started = obj[o].Started
                              /\ obj'[o].Main_Base = obj[o].Main_Base
                              /\ obj'[o].Timeout = obj[o].Timeout
    BY <1>0, <2>1, <2>2, <2>4 DEF This
  <2>6. /\ UNCHANGED <<statics, pc, ptr, inits, wsa, ready, task>>
        /\ called' = IF RunModel = "none" THEN called
                     ELSE called \cup {"SetBusinessFunction"}
    BY <1>2 DEF SetBusinessFunction
  <2>7. Settled'
    <3>1. CASE RunModel # "server"
      BY <2>1, <2>4, <2>6, <3>1 DEF FacadeInv, Settled, This, statics
    <3>2. CASE RunModel = "server"
      <4>1. obj' = [obj EXCEPT ![ptr[Main]] = x]  BY <2>4, <3>2
      <4>2. This' = x /\ \A o \in Threads : o # ptr[Main] => obj'[o] = obj[o]
        BY <1>0, <2>1, <2>6, <4>1 DEF This
      <4> QED  BY <2>1, <2>2, <2>6, <3>2, <4>2 DEF FacadeInv, Settled, statics
    <3> QED  BY <3>1, <3>2
  <2> QED  BY <1>c, <2>5, <2>6, <2>7, SettingsOnly DEF FacadeInv
<1>3. ASSUME NEW t \in Threads, NEW n \in Timeouts, SetTimeout(t, n) PROVE FacadeInv'
  <2>1. ptr[t] \in Threads  BY <1>3 DEF FacadeInv, TypeOK, SetTimeout, Calls
  <2> DEFINE x == [obj[ptr[t]] EXCEPT !.Timeout = n]
  <2>2. /\ x \in Object /\ x.Started = obj[ptr[t]].Started
        /\ x.Main_Base = obj[ptr[t]].Main_Base
        /\ x.Business_CallBack = obj[ptr[t]].Business_CallBack /\ x.Timeout = n
    BY <1>0, <2>1 DEF Object
  <2>3. obj' = [obj EXCEPT ![ptr[t]] = x]
    BY <1>3 DEF SetTimeout
  <2> HIDE DEF x
  <2>4. /\ obj' \in [Threads -> Object]
        /\ \A o \in Threads : /\ obj'[o].Started = obj[o].Started
                              /\ obj'[o].Main_Base = obj[o].Main_Base
                              /\ obj'[o].Business_CallBack = obj[o].Business_CallBack
                              /\ obj'[o].Timeout = IF o = ptr[t] THEN n ELSE obj[o].Timeout
    BY <1>0, <2>1, <2>2, <2>3
  <2>5. /\ UNCHANGED <<statics, pc, ptr, inits, wsa, ready, task>>
        /\ called' = IF t = Main THEN called \cup {"SetTimeout"} ELSE called
    BY <1>3 DEF SetTimeout
  <2>6. Settled'
    <3>1. /\ \A o \in Threads : obj'[o].Business_CallBack # Unset =>
                RunModel' = "server" /\ o = ptr'[Main]
          /\ "SetBusinessFunction" \in called' => RunModel' # "none"
      BY <2>4, <2>5 DEF FacadeInv, Settled, statics
    <3>2. RunModel' = "server" =>
            (This'.Business_CallBack \in Functions <=> "SetBusinessFunction" \in called')
      <4> SUFFICES ASSUME RunModel = "server"
                   PROVE  This'.Business_CallBack \in Functions
                            <=> "SetBusinessFunction" \in called'
        BY <2>5 DEF statics
      <4>1. ptr[Main] \in Threads  BY DEF FacadeInv, TypeOK, MainKeeps
      <4>2. This'.Business_CallBack = This.Business_CallBack
        BY <2>4, <2>5, <4>1 DEF This
      <4> QED  BY <2>5, <4>2 DEF FacadeInv, Settled
    <3>3. "SetTimeout" \in called' => ptr'[Main] # NULL /\ This'.Timeout \in Timeouts
      <4> SUFFICES ASSUME "SetTimeout" \in called'
                   PROVE  ptr[Main] # NULL /\ This'.Timeout \in Timeouts
        BY <2>5
      <4>1. ptr[Main] \in Threads
        BY <2>1, <2>5 DEF FacadeInv, TypeOK, Settled
      <4>2. This'.Timeout = IF ptr[Main] = ptr[t] THEN n ELSE This.Timeout
        BY <2>4, <2>5, <4>1 DEF This
      <4> QED  BY <2>5, <4>1, <4>2 DEF FacadeInv, Settled
    <3> QED  BY <3>1, <3>2, <3>3 DEF Settled
  <2> QED  BY <1>c, <2>4, <2>5, <2>6, SettingsOnly DEF FacadeInv
<1> QED  BY <1>1, <1>2, <1>3

-----------------------------------------------------------------------------
(* Init.                                                                    *)

\* The listening sockets that are open.
Open == {i \in DOMAIN inits : inits[i].sock \in {"open", "listening"}}

\* A call of Init appends what it left, and opens at most the socket it has made
\* a startup for.
LEMMA OpenAppended ==
  ASSUME TypeOK, WsaCoversSockets, NEW r \in Exits, NEW x,
         inits' = Append(inits, x), wsa' = WsaAfter(r),
         x.sock = "none" \/ x.sock = SocketAfter(r)
  PROVE  WsaCoversSockets'
<1>1. /\ inits \in Seq([port : Ports \cup {Unset}, base : {"none", "live", "freed"},
                        sock : {"none", "closed", "open", "listening"}])
      /\ wsa \in Nat
  BY DEF TypeOK
<1> DEFINE n == Len(inits)
<1>2. /\ n \in Nat /\ DOMAIN inits = 1..n /\ DOMAIN inits' = 1..(n + 1)
      /\ \A i \in 1..n : inits'[i] = inits[i]
      /\ inits'[n + 1] = x
  BY <1>1
<1>3. IsFiniteSet(Open) /\ Cardinality(Open) \in Nat /\ Cardinality(Open) <= wsa
  <2>1. IsFiniteSet(1..n) /\ Open \subseteq 1..n
    BY <1>2, FS_Interval DEF Open
  <2> QED  BY <2>1, FS_Subset, FS_CardinalityType DEF WsaCoversSockets, Open
<1>a. Cardinality(Open') <= wsa' => WsaCoversSockets'
  BY DEF WsaCoversSockets, Open
<1>4. CASE x.sock \in {"open", "listening"}
  <2>1. r \notin {-2, -3, -5}  BY <1>4 DEF SocketAfter, Exits
  <2>2. wsa' = wsa + 1  BY <2>1 DEF WsaAfter
  <2>3. Open' = Open \cup {n + 1}
    <3>1. ASSUME NEW i PROVE i \in Open' <=> i \in Open \cup {n + 1}
      BY <1>2, <1>4 DEF Open
    <3> QED  BY <3>1
  <2>4. n + 1 \notin Open  BY <1>2 DEF Open
  <2>5. Cardinality(Open') = Cardinality(Open) + 1
    BY <2>3, <2>4, <1>3, FS_AddElement
  <2> QED  BY <1>1, <1>3, <1>a, <2>2, <2>5
<1>5. CASE x.sock \notin {"open", "listening"}
  <2>1. Open' = Open
    <3>1. ASSUME NEW i PROVE i \in Open' <=> i \in Open
      BY <1>2, <1>5 DEF Open
    <3> QED  BY <3>1
  <2>2. wsa' >= wsa  BY <1>1 DEF WsaAfter
  <2>3. wsa' \in Nat  BY <1>1 DEF WsaAfter
  <2>4. Cardinality(Open') = Cardinality(Open)  BY <2>1
  <2> QED  BY <1>1, <1>3, <1>a, <2>2, <2>3, <2>4
<1> QED  BY <1>4, <1>5

\* An exit with 0 has made the base that Main_Base is, with its listener; -8 has
\* overwritten Main_Base; the others leave it what it was.
LEMMA ServerInitStep ==
  ASSUME FacadeInv, NEW r \in Exits, ServerInit(r)
  PROVE  FacadeInv'
<1> USE ThreadsAssumption, UnsetAssumption
<1> DEFINE x == [port |-> This.Listenport, sock |-> SocketAfter(r),
                 base |-> IF r = 0 THEN "live" ELSE "none"]
           Record == [port : Ports \cup {Unset}, base : {"none", "live", "freed"},
                      sock : {"none", "closed", "open", "listening"}]
<1>0. /\ ptr[Main] \in Threads /\ pc[Main] = "idle" /\ RunModel = "server"
      /\ inits' = Append(inits, x) /\ wsa' = WsaAfter(r)
      /\ ready' = (r = 0 \/ (ready /\ r # -8))
      /\ obj' = [obj EXCEPT ![ptr[Main]].Main_Base = BaseAfter(r)]
      /\ UNCHANGED <<statics, pc, ptr, called, task>>
  BY DEF FacadeInv, TypeOK, ServerInit, Calls
<1>a. obj \in [Threads -> Object] /\ inits \in Seq(Record) /\ Len(inits) \in Nat
  BY DEF FacadeInv, TypeOK, Object
<1>b. This \in Object  BY <1>0, <1>a DEF This
<1>c. x \in Record  BY <1>b DEF Object, SocketAfter
<1>d. BaseAfter(r) \in Nat \cup {NULL, Unset}
  BY <1>a, <1>b DEF BaseAfter, Object
<1>e. /\ obj' \in [Threads -> Object] /\ inits' \in Seq(Record)
      /\ This'.Main_Base = BaseAfter(r)
      /\ \A o \in Threads : /\ obj'[o].Started = obj[o].Started
                            /\ obj'[o].Timeout = obj[o].Timeout
                            /\ obj'[o].Business_CallBack = obj[o].Business_CallBack
                            /\ o # ptr[Main] => obj'[o].Main_Base = obj[o].Main_Base
  <2>1. [obj[ptr[Main]] EXCEPT !.Main_Base = BaseAfter(r)] \in Object
    BY <1>b, <1>d DEF Object, This
  <2>2. obj' \in [Threads -> Object]  BY <1>0, <1>a, <2>1
  <2>3. inits' \in Seq(Record)  BY <1>0, <1>a, <1>c
  <2>4. obj'[ptr[Main]] = [obj[ptr[Main]] EXCEPT !.Main_Base = BaseAfter(r)]
    BY <1>0, <1>a
  <2>5. \A o \in Threads : /\ obj'[o].Started = obj[o].Started
                           /\ obj'[o].Timeout = obj[o].Timeout
                           /\ obj'[o].Business_CallBack = obj[o].Business_CallBack
                           /\ o # ptr[Main] => obj'[o].Main_Base = obj[o].Main_Base
    BY <1>0, <1>a DEF Object
  <2>6. This' = [This EXCEPT !.Main_Base = BaseAfter(r)]  BY <1>0, <2>4 DEF This
  <2>7. This'.Main_Base = BaseAfter(r)
    BY <2>6, <1>b DEF Object
  <2> QED  BY <2>2, <2>3, <2>5, <2>7
<1>f. /\ DOMAIN inits = 1..Len(inits) /\ DOMAIN inits' = 1..(Len(inits) + 1)
      /\ inits'[Len(inits) + 1] = x
      /\ \A i \in DOMAIN inits : inits'[i] = inits[i]
  <2> HIDE DEF x, Record
  <2> QED  BY <1>0, <1>a
<1>g. x.base = (IF r = 0 THEN "live" ELSE "none") /\ x.sock = SocketAfter(r)
  OBVIOUS
<1> HIDE DEF x, Record
<1>1. TypeOK'
  <2>1. wsa' \in Nat  BY <1>0 DEF FacadeInv, TypeOK, WsaAfter
  <2> QED  BY <1>0, <1>e, <2>1 DEF FacadeInv, TypeOK, Object, Record, statics
<1>2. Creation'  BY <1>0 DEF FacadeInv, Creation, statics
<1>3. MainKeeps'  BY <1>0, <1>e DEF FacadeInv, MainKeeps, statics
<1>4. BaseKnown'
  <2>1. /\ This.Main_Base \in DOMAIN inits \cup {NULL, Unset}
        /\ \A o \in Threads : o # ptr[Main] => obj[o].Main_Base = Unset
        /\ ready <=> Live
    BY <1>0 DEF FacadeInv, BaseKnown, This
  <2>2. BaseAfter(r) \in DOMAIN inits' \cup {NULL, Unset}
    BY <1>a, <1>f, <2>1 DEF BaseAfter
  <2>3. \A o \in Threads : /\ obj'[o].Main_Base \in DOMAIN inits' \cup {NULL, Unset}
                           /\ o # ptr'[Main] => obj'[o].Main_Base = Unset
    <3>1. obj'[ptr[Main]].Main_Base = BaseAfter(r)  BY <1>0, <1>e DEF This
    <3> QED  BY <1>0, <1>e, <2>1, <2>2, <3>1
  <2>4. ready' <=> Live'
    <3>1. CASE r = 0
      <4>1. This'.Main_Base = Len(inits) + 1  BY <1>e, <3>1 DEF BaseAfter
      <4>2. x.base = "live" /\ x.sock = "listening"  BY <1>g, <3>1 DEF SocketAfter
      <4>3. Len(inits) + 1 \in DOMAIN inits'  BY <1>a, <1>f
      <4>4. Live'  BY <1>f, <4>1, <4>2, <4>3 DEF Live
      <4>5. ready' = TRUE  BY <1>0, <3>1
      <4> QED  BY <4>4, <4>5
    <3>2. CASE r = -8
      <4>1. This'.Main_Base = NULL  BY <1>e, <3>2 DEF BaseAfter
      <4>2. NULL \notin DOMAIN inits'  BY <1>a, <1>f
      <4>3. ~Live'  BY <4>1, <4>2 DEF Live
      <4>4. ready' = FALSE
        <5>1. ready' = (r = 0 \/ (ready /\ r # -8))  BY <1>0
        <5>2. ~(r = 0) /\ ~(r # -8)  BY <3>2
        <5> QED  BY <5>1, <5>2, Zenon
      <4> QED  BY <4>3, <4>4
    <3>3. CASE r \notin {0, -8}
      <4>1. This'.Main_Base = This.Main_Base  BY <1>e, <3>3 DEF BaseAfter
      <4>2. This.Main_Base \in DOMAIN inits' <=> This.Main_Base \in DOMAIN inits
        <5>1. NULL \notin DOMAIN inits' /\ Unset \notin DOMAIN inits'  BY <1>a, <1>f
        <5> QED  BY <1>a, <1>f, <2>1, <5>1
      <4>3. Live' <=> Live  BY <1>f, <4>1, <4>2 DEF Live
      <4> QED  BY <1>0, <2>1, <3>3, <4>3
    <3> QED  BY <3>1, <3>2, <3>3
  <2> QED  BY <1>0, <2>3, <2>4 DEF BaseKnown
<1>5. Settled'  BY <1>0, <1>e DEF FacadeInv, Settled, This, statics
<1>6. WsaCoversSockets'
  BY <1>0, <1>g, OpenAppended DEF FacadeInv
<1> QED  BY <1>1, <1>2, <1>3, <1>4, <1>5, <1>6 DEF FacadeInv

\* A client makes no socket in Init.
LEMMA ClientInitStep ==
  ASSUME FacadeInv, NEW r \in Exits, ClientInit(r)
  PROVE  FacadeInv'
<1> USE ThreadsAssumption, UnsetAssumption
<1> DEFINE x == [port |-> Unset, sock |-> "none", base |-> "none"]
           Record == [port : Ports \cup {Unset}, base : {"none", "live", "freed"},
                      sock : {"none", "closed", "open", "listening"}]
<1>0. /\ RunModel = "client" /\ ptr[Main] \in Threads /\ pc[Main] = "idle"
      /\ inits' = Append(inits, x) /\ wsa' = WsaAfter(r)
      /\ UNCHANGED <<statics, obj, pc, ptr, ready, called, task>>
  BY DEF FacadeInv, TypeOK, ClientInit, Calls
<1>a. inits \in Seq(Record) /\ x \in Record /\ Len(inits) \in Nat
  BY DEF FacadeInv, TypeOK
<1>f. /\ DOMAIN inits = 1..Len(inits) /\ DOMAIN inits' = 1..(Len(inits) + 1)
      /\ \A i \in DOMAIN inits : inits'[i] = inits[i]
  <2> HIDE DEF x, Record
  <2> QED  BY <1>0, <1>a
<1>1. TypeOK'
  <2>1. wsa' \in Nat  BY <1>0 DEF FacadeInv, TypeOK, WsaAfter
  <2> QED  BY <1>0, <2>1 DEF FacadeInv, TypeOK, statics
<1>2. Creation'  BY <1>0 DEF FacadeInv, Creation, statics
<1>3. MainKeeps'  BY <1>0 DEF FacadeInv, MainKeeps, statics
<1>4. BaseKnown'
  <2>1. /\ \A o \in Threads : obj[o].Main_Base \in DOMAIN inits \cup {NULL, Unset}
        /\ ready <=> Live
    BY <1>0 DEF FacadeInv, BaseKnown
  <2>2. This' = This  BY <1>0 DEF This
  <2>3. This.Main_Base \in DOMAIN inits' <=> This.Main_Base \in DOMAIN inits
    <3>1. NULL \notin DOMAIN inits' /\ Unset \notin DOMAIN inits'  BY <1>a, <1>f
    <3>2. This.Main_Base \in DOMAIN inits \cup {NULL, Unset}  BY <1>0, <2>1 DEF This
    <3> QED  BY <1>a, <1>f, <3>1, <3>2
  <2>4. Live' <=> Live  BY <1>f, <2>2, <2>3 DEF Live
  <2>5. \A o \in Threads : obj'[o].Main_Base \in DOMAIN inits' \cup {NULL, Unset}
    BY <1>0, <1>a, <1>f, <2>1
  <2> QED  BY <1>0, <2>1, <2>4, <2>5 DEF FacadeInv, BaseKnown
<1>5. Settled'  BY <1>0 DEF FacadeInv, Settled, This, statics
<1>6. WsaCoversSockets'
  <2>1. x.sock = "none"  OBVIOUS
  <2> QED  BY <1>0, <2>1, OpenAppended DEF FacadeInv
<1> QED  BY <1>1, <1>2, <1>3, <1>4, <1>5, <1>6 DEF FacadeInv

-----------------------------------------------------------------------------
(* Start and the loop.                                                      *)

\* Start changes nothing of the base.
LEMMA StartStep ==
  ASSUME FacadeInv, Start
  PROVE  FacadeInv'
<1> USE ThreadsAssumption, UnsetAssumption
<1>0. /\ ptr[Main] \in Threads /\ pc[Main] = "idle" /\ RunModel = "server"
      /\ obj' = [obj EXCEPT ![ptr[Main]].Started = TRUE]
      /\ pc' = [pc EXCEPT ![Main] = "serving"]
      /\ UNCHANGED <<statics, ptr, inits, wsa, ready, called, task>>
  BY DEF FacadeInv, TypeOK, Start, Calls
<1>1. /\ obj' \in [Threads -> Object]
      /\ \A o \in Threads : /\ obj'[o].Timeout = obj[o].Timeout
                            /\ obj'[o].Business_CallBack = obj[o].Business_CallBack
                            /\ obj'[o].Main_Base = obj[o].Main_Base
                            /\ obj'[o].Started => obj[o].Started \/ o = ptr[Main]
  <2>1. obj \in [Threads -> Object]  BY DEF FacadeInv, TypeOK, Object
  <2>2. [obj[ptr[Main]] EXCEPT !.Started = TRUE] \in Object
    BY <1>0, <2>1 DEF Object
  <2>3. obj' \in [Threads -> Object]  BY <1>0, <2>1, <2>2
  <2>4. \A o \in Threads : /\ obj'[o].Timeout = obj[o].Timeout
                           /\ obj'[o].Business_CallBack = obj[o].Business_CallBack
                           /\ obj'[o].Main_Base = obj[o].Main_Base
                           /\ obj'[o].Started => obj[o].Started \/ o = ptr[Main]
    BY <1>0, <2>1 DEF Object
  <2> QED  BY <2>3, <2>4
<1>3. TypeOK'  BY <1>0, <1>1 DEF FacadeInv, TypeOK, Object, statics
<1>4. Creation'  BY <1>0 DEF FacadeInv, TypeOK, Creation, statics
<1>5. MainKeeps'
  BY <1>0, <1>1 DEF FacadeInv, TypeOK, MainKeeps, statics
<1>6. BaseKnown'
  <2>1. Live' <=> Live  BY <1>0, <1>1 DEF Live, This
  <2> QED  BY <1>0, <1>1, <2>1 DEF FacadeInv, BaseKnown
<1>7. Settled'  BY <1>0, <1>1 DEF FacadeInv, Settled, This, statics
<1>8. WsaCoversSockets'
  BY <1>0 DEF FacadeInv, WsaCoversSockets
<1> QED  BY <1>3, <1>4, <1>5, <1>6, <1>7, <1>8 DEF FacadeInv

\* On_Accept_CallBack changes nothing but the task it makes.
LEMMA AcceptStep ==
  ASSUME FacadeInv, On_Accept_CallBack
  PROVE  FacadeInv'
<1>0. UNCHANGED <<statics, obj, pc, ptr, inits, wsa, ready, called>>
  BY DEF On_Accept_CallBack
<1>1. TypeOK' /\ Creation' /\ MainKeeps'
  BY <1>0 DEF FacadeInv, TypeOK, Creation, MainKeeps, statics
<1>2. BaseKnown' /\ Settled' /\ WsaCoversSockets'
  BY <1>0 DEF FacadeInv, BaseKnown, Live, Settled, WsaCoversSockets, This, statics
<1> QED  BY <1>1, <1>2 DEF FacadeInv

\* What a task copies is what Main has set, if the object is Main's.
LEMMA AcceptCopies ==
  ASSUME FacadeInv, On_Accept_CallBack, ptr[Main] = m_Instance
  PROVE  /\ task'.Business_CallBack \in Functions <=> "SetBusinessFunction" \in called
         /\ "SetTimeout" \in called => task'.Timeout \in Timeouts
<1>1. RunModel = "server"
  BY DEF FacadeInv, MainKeeps, On_Accept_CallBack
<1>2. task'.Business_CallBack = This.Business_CallBack /\ task'.Timeout = This.Timeout
  BY DEF On_Accept_CallBack, This
<1> QED  BY <1>1, <1>2 DEF FacadeInv, Settled

\* After the loop the base is not there until Init has returned 0 again.
LEMMA StartReturnsStep ==
  ASSUME FacadeInv, StartReturns
  PROVE  FacadeInv'
<1> USE ThreadsAssumption, UnsetAssumption
<1> DEFINE Record == [port : Ports \cup {Unset}, base : {"none", "live", "freed"},
                      sock : {"none", "closed", "open", "listening"}]
<1>0. /\ pc[Main] = "serving" /\ RunModel = "server" /\ ptr[Main] \in Threads
      /\ obj' = [obj EXCEPT ![ptr[Main]].Started = FALSE]
      /\ inits' = IF Live THEN [inits EXCEPT ![This.Main_Base].base = "freed"] ELSE inits
      /\ pc' = [pc EXCEPT ![Main] = "idle"] /\ ready' = FALSE
      /\ UNCHANGED <<statics, ptr, wsa, called, task>>
  BY DEF FacadeInv, TypeOK, MainKeeps, StartReturns
<1>2. /\ obj' \in [Threads -> Object]
      /\ \A o \in Threads : /\ obj'[o].Timeout = obj[o].Timeout
                            /\ obj'[o].Business_CallBack = obj[o].Business_CallBack
                            /\ obj'[o].Main_Base = obj[o].Main_Base
                            /\ obj'[o].Started => obj[o].Started /\ o # ptr[Main]
  <2>1. obj \in [Threads -> Object]  BY DEF FacadeInv, TypeOK, Object
  <2>2. [obj[ptr[Main]] EXCEPT !.Started = FALSE] \in Object
    BY <1>0, <2>1 DEF Object
  <2>3. obj' \in [Threads -> Object]  BY <1>0, <2>1, <2>2
  <2>4. \A o \in Threads : /\ obj'[o].Timeout = obj[o].Timeout
                           /\ obj'[o].Business_CallBack = obj[o].Business_CallBack
                           /\ obj'[o].Main_Base = obj[o].Main_Base
                           /\ obj'[o].Started => obj[o].Started /\ o # ptr[Main]
    BY <1>0, <2>1 DEF Object
  <2> QED  BY <2>3, <2>4
<1>3. /\ inits' \in Seq(Record) /\ DOMAIN inits' = DOMAIN inits
      /\ \A i \in DOMAIN inits : inits'[i].sock = inits[i].sock
      /\ Live => inits'[This.Main_Base].base = "freed"
      /\ ~Live => inits' = inits
  <2>1. inits \in Seq(Record)  BY DEF FacadeInv, TypeOK
  <2>2. CASE Live
    <3>1. This.Main_Base \in DOMAIN inits  BY <2>2 DEF Live
    <3>2. inits[This.Main_Base] \in Record
      <4> HIDE DEF Record
      <4> QED  BY <2>1, <3>1
    <3>3. [inits[This.Main_Base] EXCEPT !.base = "freed"] \in Record
      BY <3>2
    <3> HIDE DEF Record
    <3>4. inits' \in Seq(Record) /\ DOMAIN inits' = DOMAIN inits
      BY <1>0, <2>1, <2>2, <3>1, <3>3
    <3>5. /\ \A i \in DOMAIN inits : inits'[i].sock = inits[i].sock
          /\ inits'[This.Main_Base].base = "freed"
      BY <1>0, <2>1, <2>2, <3>1, <3>2 DEF Record
    <3> QED  BY <2>2, <3>4, <3>5
  <2>3. CASE ~Live  BY <1>0, <2>1, <2>3
  <2> QED  BY <2>2, <2>3
<1>4. TypeOK'  BY <1>0, <1>2, <1>3 DEF FacadeInv, TypeOK, Object, statics
<1>5. Creation'  BY <1>0 DEF FacadeInv, TypeOK, Creation, statics
<1>6. MainKeeps'
  BY <1>0, <1>2 DEF FacadeInv, TypeOK, MainKeeps, statics
<1>7. BaseKnown'
  <2>1. This'.Main_Base = This.Main_Base  BY <1>0, <1>2 DEF This
  <2>2. ~Live'  BY <1>3, <2>1 DEF Live
  <2> QED  BY <1>0, <1>2, <1>3, <2>2 DEF FacadeInv, BaseKnown
<1>8. Settled'  BY <1>0, <1>2 DEF FacadeInv, Settled, This, statics
<1>10. WsaCoversSockets'
  <2>1. Open' = Open
    <3>1. ASSUME NEW i PROVE i \in Open' <=> i \in Open  BY <1>3 DEF Open
    <3> QED  BY <3>1
  <2>2. Cardinality(Open') <= wsa'
    BY <1>0, <2>1 DEF FacadeInv, WsaCoversSockets, Open
  <2> QED  BY <2>2 DEF WsaCoversSockets, Open
<1> QED  BY <1>4, <1>5, <1>6, <1>7, <1>8, <1>10 DEF FacadeInv

-----------------------------------------------------------------------------
(* The theorems.                                                            *)

\* The invariant holds before any call.
LEMMA Start0 == Init => FacadeInv
<1> SUFFICES ASSUME Init PROVE FacadeInv  OBVIOUS
<1> USE ThreadsAssumption, UnsetAssumption
<1>1. TypeOK
  <2>1. obj \in [Threads -> Object]  BY DEF Init, Object
  <2>2. /\ m_Instance = NULL /\ CreatInstance = FALSE /\ RunModel = "none"
        /\ pc = [t \in Threads |-> "idle"] /\ ptr = [t \in Threads |-> NULL]
        /\ inits = <<>> /\ wsa = 0 /\ ready = FALSE /\ called = {}
    BY DEF Init
  <2>3. inits \in Seq([port : Ports \cup {Unset}, base : {"none", "live", "freed"},
                       sock : {"none", "closed", "open", "listening"}])
    BY <2>2
  <2>4. /\ pc \in [Threads -> {"idle", "passed", "constructed", "returning", "serving"}]
        /\ ptr \in [Threads -> Threads \cup {NULL}]
    BY <2>2
  <2> QED  BY <2>1, <2>2, <2>3, <2>4 DEF TypeOK, Object
<1>2. Creation /\ MainKeeps /\ BaseKnown /\ Settled
  BY DEF Init, Creation, MainKeeps, BaseKnown, Settled
<1>3. WsaCoversSockets
  <2>1. {i \in DOMAIN inits : inits[i].sock \in {"open", "listening"}} = {}
    BY DEF Init
  <2> QED  BY <2>1, FS_EmptySet DEF Init, WsaCoversSockets
<1> QED  BY <1>1, <1>2, <1>3 DEF FacadeInv

\* Every step keeps it.
LEMMA NextStep == FacadeInv /\ [Next]_vars => FacadeInv'
<1> SUFFICES ASSUME FacadeInv, [Next]_vars PROVE FacadeInv'  OBVIOUS
<1>1. ASSUME NEW t \in Threads, GetInstance(t) PROVE FacadeInv'
  BY <1>1, CreationSteps, CreationKeeps DEF FacadeInv
<1>2. CASE \/ \E p \in Ports : SetListenport(p)
           \/ \E f \in Functions : SetBusinessFunction(f)
           \/ \E t \in Threads, n \in Timeouts : SetTimeout(t, n)
  BY <1>2, SetterStep
<1>3. ASSUME NEW model \in {"client", "server"}, SetRunoModel(model) PROVE FacadeInv'
  BY <1>3, ModeStep
<1>4. ASSUME NEW r \in Exits, ServerInit(r) \/ ClientInit(r) PROVE FacadeInv'
  BY <1>4, ServerInitStep, ClientInitStep
<1>5. CASE Start \/ On_Accept_CallBack \/ StartReturns
  BY <1>5, StartStep, AcceptStep, StartReturnsStep
<1>6. CASE UNCHANGED vars
  BY <1>6 DEF FacadeInv, TypeOK, Creation, MainKeeps, BaseKnown, Live, Settled,
              WsaCoversSockets, This, vars, statics
<1> QED  BY <1>1, <1>2, <1>3, <1>4, <1>5, <1>6 DEF Next

\* The inductive invariant of the facade, for any sequence of Main's calls.
THEOREM Invariance == Spec => []FacadeInv
<1> QED  BY Start0, NextStep, PTL DEF Spec

\* The members have their types.
THEOREM TypeCorrect == Spec => []TypeOK
<1>1. FacadeInv => TypeOK  BY DEF FacadeInv
<1> QED  BY <1>1, Invariance, PTL

\* Init, with any number of failures, leaves no socket without a startup.
THEOREM SocketsCovered == Spec => []WsaCoversSockets
<1>1. FacadeInv => WsaCoversSockets  BY DEF FacadeInv
<1> QED  BY <1>1, Invariance, PTL

\* Start is on a base that is there, with its listener, exactly when an Init has
\* returned 0 since the last Start returned and none -8 after it.
THEOREM ListenerThere == Spec => []LoopHasListener
<1>1. FacadeInv => LoopHasListener
  BY DEF FacadeInv, MainKeeps, BaseKnown, LoopHasListener
<1> QED  BY <1>1, Invariance, PTL

\* A task gets a business function exactly when one was set, and a timeout if
\* one was, from the object that Main has set up.
THEOREM TasksConfigured == Spec => TaskConfigured
<1>1. FacadeInv /\ [Next]_vars =>
        [On_Accept_CallBack /\ ptr[Main] = m_Instance =>
           /\ task'.Business_CallBack \in Functions <=> "SetBusinessFunction" \in called
           /\ "SetTimeout" \in called => task'.Timeout \in Timeouts]_vars
  BY AcceptCopies
<1> QED  BY <1>1, Invariance, PTL DEF Spec, TaskConfigured

\* GetInstance hands out NULL only while an object is waiting to be assigned.
THEOREM NullIsPassing == Spec => NullOnlyInCreation
<1>1. FacadeInv /\ [Next]_vars =>
        [\A t \in Threads : Return(t) /\ m_Instance = NULL =>
           \E u \in Threads : pc[u] = "constructed"]_vars
  BY DEF FacadeInv, Creation, Return
<1> QED  BY <1>1, Invariance, PTL DEF Spec, NullOnlyInCreation

=============================================================================

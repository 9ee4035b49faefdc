--------------------------- MODULE ExchangeProofs ---------------------------
(***************************************************************************)
(* Connection implements Exchange, and stalls only when a message is more  *)
(* than the socket takes at once: both from the inductive invariant of     *)
(* ConnectionProofs and what it says of the two callbacks.                 *)
(***************************************************************************)
EXTENDS ConnectionProofs

-----------------------------------------------------------------------------
(* Stalls. *)

\* A step that leaves the tasks alone opens no socket and mends no link.
LEMMA QuietStalls ==
    ASSUME TypeOK, StallsOnlyWhenFull, task' = task,
           \A e \in Ends : sock'[e] = "open" => sock[e] = "open",
           link' = "up" => link = "up", link' \in {"up", "reset"},
           sock' \in [Ends -> {"open", "closed"}]
    PROVE  StallsOnlyWhenFull'
<1> SUFFICES ASSUME NEW e \in Ends, HalfSent(e)', sock'[e] = "open", ~PeerLost(e)'
             PROVE  e = Server /\ task'[e].DataLenth_All + 2 > SndBuf
  BY DEF StallsOnlyWhenFull
<1>1. HalfSent(e) /\ sock[e] = "open"
  BY DEF HalfSent, Sending
<1>2. ~PeerLost(e)
  <2>1. link' # "reset" /\ sock'[Peer(e)] # "closed" /\ Peer(e) \in Ends
    BY EndsFacts DEF PeerLost
  <2>2. link' = "up" /\ sock'[Peer(e)] = "open"
    BY <2>1
  <2> QED BY <2>1, <2>2 DEF PeerLost
<1> QED BY <1>1, <1>2 DEF StallsOnlyWhenFull

\* The read callback never leaves its task half way through sending, and does
\* not touch the other.
LEMMA ReadStalls ==
    ASSUME IInv, StallsOnlyWhenFull, NEW e \in Ends, On_Read_CallBack(e)
    PROVE  StallsOnlyWhenFull'
<1>1. PICK v \in ThreadTask, rest \in Seq(Token) :
        ReadResult(e, v, rest) /\ net[e] # <<>>
  BY ReadFacts
<1>2. /\ task' = [task EXCEPT ![e] = v] /\ UNCHANGED link
      /\ \A f \in Ends : sock'[f] = "open" => sock[f] = "open"
      /\ sock' \in [Ends -> {"open", "closed"}]
      /\ v.TaskMode = 100 => v.DataBuff = NULL
  <2>1. /\ task' = [task EXCEPT ![e] = v] /\ UNCHANGED link
        /\ sock' = sock \/ sock' = [sock EXCEPT ![e] = "closed"]
    BY <1>1 DEF ReadResult
  <2>2. sock \in [Ends -> {"open", "closed"}]
    BY DEF IInv, TypeOK
  <2>3. v.TaskMode = 100 => v.DataBuff = NULL
    BY <1>1 DEF ReadResult, ReadKept, ReadTurned
  <2> QED BY <2>1, <2>2, <2>3
<1>3. ~HalfSent(e)'
  BY <1>2 DEF IInv, TypeOK, HalfSent, Sending
<1>4. ASSUME NEW f \in Ends, f # e, HalfSent(f)', sock'[f] = "open", ~PeerLost(f)'
      PROVE  f = Server /\ task'[f].DataLenth_All + 2 > SndBuf
  <2>1. task'[f] = task[f] /\ HalfSent(f) /\ sock[f] = "open" /\ ~PeerLost(f)
    BY <1>2, <1>4, EndsFacts DEF IInv, TypeOK, HalfSent, Sending, PeerLost
  <2> QED BY <2>1 DEF StallsOnlyWhenFull
<1> QED BY <1>3, <1>4 DEF StallsOnlyWhenFull

\* The write callback stops half way only for want of room.
LEMMA WriteStalls ==
    ASSUME IInv, StallsOnlyWhenFull, NEW e \in Ends, On_Write_CallBack(e)
    PROVE  StallsOnlyWhenFull'
<1>0. UNCHANGED <<sock, link>>
  BY DEF On_Write_CallBack
<1>1. CASE ~Sending(e)
  <2>1. UNCHANGED task
    BY <1>1 DEF On_Write_CallBack, Sending
  <2> QED BY <1>0, <2>1, QuietStalls DEF IInv, TypeOK
<1>2. CASE Sending(e)
  <2>1. PICK v \in ThreadTask, q \in Seq(Token) : WriteResult(e, v, q)
    BY <1>2, WriteFacts
  <2>2. task' = [task EXCEPT ![e] = v]
    BY <2>1 DEF WriteResult
  <2>3. ASSUME HalfSent(e)', sock'[e] = "open", ~PeerLost(e)'
        PROVE  e = Server /\ v.DataLenth_All + 2 > SndBuf
    <3>1. v.TaskMode = 100 /\ sock[e] = "open" /\ ~PeerLost(e)
      BY <1>0, <2>2, <2>3 DEF IInv, TypeOK, HalfSent, Sending, PeerLost
    <3> QED BY <2>1, <3>1 DEF WriteResult, WriteDone, WriteStopped
  <2>4. ASSUME NEW f \in Ends, f # e, HalfSent(f)', sock'[f] = "open", ~PeerLost(f)'
        PROVE  f = Server /\ task'[f].DataLenth_All + 2 > SndBuf
    <3>1. task'[f] = task[f] /\ HalfSent(f) /\ sock[f] = "open" /\ ~PeerLost(f)
      BY <1>0, <2>2, <2>4 DEF IInv, TypeOK, HalfSent, Sending, PeerLost
    <3> QED BY <3>1 DEF StallsOnlyWhenFull
  <2>5. task'[e] = v
    BY <2>2 DEF IInv, TypeOK
  <2> QED BY <2>3, <2>4, <2>5 DEF StallsOnlyWhenFull
<1> QED BY <1>1, <1>2

\* On a connection that works a task stops in the middle of a message only at
\* the server, and only when the message is longer than its socket buffer: the
\* send() calls of On_Write_CallBack take everything else whole.
THEOREM StallsNeedFullBuffer == Spec => []StallsOnlyWhenFull
<1>1. Init => StallsOnlyWhenFull
  <2> SUFFICES ASSUME Init PROVE StallsOnlyWhenFull
    OBVIOUS
  <2>1. \A e \in Ends : task[e].DataBuff = NULL
    BY EndsFacts DEF Init, NewTask
  <2> QED BY <2>1 DEF StallsOnlyWhenFull, HalfSent
<1>2. IInv /\ StallsOnlyWhenFull /\ [Next]_vars => StallsOnlyWhenFull'
  <2> SUFFICES ASSUME IInv, StallsOnlyWhenFull, [Next]_vars
               PROVE  StallsOnlyWhenFull'
    OBVIOUS
  <2>1. ASSUME NEW e \in Ends, On_Read_CallBack(e) PROVE StallsOnlyWhenFull'
    BY <2>1, ReadStalls
  <2>2. ASSUME NEW e \in Ends, On_Write_CallBack(e) PROVE StallsOnlyWhenFull'
    BY <2>2, WriteStalls
  <2>3. CASE \/ \E e \in Ends : \/ ServerThreadPoolWorking(e) \/ Hangup(e)
                                \/ ReadTimeout(e) \/ ReleaseTask(e)
             \/ LinkReset \/ Finished \/ UNCHANGED vars
    <3>1. /\ task' = task /\ (link' = "up" => link = "up")
          /\ sock' = sock \/ \E e \in Ends : sock' = [sock EXCEPT ![e] = "closed"]
          /\ link' = link \/ link' = "reset"
      BY <2>3 DEF ServerThreadPoolWorking, Hangup, ReadTimeout, ReleaseTask,
                  On_Error_CallBack, LinkReset, Finished, vars
    <3>2. /\ \A e \in Ends : sock'[e] = "open" => sock[e] = "open"
          /\ sock' \in [Ends -> {"open", "closed"}] /\ link' \in {"up", "reset"}
      BY <3>1 DEF IInv, TypeOK
    <3> QED BY <3>1, <3>2, QuietStalls DEF IInv
  <2> QED BY <2>1, <2>2, <2>3 DEF Next
<1> QED BY <1>1, <1>2, Invariance, PTL DEF Spec

-----------------------------------------------------------------------------
(* The refinement. *)

\* Where an exchange stands, told by the four counters: whose business function
\* has the word, or to whom a message is on its way.
Word(e) ==
    /\ got[e].n = sent[Peer(e)].n
    /\ got[Peer(e)].n = sent[e].n
    /\ sent[e].n = IF e = Client THEN got[e].n ELSE got[e].n - 1

Pending(e) ==
    /\ got[e].n + 1 = sent[Peer(e)].n
    /\ got[Peer(e)].n = sent[e].n
    /\ sent[e].n = IF e = Client THEN got[e].n + 1 ELSE got[e].n

\* A task that sends has the word.  While both receive a frame is on its way to
\* one of them, or one has ended the connection instead of answering.
WordInv ==
    /\ \A e \in Ends : Sending(e) => Word(e)
    /\ (\A e \in Ends : Receiving(e)) =>
         \E e \in Ends : \/ Pending(e) /\ Idle(Peer(e))
                         \/ Word(e) /\ Idle(e) /\ Idle(Peer(e))

\* The counters are natural numbers.
LEMMA Counters ==
    ASSUME TypeOK, NEW e \in Ends
    PROVE  /\ sent[e].n \in Nat /\ got[e].n \in Nat
           /\ sent[e].msg \in Messages /\ got[e].msg \in Messages
           /\ sent[e] = [n |-> sent[e].n, msg |-> sent[e].msg]
  BY DEF TypeOK

\* A frame found unread is the one that is pending.
LEMMA PendingFrame ==
    ASSUME IInv, WordInv, NEW e \in Ends, net[e] # <<>>, Receiving(Peer(e))
    PROVE  Pending(e) /\ Idle(Peer(e)) /\ Receiving(e)
<1>1. Receiving(e) /\ Idle(Peer(e)) /\ ~Idle(e)
  BY MiddleOfFrame DEF Idle
<1>2. \A f \in Ends : Receiving(f)
  BY <1>1, EndsFacts
<1>3. PICK f \in Ends : \/ Pending(f) /\ Idle(Peer(f))
                        \/ Word(f) /\ Idle(f) /\ Idle(Peer(f))
  BY <1>2 DEF WordInv
<1>4. f = e
  BY <1>1, <1>3, EndsFacts
<1> QED BY <1>1, <1>3, <1>4

\* Handing the pending message over gives its receiver the word.
LEMMA HandedOver ==
    ASSUME TypeOK, NEW e \in Ends, Pending(e), sent' = sent, NEW m \in Messages,
           got' = [got EXCEPT ![e] = [n |-> @.n + 1, msg |-> m]]
    PROVE  Word(e)'
<1> DEFINE p == Peer(e)
<1>1. p \in Ends /\ p # e /\ got'[e].n = got[e].n + 1 /\ got'[p] = got[p]
  BY EndsFacts DEF TypeOK
<1>2. /\ sent[e].n \in Nat /\ sent[p].n \in Nat /\ got[e].n \in Nat
      /\ got[p].n \in Nat
  BY <1>1, Counters
<1> QED BY <1>1, <1>2 DEF Pending, Word

\* Sending a message makes it pending at the other end.
LEMMA HandedIn ==
    ASSUME TypeOK, NEW e \in Ends, Word(e), got' = got, NEW m \in Messages,
           sent' = [sent EXCEPT ![e] = [n |-> @.n + 1, msg |-> m]]
    PROVE  Pending(Peer(e))'
<1> DEFINE p == Peer(e)
<1>1. /\ p \in Ends /\ p # e /\ Peer(p) = e /\ (p = Client <=> e # Client)
      /\ sent'[e].n = sent[e].n + 1 /\ sent'[p] = sent[p]
  BY EndsFacts DEF TypeOK
<1>2. /\ sent[e].n \in Nat /\ sent[p].n \in Nat /\ got[e].n \in Nat
      /\ got[p].n \in Nat
  BY <1>1, Counters
<1> HIDE DEF p
<1>3. /\ got[e].n = sent[p].n /\ got[p].n = sent[e].n
      /\ sent[e].n = IF e = Client THEN got[e].n ELSE got[e].n - 1
  BY DEF Word, p
<1>4. /\ got[p].n + 1 = sent'[e].n /\ got[e].n = sent'[p].n
      /\ sent'[p].n = IF p = Client THEN got[p].n + 1 ELSE got[p].n
  BY <1>1, <1>2, <1>3
<1>5. Pending(p)'
  BY <1>1, <1>4 DEF Pending
<1> QED BY <1>5 DEF p

\* What the read callback does to the exchange: nothing, or it hands over the
\* message that is pending.
LEMMA ReadExchanges ==
    ASSUME IInv, WordInv, NEW e \in Ends, On_Read_CallBack(e)
    PROVE  WordInv' /\ (UNCHANGED <<sent, got>> \/ E!Deliver(e))
<1> DEFINE p == Peer(e)
<1>1. PICK v \in ThreadTask, rest \in Seq(Token) :
        ReadResult(e, v, rest) /\ net[e] # <<>>
  BY ReadFacts
<1>2. /\ p \in Ends /\ p # e /\ Peer(p) = e /\ \A f \in Ends : f = e \/ f = p
      /\ TypeOK
  BY EndsFacts DEF IInv
<1> HIDE DEF p
<1>3. /\ task'[e] = v /\ task'[p] = task[p] /\ net'[e] = rest /\ net'[p] = net[p]
      /\ sent' = sent
  BY <1>1, <1>2 DEF ReadResult, TypeOK
<1>4. /\ Receiving(p)' <=> Receiving(p)
      /\ Sending(p)' <=> Sending(p)
      /\ Idle(p)' <=> Idle(p)
  BY <1>3 DEF Receiving, Sending, Idle
<1>5. CASE ReadKept(e, v, rest)
  <2>1. got' = got /\ ~Sending(e)'
    BY <1>3, <1>5 DEF ReadKept, Sending
  <2>2. \A f \in Ends : (Word(f)' <=> Word(f)) /\ (Pending(f)' <=> Pending(f))
    BY <1>3, <2>1 DEF Word, Pending
  <2>3. Receiving(p) => Pending(e) /\ Idle(p)
    BY <1>1, PendingFrame DEF p
  <2>4. \A f \in Ends : Sending(f)' => Word(f)'
    BY <1>2, <1>4, <2>1, <2>2 DEF WordInv
  <2>5. Receiving(p)' => Pending(e)' /\ Idle(p)'
    BY <1>4, <2>2, <2>3
  <2> QED BY <1>2, <1>3, <2>1, <2>4, <2>5 DEF WordInv, p
<1>6. CASE ReadTurned(e, v, rest)
  <2>1. /\ got' = [got EXCEPT ![e] = [n |-> @.n + 1, msg |-> Msg(e)]]
        /\ Receiving(p) /\ FrameReset(v) /\ rest = <<>>
    BY <1>6 DEF ReadTurned, p
  <2>2. Pending(e) /\ Idle(p)
    BY <1>1, <2>1, PendingFrame DEF p
  <2>3. Msg(e) = sent[p].msg /\ Msg(e) \in Messages
    <3>1. Msg(e) \in Messages
      BY <1>2, MsgType
    <3> QED BY <2>1, <3>1 DEF Msg, Receiving, p
  <2>4. E!Deliver(e)
    <3>1. sent[p] = [n |-> got[e].n + 1, msg |-> Msg(e)] /\ got[e].n + 1 = sent[p].n
      BY <1>2, <2>2, <2>3, Counters DEF Pending, p
    <3>2. E!Peer(e) = p
      BY DEF E!Peer, E!Client, E!Server, p, Peer, Client, Server
    <3> QED BY <1>3, <2>1, <3>1, <3>2 DEF E!Deliver
  <2>5. Word(e)'
    BY <1>2, <1>3, <2>1, <2>2, <2>3, HandedOver
  <2>6. Idle(e)' /\ Idle(p)' /\ ~Sending(p)'
    BY <1>3, <1>4, <2>1, <2>2 DEF Idle, FrameReset, Receiving, Sending
  <2> QED BY <1>2, <2>4, <2>5, <2>6 DEF WordInv, p
<1>7. ReadKept(e, v, rest) \/ ReadTurned(e, v, rest)
  BY <1>1 DEF ReadResult
<1> QED BY <1>5, <1>6, <1>7

\* What the write callback does to it: nothing, or it sends a message when it
\* has the word.
LEMMA WriteExchanges ==
    ASSUME IInv, WordInv, NEW e \in Ends, On_Write_CallBack(e)
    PROVE  WordInv' /\ (UNCHANGED <<sent, got>> \/ E!Send(e))
<1> DEFINE p == Peer(e)
           m == task[e].m_ConnectProtocol
<1>1. CASE ~Sending(e)
  <2>1. UNCHANGED <<task, net, sent, got>>
    BY <1>1 DEF On_Write_CallBack, Sending
  <2>2. WordInv'
    BY <2>1 DEF WordInv, Word, Pending, Idle, Sending, Receiving
  <2> QED BY <2>1, <2>2
<1>2. CASE Sending(e)
  <2>1. PICK v \in ThreadTask, q \in Seq(Token) : WriteResult(e, v, q)
    BY <1>2, WriteFacts
  <2>2. /\ p \in Ends /\ p # e /\ Peer(p) = e /\ \A f \in Ends : f = e \/ f = p
        /\ TypeOK /\ m \in Messages /\ Word(e)
        /\ net[e] = <<>> /\ Receiving(p)
    <3>1. TypeOK /\ task[e] \in ThreadTask
      BY DEF IInv, TypeOK
    <3>2. m \in Messages
      BY <3>1 DEF ThreadTask
    <3>3. Word(e) /\ net[e] = <<>> /\ Receiving(p)
      BY <1>2 DEF IInv, WordInv, SenderInv
    <3> QED BY <3>1, <3>2, <3>3, EndsFacts
  <2> HIDE DEF p, m
  <2>3. /\ task'[e] = v /\ task'[p] = task[p] /\ net'[e] = <<>> /\ got' = got
        /\ WriteDone(e, m, v) \/ WriteStopped(e, m, v, q)
    BY <2>1, <2>2 DEF WriteResult, TypeOK, p, m
  <2>4. Receiving(p)' /\ ~Sending(p)'
    BY <2>2, <2>3 DEF Receiving, Sending
  <2>5. CASE WriteStopped(e, m, v, q)
    <3>1. sent' = sent /\ ~Receiving(e)'
      BY <2>3, <2>5 DEF WriteStopped, Receiving
    <3>2. Word(e)'
      BY <2>2, <2>3, <3>1 DEF Word
    <3> QED BY <2>2, <2>3, <2>4, <3>1, <3>2 DEF WordInv
  <2>6. CASE WriteDone(e, m, v)
    <3>1. /\ sent' = [sent EXCEPT ![e] = [n |-> @.n + 1, msg |-> m]]
          /\ v.TaskMode = 300 /\ FrameReset(v)
      BY <2>6 DEF WriteDone
    <3>2. E!Send(e)
      <4>1. E!Turn(e)
        BY <2>2 DEF Word, E!Turn, E!Client, Client
      <4> QED BY <2>2, <2>3, <3>1, <4>1 DEF E!Send
    <3>3. Pending(p)'
      BY <2>2, <2>3, <3>1, HandedIn DEF p
    <3>4. Idle(e)' /\ ~Sending(e)'
      BY <2>3, <3>1 DEF Idle, FrameReset, Sending
    <3>5. Pending(p)' /\ Idle(Peer(p))'
      BY <2>2, <3>3, <3>4
    <3> QED BY <2>2, <2>4, <3>2, <3>4, <3>5 DEF WordInv
  <2> QED BY <2>3, <2>5, <2>6
<1> QED BY <1>1, <1>2

\* A connection keeps the promise of Exchange: the business functions at its
\* ends take turns, and each is handed the very message that the other end
\* sent last, none skipped, repeated or altered, whatever is sent and however
\* TCP cuts it.
THEOREM ImplementsExchange == Spec => Exchanges
<1>1. Init => WordInv /\ E!Init
  <2> SUFFICES ASSUME Init PROVE WordInv /\ E!Init
    OBVIOUS
  <2>1. E!Init
    BY DEF Init, E!Init, E!Ends, E!Client, E!Server, Ends, Client, Server
  <2>2. PICK enc \in [Ends -> BOOLEAN], m \in Messages :
          task = [e \in Ends |-> IF e = Client THEN NewTask(100, enc[e], m)
                                 ELSE NewTask(300, enc[e], EmptyMessage)]
    BY DEF Init
  <2>3. Sending(Client) /\ ~Sending(Server) /\ ~Receiving(Client)
    BY <2>2, EndsFacts DEF Sending, Receiving, NewTask
  <2>4. Word(Client)
    BY EndsFacts DEF Init, Word
  <2> QED BY <2>1, <2>3, <2>4, EndsFacts DEF WordInv
<1>2. IInv /\ WordInv /\ [Next]_vars => WordInv' /\ [E!Next]_(E!vars)
  <2> SUFFICES ASSUME IInv, WordInv, [Next]_vars
               PROVE  WordInv' /\ (E!Next \/ UNCHANGED <<sent, got>>)
    BY DEF E!vars
  <2>0. E!Ends = Ends
    BY DEF E!Ends, E!Client, E!Server, Ends, Client, Server
  <2>1. ASSUME NEW e \in Ends, On_Read_CallBack(e)
        PROVE  WordInv' /\ (E!Next \/ UNCHANGED <<sent, got>>)
    BY <2>0, <2>1, ReadExchanges DEF E!Next
  <2>2. ASSUME NEW e \in Ends, On_Write_CallBack(e)
        PROVE  WordInv' /\ (E!Next \/ UNCHANGED <<sent, got>>)
    BY <2>0, <2>2, WriteExchanges DEF E!Next
  <2>3. CASE \/ \E e \in Ends : \/ ServerThreadPoolWorking(e) \/ Hangup(e)
                                \/ ReadTimeout(e) \/ ReleaseTask(e)
             \/ LinkReset \/ Finished \/ UNCHANGED vars
    <3>1. UNCHANGED <<task, net, sent, got>>
      BY <2>3 DEF ServerThreadPoolWorking, Hangup, ReadTimeout, ReleaseTask,
                  On_Error_CallBack, LinkReset, Finished, vars
    <3>2. WordInv'
      BY <3>1 DEF WordInv, Word, Pending, Idle, Sending, Receiving
    <3> QED BY <3>1, <3>2
  <2> QED BY <2>1, <2>2, <2>3 DEF Next
<1> QED BY <1>1, <1>2, Invariance, PTL DEF Spec, Exchanges, E!Spec

=============================================================================

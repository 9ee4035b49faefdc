----------------------------- MODULE Connection -----------------------------
(***************************************************************************)
(* One connection of Bosncc: a client ThreadTask and a server ThreadTask,  *)
(* each driven by its own libevent loop on its own pool thread             *)
(* (Bosnnc.cpp, ThreadTask.cpp), and the TCP stream between them.          *)
(*                                                                         *)
(* A callback of the loop is one action.  TCP delivers what was sent in    *)
(* chunks, so a receiver sees every prefix of a frame.  A header field and *)
(* a byte of the body are one token of the stream each: the module is      *)
(* about connections on which TCP cuts between the fields of a header and  *)
(* inside the body, never inside a header field.  HeaderReader has the     *)
(* cuts inside a field, which this code does not survive.                  *)
(***************************************************************************)
EXTENDS Integers, Sequences

CONSTANTS
    Messages,     \* contents a ConnectProtocol object can have
    EmptyMessage, \* the content ConnectProtocol::Clear() leaves
    Size,         \* Size[m]: ByteSize() of a content
    Utf8Messages, \* the contents whose string fields are well-formed UTF-8
    NULL,         \* no DataBuff allocated
    UIntMod,      \* unsigned int counts modulo this (2^32 in the build)
    SndBuf,       \* tokens a non-blocking send() finds room for
    TimeoutOn,    \* FALSE when SetTimeout(0) has switched the timers off
    Returns,      \* what the business functions of this application return
    MaxRounds     \* bound: messages an application answers on a connection

Client == "client"
Server == "server"
Ends == {Client, Server}

ASSUME MessagesAssumption ==
    /\ EmptyMessage \in Messages
    /\ Utf8Messages \subseteq Messages
    /\ EmptyMessage \in Utf8Messages

\* A serialised ConnectProtocol has no bytes exactly when every field is unset.
\* ByteSize() is an int.
ASSUME SizeAssumption ==
    /\ UIntMod \in Nat \ {0}
    /\ Size \in [Messages -> {n \in Nat : 2 * n < UIntMod}]
    /\ \A m \in Messages : Size[m] = 0 <=> m = EmptyMessage

\* A frame header (three send() calls) fits an empty socket buffer.
ASSUME BufferAssumption == SndBuf \in Nat /\ SndBuf >= 3

\* 1, 2 and 11 are the values the header documents.
ASSUME ReturnsAssumption == Returns \subseteq {1, 2, 11}

ASSUME BoundAssumption == TimeoutOn \in BOOLEAN /\ MaxRounds \in Nat

Peer(e) == IF e = Client THEN Server ELSE Client

VARIABLES
    task,   \* task[e]: the fields of the ThreadTask at end e
    ev,     \* ev[e]: which events of the bufferevent are pending in the loop
    loop,   \* loop[e]: where ServerThreadPoolWorking stands
    sock,   \* sock[e]: the socket at end e
    link,   \* the TCP connection: up, or reset underneath both ends
    net,    \* net[e]: tokens on their way to e, in order
    inbuf,  \* inbuf[e]: the bufferevent's input buffer at e
    ret,    \* ret[e]: what the business function at e last returned, or 0
    sent,   \* history: the last message e's business function was told is sent
    got     \* history: the last message e's business function was handed

vars == <<task, ev, loop, sock, link, net, inbuf, ret, sent, got>>

-----------------------------------------------------------------------------
(* Frames: length, encryption flag (once per connection), check value, body. *)

UInt == 0..(UIntMod - 1)

Factor(enc) == IF enc THEN 1 ELSE 2

\* The check value both ends compute from the length and the flag.
Check(len, enc) == (len * Factor(enc) + Factor(enc) + 1024) % UIntMod

LenToken(n) == [field |-> "length", val |-> n]
EncToken(b) == [field |-> "encrypt", val |-> b]
VerToken(n) == [field |-> "verification", val |-> n]
BodyToken(m, i) == [field |-> "body", val |-> <<m, i>>]

Token ==
    [field : {"length"}, val : UInt] \cup [field : {"encrypt"}, val : BOOLEAN]
    \cup [field : {"verification"}, val : UInt]
    \cup [field : {"body"}, val : Messages \X (Nat \ {0})]

\* SerializeToArray.
Body(m) == [i \in 1..Size[m] |-> BodyToken(m, i)]

\* ParseFromArray: the content whose bytes these are, and whether the parser
\* takes it.  The parser refuses strings that are not UTF-8, the serialiser
\* only logs them.
Content(bytes) == IF bytes = <<>> THEN EmptyMessage ELSE bytes[1].val[1]
Parses(bytes) ==
    \E m \in Utf8Messages : m = Content(bytes) /\ bytes = Body(m)

-----------------------------------------------------------------------------
(* ThreadTask. *)

NewTask(mode, enc, m) ==
    [TaskMode |-> mode,
     DataLenth_All |-> 0, DataLenth_All_Done |-> FALSE,
     DataLenth_Already |-> 0, DataLenth_Remaining |-> 0,
     Verification |-> 0, Verification_Done |-> FALSE, Verification_Ok |-> FALSE,
     Encrypt |-> enc, EncryptDone |-> FALSE,
     DataBuff |-> NULL, m_ConnectProtocol |-> m]

\* Mutant: ByteSize() plus a terminating zero that is never serialised.
ReadySend_Terminator(t) ==
    LET m == t.m_ConnectProtocol IN
    [t EXCEPT !.DataLenth_All = Size[m], !.DataLenth_All_Done = FALSE,
              !.DataLenth_Already = 0, !.DataLenth_Remaining = (Size[m] + 1) % UIntMod,
              !.DataBuff = Body(m),
              !.Verification = Check(Size[m], t.Encrypt),
              !.Verification_Ok = TRUE]

\* DataOperationReady, sending: measure and serialise the message.
ReadySend(t) ==
    LET m == t.m_ConnectProtocol IN
    [t EXCEPT !.DataLenth_All = Size[m], !.DataLenth_All_Done = FALSE,
              !.DataLenth_Already = 0, !.DataLenth_Remaining = Size[m],
              !.DataBuff = Body(m),
              !.Verification = Check(Size[m], t.Encrypt),
              !.Verification_Ok = TRUE]

\* DataOperationReady, receiving: compare the check value, allocate the body.
HeaderAgrees(t) == t.Verification = Check(t.DataLenth_All, t.Encrypt)

\* Mutant: the position of the last frame is kept.
ReadyReceive_KeepsAlready(t) ==
    [t EXCEPT !.Verification_Ok = TRUE, !.DataBuff = <<>>,
              !.DataLenth_Remaining = t.DataLenth_All,
              !.m_ConnectProtocol = EmptyMessage]

ReadyReceive(t) ==
    [t EXCEPT !.Verification_Ok = TRUE, !.DataBuff = <<>>,
              !.DataLenth_Remaining = t.DataLenth_All,
              !.DataLenth_Already = 0,
              !.m_ConnectProtocol = EmptyMessage]

\* What both cases of DataOperationEnd reset; EncryptDone is not among it.
ResetFrame(t) ==
    [t EXCEPT !.DataLenth_All_Done = FALSE, !.Verification_Done = FALSE,
              !.Verification_Ok = FALSE, !.DataBuff = NULL]

\* Mutant: the sender forgets that the flag has been exchanged.
EndSend_ForgetsFlag(t) ==
    [ResetFrame(t) EXCEPT !.m_ConnectProtocol = EmptyMessage,
                          !.EncryptDone = FALSE]

EndSend(t) == [ResetFrame(t) EXCEPT !.m_ConnectProtocol = EmptyMessage]

\* Mutant: the frame is dropped before it is parsed.
EndReceive_Unparsed(t) == ResetFrame(t)

EndReceive(t) ==
    [ResetFrame(t) EXCEPT !.m_ConnectProtocol = Content(t.DataBuff)]

-----------------------------------------------------------------------------
(* Reading, in On_Read_CallBack: one bufferevent_read per field, each      *)
(* skipped when its field is already there; s is the task with the unread  *)
(* input.  The bytes of a field arrive together here: the code marks a     *)
(* field done on any positive count, on one to three bytes of a length or  *)
(* a check value too, and that short read is in HeaderReader.              *)

ReadLength(s) ==
    IF ~s.t.DataLenth_All_Done /\ s.buf # <<>>
    THEN [t |-> [s.t EXCEPT !.DataLenth_All = Head(s.buf).val,
                            !.DataLenth_All_Done = TRUE],
          buf |-> Tail(s.buf)]
    ELSE s

\* Mutant: the flag is read but the task keeps its own.
ReadEncrypt_KeepsOwn(s) ==
    IF ~s.t.EncryptDone /\ s.t.DataLenth_All_Done /\ s.buf # <<>>
    THEN [t |-> [s.t EXCEPT !.EncryptDone = TRUE], buf |-> Tail(s.buf)]
    ELSE s

ReadEncrypt(s) ==
    IF ~s.t.EncryptDone /\ s.t.DataLenth_All_Done /\ s.buf # <<>>
    THEN [t |-> [s.t EXCEPT !.Encrypt = Head(s.buf).val,
                            !.EncryptDone = TRUE],
          buf |-> Tail(s.buf)]
    ELSE s

ReadVerification(s) ==
    IF ~s.t.Verification_Done /\ s.t.EncryptDone /\ s.buf # <<>>
    THEN [t |-> [s.t EXCEPT !.Verification = Head(s.buf).val,
                            !.Verification_Done = TRUE],
          buf |-> Tail(s.buf)]
    ELSE s

ReadHeader(s) == ReadVerification(ReadEncrypt(ReadLength(s)))

HeaderPending(t) == ~t.Verification_Ok /\ t.Verification_Done

\* Mutant: the check is left to a later callback.
CheckHeader_Postponed(s) == s

CheckHeader(s) == IF HeaderPending(s.t) THEN [s EXCEPT !.t = ReadyReceive(@)] ELSE s

ReadBody(s) ==
    LET n == IF Len(s.buf) < s.t.DataLenth_Remaining
             THEN Len(s.buf) ELSE s.t.DataLenth_Remaining
    IN  IF s.t.Verification_Ok /\ s.t.DataLenth_Remaining # 0
        THEN [t |-> [s.t EXCEPT !.DataBuff = @ \o SubSeq(s.buf, 1, n),
                                !.DataLenth_Already = @ + n,
                                !.DataLenth_Remaining = @ - n],
              buf |-> SubSeq(s.buf, n + 1, Len(s.buf))]
        ELSE s

Complete(t) == t.Verification_Ok /\ t.DataLenth_Remaining = 0

-----------------------------------------------------------------------------
(* Writing, in On_Write_CallBack. *)

\* The header fields still to be sent, one send() each.
Header(t) ==
    <<LenToken(t.DataLenth_All)>>
    \o (IF t.EncryptDone THEN <<>> ELSE <<EncToken(t.Encrypt)>>)
    \o (IF t.Verification_Done THEN <<>> ELSE <<VerToken(t.Verification)>>)

Frame(t) == Header(t) \o t.DataBuff

\* Mutant: the counters are signed.
Transmitted_Signed(t, n) ==
    LET h == Len(Header(t))
        sendcount == IF n > h THEN n - h ELSE -1
        flags == [t EXCEPT !.DataLenth_All_Done = n >= 1,
                           !.EncryptDone = @ \/ n >= 2,
                           !.Verification_Done = @ \/ n >= h]
    IN  IF t.DataLenth_Remaining = 0 THEN flags
        ELSE [flags EXCEPT !.DataLenth_Already = @ + sendcount,
                           !.DataLenth_Remaining = @ - sendcount]

\* The flags and counters after the socket took n tokens of Frame(t): a field
\* is done when its send() succeeded, a failing send() of the body returns -1.
Transmitted(t, n) ==
    LET h == Len(Header(t))
        sendcount == IF n > h THEN n - h ELSE -1
        flags == [t EXCEPT !.DataLenth_All_Done = n >= 1,
                           !.EncryptDone = @ \/ n >= 2,
                           !.Verification_Done = @ \/ n >= h]
    IN  IF t.DataLenth_Remaining = 0 THEN flags
        ELSE [flags EXCEPT
                !.DataLenth_Already = (@ + sendcount) % UIntMod,
                !.DataLenth_Remaining = (@ - sendcount) % UIntMod]

PeerLost(e) == link = "reset" \/ sock[Peer(e)] = "closed"

\* How many tokens of a frame of f tokens the socket of e may take.  The
\* client's socket blocks until all are taken; the server's, accepted from a
\* non-blocking listener, takes what fits.  With the peer gone the stack may
\* still accept some calls before the reset arrives.
Accepted(e, f) ==
    IF sock[e] = "closed" THEN {0}
    ELSE IF PeerLost(e) THEN 0..f
    ELSE IF e = Client THEN {f}
    ELSE LET room == SndBuf - Len(net[Peer(e)])
         IN  {IF f < room THEN f ELSE room}

-----------------------------------------------------------------------------
(* The callbacks of the loop at end e. *)

Dispatching(e) == loop[e] = "dispatch"

\* closesocket(fd); event_base_loopbreak(Threadbase)
CloseAndBreak(e) ==
    /\ sock' = [sock EXCEPT ![e] = "closed"]
    /\ loop' = [loop EXCEPT ![e] = "break"]

\* ServerThreadPoolWorking up to event_base_dispatch: the task mode selects
\* the first event.
ServerThreadPoolWorking(e) ==
    /\ loop[e] = "queued"
    /\ loop' = [loop EXCEPT ![e] = "dispatch"]
    /\ ev' = [ev EXCEPT ![e] = [read |-> task[e].TaskMode \div 100 = 3,
                                write |-> task[e].TaskMode \div 100 = 1]]
    /\ UNCHANGED <<task, sock, link, net, inbuf, ret, sent, got>>

\* The business function is handed a received message and its return value
\* selects what happens; it may have rewritten the message into a reply.
\* A returned 2 and any value but 1 close the connection.
Business_CallBack(e, t) ==
    \E r \in Returns, reply \in Messages :
        /\ r = 1 => got[e].n < MaxRounds
        /\ ret' = [ret EXCEPT ![e] = r]
        /\ got' = [got EXCEPT ![e] = [n |-> @.n + 1, msg |-> t.m_ConnectProtocol]]
        /\ \/ /\ r = 1
              /\ task' = [task EXCEPT ![e] =
                             [t EXCEPT !.TaskMode = 100,
                                       !.m_ConnectProtocol = reply]]
              /\ ev' = [ev EXCEPT ![e].write = TRUE]
              /\ UNCHANGED <<loop, sock>>
           \/ /\ r # 1
              /\ task' = [task EXCEPT ![e] = [t EXCEPT !.m_ConnectProtocol = reply]]
              /\ CloseAndBreak(e)
              /\ UNCHANGED ev

\* What On_Read_CallBack does with the input it finds.  A task that is not
\* receiving leaves it where it is.
Consume(e, input) ==
    LET h == ReadHeader([t |-> task[e], buf |-> input])
        b == ReadBody(CheckHeader(h))
        bad == HeaderPending(h.t) /\ ~HeaderAgrees(h.t)
        done == ~bad /\ Complete(b.t)
        end == EndReceive(b.t)
    IN
    IF task[e].TaskMode # 300
    THEN /\ inbuf' = [inbuf EXCEPT ![e] = input]
         /\ UNCHANGED <<task, ev, loop, sock, ret, got>>
    ELSE
    \/ /\ ~bad /\ ~done
       /\ task' = [task EXCEPT ![e] = b.t]
       /\ inbuf' = [inbuf EXCEPT ![e] = b.buf]
       /\ UNCHANGED <<ev, loop, sock, ret, got>>
    \/ /\ bad \/ (done /\ ~Parses(b.t.DataBuff))
       /\ task' = [task EXCEPT ![e] = IF bad THEN h.t ELSE b.t]
       /\ inbuf' = [inbuf EXCEPT ![e] = IF bad THEN h.buf ELSE b.buf]
       /\ CloseAndBreak(e)
       /\ UNCHANGED <<ev, ret, got>>
    \/ /\ done /\ Parses(b.t.DataBuff)
       /\ inbuf' = [inbuf EXCEPT ![e] = b.buf]
       /\ Business_CallBack(e, end)

\* The socket is readable: libevent moves what has arrived, at least one
\* token, to the input buffer and runs the read callback.
On_Read_CallBack(e) ==
    /\ Dispatching(e) /\ ev[e].read /\ sock[e] = "open" /\ link = "up"
    /\ \E k \in 1..Len(net[e]) :
        /\ net' = [net EXCEPT ![e] = SubSeq(@, k + 1, Len(@))]
        /\ Consume(e, inbuf[e] \o SubSeq(net[e], 1, k))
    /\ UNCHANGED <<link, sent>>

\* Mutant: the direction is not turned.
SendDone_StaysSending(e, t) ==
    /\ ret' \in {[ret EXCEPT ![e] = r] : r \in Returns}
    /\ sent' = [sent EXCEPT ![e] = [n |-> @.n + 1, msg |-> t.m_ConnectProtocol]]
    /\ task' = [task EXCEPT ![e] = EndSend(t)]
    /\ ev' = [ev EXCEPT ![e] = [read |-> TRUE, write |-> FALSE]]

\* The whole body went out: the business function is told (its return value
\* is not looked at) and the task turns to receiving.
SendDone(e, t) ==
    /\ ret' \in {[ret EXCEPT ![e] = r] : r \in Returns}
    /\ sent' = [sent EXCEPT ![e] = [n |-> @.n + 1, msg |-> t.m_ConnectProtocol]]
    /\ task' = [task EXCEPT ![e] = [EndSend(t) EXCEPT !.TaskMode = 300]]
    /\ ev' = [ev EXCEPT ![e] = [read |-> TRUE, write |-> FALSE]]

\* Mutant: the write event is added again to send the rest.
SendStopped_Retries(e, t) ==
    /\ task' = [task EXCEPT ![e] = t]
    /\ UNCHANGED <<ev, ret, sent>>

\* The socket took less: the task stays half way through its message, with no
\* event to bring it back.
SendStopped(e, t) ==
    /\ task' = [task EXCEPT ![e] = t]
    /\ ev' = [ev EXCEPT ![e].write = FALSE]
    /\ UNCHANGED <<ret, sent>>

\* The socket is writable.  The bufferevent's own output buffer is empty, so
\* libevent drops the write event and runs the callback once.
On_Write_CallBack(e) ==
    LET ready == ReadySend(task[e])
        frame == Frame(ready)
    IN
    /\ Dispatching(e) /\ ev[e].write
    /\ IF task[e].TaskMode # 100
       THEN /\ ev' = [ev EXCEPT ![e].write = FALSE]
            /\ UNCHANGED <<task, net, ret, sent>>
       ELSE \E n \in Accepted(e, Len(frame)) :
            LET t == Transmitted(ready, n) IN
            /\ net' = IF link = "reset" THEN net
                      ELSE [net EXCEPT ![Peer(e)] = @ \o SubSeq(frame, 1, n)]
            /\ IF t.DataLenth_Remaining = 0
               THEN SendDone(e, t)
               ELSE SendStopped(e, t)
    /\ UNCHANGED <<loop, sock, link, inbuf, got>>

\* The event callback: libevent has disabled reading and reports end of file,
\* an error or a timeout; the socket is closed and the loop goes on.
On_Error_CallBack(e) ==
    /\ Dispatching(e) /\ ev[e].read /\ sock[e] = "open"
    /\ ev' = [ev EXCEPT ![e].read = FALSE]
    /\ sock' = [sock EXCEPT ![e] = "closed"]
    /\ UNCHANGED <<task, loop, link, net, inbuf, ret, sent, got>>

\* End of file behind the last byte, or a reset: of the link, or because the
\* peer closed with input unread.
Hangup(e) ==
    /\ \/ link = "reset"
       \/ sock[Peer(e)] = "closed" /\ (net[e] = <<>> \/ net[Peer(e)] # <<>>)
    /\ On_Error_CallBack(e)

\* Mutant: bufferevent_set_timeouts is not called.
ReadTimeout_Never(e) == FALSE /\ On_Error_CallBack(e)

\* Nothing arrived for the time SetTimeout gave.
ReadTimeout(e) == TimeoutOn /\ On_Error_CallBack(e)

\* Mutant: the loop waits on when it has no event left.
ReleaseTask_OnlyOnBreak(e) ==
    /\ loop[e] = "break"
    /\ loop' = [loop EXCEPT ![e] = "deleted"]
    /\ sock' = [sock EXCEPT ![e] = "closed"]
    /\ ev' = [ev EXCEPT ![e] = [read |-> FALSE, write |-> FALSE]]
    /\ UNCHANGED <<task, link, net, inbuf, ret, sent, got>>

\* event_base_dispatch returns after a loopbreak, when no event is pending,
\* or when select() fails on a closed socket; then the bufferevent and the
\* task are released.
ReleaseTask(e) ==
    /\ \/ loop[e] = "break"
       \/ Dispatching(e) /\ ~ev[e].read /\ ~ev[e].write
       \/ Dispatching(e) /\ sock[e] = "closed"
    /\ loop' = [loop EXCEPT ![e] = "deleted"]
    /\ sock' = [sock EXCEPT ![e] = "closed"]
    /\ ev' = [ev EXCEPT ![e] = [read |-> FALSE, write |-> FALSE]]
    /\ UNCHANGED <<task, link, net, inbuf, ret, sent, got>>

\* The network drops the connection; what was on its way is lost.
LinkReset ==
    /\ link = "up"
    /\ link' = "reset"
    /\ UNCHANGED <<task, ev, loop, sock, net, inbuf, ret, sent, got>>

\* Both tasks are gone.
Finished == (\A e \in Ends : loop[e] = "deleted") /\ UNCHANGED vars

Init ==
    /\ \E enc \in [Ends -> BOOLEAN], m \in Messages :
        task = [e \in Ends |->
                  IF e = Client THEN NewTask(100, enc[e], m)
                  ELSE NewTask(300, enc[e], EmptyMessage)]
    /\ ev = [e \in Ends |-> [read |-> FALSE, write |-> FALSE]]
    /\ loop = [e \in Ends |-> "queued"]
    /\ sock = [e \in Ends |-> "open"]
    /\ link = "up"
    /\ net = [e \in Ends |-> <<>>]
    /\ inbuf = [e \in Ends |-> <<>>]
    /\ ret = [e \in Ends |-> 0]
    /\ sent = [e \in Ends |-> [n |-> 0, msg |-> EmptyMessage]]
    /\ got = [e \in Ends |-> [n |-> 0, msg |-> EmptyMessage]]

Next ==
    \/ \E e \in Ends :
        \/ ServerThreadPoolWorking(e)
        \/ On_Read_CallBack(e)
        \/ On_Write_CallBack(e)
        \/ Hangup(e)
        \/ ReadTimeout(e)
        \/ ReleaseTask(e)
    \/ LinkReset
    \/ Finished

Spec == Init /\ [][Next]_vars

\* The pool runs a submitted work item, and a loop serves its pending events.
\* Nothing obliges the network to fail, and the read timer of an end runs out
\* only when nothing arrives.
FairSpec ==
    /\ Spec
    /\ \A e \in Ends :
        /\ WF_vars(ServerThreadPoolWorking(e))
        /\ WF_vars(On_Read_CallBack(e))
        /\ WF_vars(On_Write_CallBack(e))
        /\ WF_vars(Hangup(e))
        /\ WF_vars(net[e] = <<>> /\ ReadTimeout(e))
        /\ WF_vars(ReleaseTask(e))

-----------------------------------------------------------------------------
(* Invariants. *)

ThreadTask ==
    [TaskMode : {100, 300},
     DataLenth_All : UInt, DataLenth_All_Done : BOOLEAN,
     DataLenth_Already : UInt, DataLenth_Remaining : UInt,
     Verification : UInt, Verification_Done : BOOLEAN, Verification_Ok : BOOLEAN,
     Encrypt : BOOLEAN, EncryptDone : BOOLEAN,
     DataBuff : {NULL} \cup Seq(Token), m_ConnectProtocol : Messages]

\* Every variable has its type; the unsigned counters of a task stay in range
\* when a failing send() adds -1 to them.
TypeOK ==
    /\ task \in [Ends -> ThreadTask]
    /\ ev \in [Ends -> [read : BOOLEAN, write : BOOLEAN]]
    /\ loop \in [Ends -> {"queued", "dispatch", "break", "deleted"}]
    /\ sock \in [Ends -> {"open", "closed"}]
    /\ link \in {"up", "reset"}
    /\ net \in [Ends -> Seq(Token)]
    /\ inbuf \in [Ends -> Seq(Token)]
    /\ ret \in [Ends -> Returns \cup {0}]
    /\ sent \in [Ends -> [n : Nat, msg : Messages]]
    /\ got \in [Ends -> [n : Nat, msg : Messages]]

Sending(e) == task[e].TaskMode = 100
Receiving(e) == task[e].TaskMode = 300
Live(e) == loop[e] \in {"queued", "dispatch"}

\* DataBuff is allocated exactly while a frame is in hand.  A receiver writes
\* inside it: what has been read and what is still to be read make up the
\* length that malloc was given.
BufferConserved ==
    \A e \in Ends :
        /\ ~task[e].Verification_Ok => task[e].DataBuff = NULL
        /\ Receiving(e) /\ task[e].Verification_Ok =>
            /\ Len(task[e].DataBuff) = task[e].DataLenth_Already
            /\ task[e].DataLenth_Already + task[e].DataLenth_Remaining
                 = task[e].DataLenth_All

\* DataOperationReady never overwrites a buffer that is still allocated, and
\* so never sends the start of a message twice: a write callback that will
\* prepare a message finds the last one released.
NothingResent ==
    \A e \in Ends :
        Sending(e) /\ ev[e].write /\ Live(e) => task[e].DataBuff = NULL

\* The two ends take turns: no byte waits for a task that is sending, where
\* On_Read_CallBack would leave it unread with no callback to come back to it.
\* A header cut inside a field and still accepted would leave such bytes.
TurnTaking ==
    /\ \A e \in Ends : inbuf[e] = <<>>
    /\ \A e \in Ends : Sending(e) => net[e] = <<>>

\* The field On_Read_CallBack reads next.
Expected(t) ==
    IF ~t.DataLenth_All_Done THEN "length"
    ELSE IF ~t.EncryptDone THEN "encrypt"
    ELSE IF ~t.Verification_Done THEN "verification" ELSE "body"

\* The stream carries no marks: both ends must agree, frame after frame, on
\* which field comes next and on whether the flag is still to be exchanged,
\* wherever TCP cuts between fields or inside the body.
FieldsInStep ==
    \A e \in Ends :
        Receiving(e) /\ Live(e) /\ net[e] # <<>> =>
            Head(net[e]).field = Expected(task[e])

\* Whatever the server's flag was when the connection was accepted, it is the
\* client's once the flag has been read, and no header whose fields arrive
\* whole is rejected, however often the ends have taken turns.  A header that
\* TCP cuts inside its length or its check value usually is rejected: Connection
\* has no such header, see WholeFieldsSuffice and VerifiedIsSent of HeaderReader.
HeadersAccepted ==
    /\ task[Server].EncryptDone => task[Server].Encrypt = task[Client].Encrypt
    /\ \A e \in Ends :
        Receiving(e) /\ task[e].Verification_Done => HeaderAgrees(task[e])

HalfSent(e) == Sending(e) /\ task[e].DataBuff # NULL

\* A task stops in the middle of a message on a connection that works only at
\* the server, and only when the message is more than the socket takes at once.
StallsOnlyWhenFull ==
    \A e \in Ends :
        HalfSent(e) /\ sock[e] = "open" /\ ~PeerLost(e) =>
            /\ e = Server
            /\ task[e].DataLenth_All + 2 > SndBuf

-----------------------------------------------------------------------------
(* Progress, under FairSpec. *)

Ended(e) == loop[e] = "deleted"

\* When one end has closed its socket the task at the other end is released
\* too, in whichever direction it was working, timers or not.
HangupPropagates ==
    \A e \in Ends : sock[e] = "closed" ~> Ended(Peer(e))

\* A message that was sent is handed to the other end's business function
\* unless the connection is lost or that end gives it up.
SentArrives ==
    \A e \in Ends : \A k \in 1..(MaxRounds + 1) :
        sent[e].n = k ~> got[Peer(e)].n >= k \/ link = "reset"
                         \/ \E f \in Ends : sock[f] = "closed"

\* A message the socket did not take as a whole holds neither end for ever:
\* the read timeout, which runs while a task is sending too, ends both.
StallsEnd ==
    \A e \in Ends : HalfSent(e) ~> \A f \in Ends : Ended(f)

-----------------------------------------------------------------------------
(* What README.md and ThreadTask.h say: the code does otherwise. *)

Handed(e) == got'[e].n > got[e].n
Reported(e) == sent'[e].n > sent[e].n

\* "Arg: 100 ... the data has been sent".
ReportedMeansSent ==
    [][\A e \in Ends : Reported(e) => sock[e] = "open"]_vars

\* "return ... 11: keep receiving".
ElevenKeepsReceiving ==
    [][\A e \in Ends : Handed(e) /\ ret'[e] = 11 => sock'[e] = "open"]_vars

-----------------------------------------------------------------------------
(* The promise of a connection, in Exchange. *)

E == INSTANCE Exchange WITH sent <- sent, got <- got

Exchanges == E!Spec

=============================================================================

-------------------------- MODULE ConnectionProofs --------------------------
(***************************************************************************)
(* Proofs about Connection.                                                *)
(*                                                                         *)
(* The inductive invariant relates the two ends through the stream between *)
(* them: what is on its way to a receiver is exactly what it has still to  *)
(* read, in order, of the message the other end is sending or sent last.   *)
(* As in Connection, every header field arrives whole.                     *)
(***************************************************************************)
EXTENDS Connection, SequenceTheorems, TLAPS

\* The flag of every frame: the client's, which nothing ever changes.
Enc == task[Client].Encrypt

\* The message on its way to e.
Msg(e) == LET s == task[Peer(e)] IN
          IF s.TaskMode = 100 THEN s.m_ConnectProtocol ELSE sent[Peer(e)].msg

B2N(b) == IF b THEN 1 ELSE 0

\* How many tokens t has still to read up to and including each header field.
A1(t) == B2N(~t.DataLenth_All_Done)
A2(t) == A1(t) + B2N(~t.EncryptDone)
A3(t) == A2(t) + B2N(~t.Verification_Done)

\* How much of the body t has read.
BodyRead(t) == IF t.Verification_Ok THEN t.DataLenth_Already ELSE 0

\* The i-th token that t has still to read of message m.
Due(t, m, enc, i) ==
    IF i <= A1(t) THEN LenToken(Size[m])
    ELSE IF i <= A2(t) THEN EncToken(enc)
    ELSE IF i <= A3(t) THEN VerToken(Check(Size[m], enc))
    ELSE BodyToken(m, BodyRead(t) + i - A3(t))

DueLen(t, m) == A3(t) + Size[m] - BodyRead(t)

\* What the receiver t knows of the header is right.
HeaderRight(t, m, enc) ==
    /\ t.DataLenth_All_Done => t.DataLenth_All = Size[m]
    /\ t.EncryptDone => t.Encrypt = enc
    /\ t.Verification_Done =>
        /\ t.DataLenth_All_Done /\ t.EncryptDone
        /\ t.Verification = Check(Size[m], enc)

\* What it has read of the body is the start of the message.
BodyRight(t, m) ==
    /\ ~t.Verification_Ok => t.DataBuff = NULL
    /\ t.Verification_Ok =>
        /\ t.Verification_Done
        /\ t.DataBuff \in Seq(Token)
        /\ Len(t.DataBuff) = t.DataLenth_Already
        /\ t.DataLenth_Already + t.DataLenth_Remaining = Size[m]
        /\ \A i \in 1..t.DataLenth_Already : t.DataBuff[i] = BodyToken(m, i)

\* q, the unread stream, is a prefix of what t has still to read.
Aligned(t, q, m, enc) ==
    /\ HeaderRight(t, m, enc)
    /\ BodyRight(t, m)
    /\ Len(q) <= DueLen(t, m)
    /\ \A i \in 1..Len(q) : q[i] = Due(t, m, enc, i)

Idle(e) == net[e] = <<>> /\ ~task[e].DataLenth_All_Done

FrameReset(t) ==
    ~t.DataLenth_All_Done /\ ~t.Verification_Done /\ ~t.Verification_Ok

\* A receiver is in step with the stream, and waits for nothing between its
\* check of the header and the body.
ReceiverInv ==
    \A e \in Ends : Receiving(e) =>
        /\ Aligned(task[e], net[e], Msg(e), Enc)
        /\ task[e].Verification_Done => task[e].Verification_Ok

\* While one end sends, the other receives; before it has started, the other
\* waits for a new frame; when it has stopped half way, the frame is not whole.
SenderInv ==
    \A e \in Ends : Sending(e) =>
        /\ net[e] = <<>>
        /\ Receiving(Peer(e))
        /\ ~task[e].Verification_Ok =>
            /\ task[e].DataBuff = NULL
            /\ FrameReset(task[e])
            /\ Idle(Peer(e))
        /\ task[e].Verification_Ok =>
            Len(net[Peer(e)])
              < DueLen(task[Peer(e)], task[e].m_ConnectProtocol)

\* Never a frame on its way in both directions.
OneDirection == (\A e \in Ends : Receiving(e)) => \E e \in Ends : Idle(e)

\* The flag has left the client before the server has read it, has been read
\* before anything goes the other way, and is the client's.
FlagInv ==
    /\ ~task[Client].EncryptDone =>
        /\ ~task[Server].EncryptDone
        /\ Len(net[Server]) + B2N(task[Server].DataLenth_All_Done) <= 1
    /\ Sending(Server) \/ (Receiving(Client) /\ ~Idle(Client))
         => task[Client].EncryptDone /\ task[Server].EncryptDone
    /\ Sending(Client) /\ ~task[Client].Verification_Ok /\ task[Client].EncryptDone
         => task[Server].EncryptDone
    /\ task[Server].EncryptDone => task[Server].Encrypt = Enc

\* A loop that will run the write callback of a sender finds it at the start.
EventInv ==
    /\ \A e \in Ends : inbuf[e] = <<>>
    /\ \A e \in Ends : loop[e] = "queued" => ~task[e].Verification_Ok
    /\ \A e \in Ends :
        Sending(e) /\ ev[e].write /\ Live(e) => ~task[e].Verification_Ok

IInv ==
    /\ TypeOK
    /\ ReceiverInv
    /\ SenderInv
    /\ OneDirection
    /\ FlagInv
    /\ EventInv

-----------------------------------------------------------------------------
(* Sequences. *)

\* Taking the first element of the first of two sequences moves every
\* element of their concatenation down by one.
LEMMA TailConcat ==
    ASSUME NEW S, NEW q \in Seq(S), NEW rest \in Seq(S), q # <<>>
    PROVE  /\ Tail(q) \in Seq(S) /\ Len(Tail(q)) = Len(q) - 1
           /\ Head(q) = (q \o rest)[1]
           /\ Len(q \o rest) = Len(q) + Len(rest)
           /\ Len(Tail(q) \o rest) = Len(q \o rest) - 1
           /\ \A i \in 1..Len(Tail(q) \o rest) :
                (Tail(q) \o rest)[i] = (q \o rest)[i + 1]
  OBVIOUS

\* The sequence c is the elements of d and then those of q, all of them in S.
Joined(c, d, q, S) ==
    /\ c \in Seq(S) /\ Len(c) = Len(d) + Len(q)
    /\ \A i \in 1..(Len(d) + Len(q)) :
          c[i] = IF i <= Len(d) THEN d[i] ELSE q[i - Len(d)]

\* So is their concatenation.
LEMMA ConcatJoined ==
    ASSUME NEW S, NEW d \in Seq(S), NEW q \in Seq(S), NEW c, c = d \o q
    PROVE  Joined(c, d, q, S)
  BY DEF Joined

\* A stream cut by TCP at any place is the two pieces in order.
LEMMA SplitConcat ==
    ASSUME NEW S, NEW q \in Seq(S), NEW k \in 0..Len(q)
    PROVE  /\ SubSeq(q, 1, k) \in Seq(S) /\ Len(SubSeq(q, 1, k)) = k
           /\ SubSeq(q, k + 1, Len(q)) \in Seq(S)
           /\ Len(SubSeq(q, k + 1, Len(q))) = Len(q) - k
           /\ SubSeq(q, 1, k) \o SubSeq(q, k + 1, Len(q)) = q
<1> DEFINE u == SubSeq(q, 1, k)
           v == SubSeq(q, k + 1, Len(q))
<1>1. /\ u \in Seq(S) /\ Len(u) = k /\ v \in Seq(S) /\ Len(v) = Len(q) - k
      /\ \A i \in 1..k : u[i] = q[i]
      /\ \A i \in 1..(Len(q) - k) : v[i] = q[k + i]
  OBVIOUS
<1> HIDE DEF u, v
<1>2. /\ u \o v \in Seq(S) /\ Len(u \o v) = Len(u) + Len(v)
      /\ \A i \in 1..(Len(u) + Len(v)) :
            (u \o v)[i] = IF i <= Len(u) THEN u[i] ELSE v[i - Len(u)]
  BY <1>1, ConcatProperties
<1>3. \A i \in 1..Len(u \o v) : (u \o v)[i] = q[i]
  BY <1>1, <1>2
<1>4. u \o v = q
  <2>1. Len(u \o v) = Len(q)
    BY <1>1, <1>2
  <2> QED BY <1>2, <1>3, <2>1, SeqEqual
<1> USE DEF u, v
<1> QED BY <1>1, <1>4

-----------------------------------------------------------------------------
(* Reading: each step of On_Read_CallBack keeps the task in step with the   *)
(* stream q \o rest, where q has been read into the input buffer.           *)

ReadState == [t : ThreadTask, buf : Seq(Token)]

InStep(s, rest, m, enc) ==
    s \in ReadState /\ Aligned(s.t, s.buf \o rest, m, enc)

\* What reading keeps, between the state s before and r after.
Keeps(s, r, m) ==
    /\ DueLen(r.t, m) - Len(r.buf) = DueLen(s.t, m) - Len(s.buf)
    /\ r.t.TaskMode = s.t.TaskMode
    /\ s.t.DataLenth_All_Done => r.t.DataLenth_All_Done
    /\ s.t.EncryptDone => r.t.EncryptDone
    /\ r.t.EncryptDone /\ ~s.t.EncryptDone => r.t.DataLenth_All_Done

\* What SizeAssumption says of one message: ByteSize() fits an unsigned int.
LEMMA SizeBound ==
    \A m \in Messages : Size[m] \in Nat /\ 2 * Size[m] < UIntMod /\ Size[m] \in UInt
<1> SUFFICES ASSUME NEW m \in Messages
             PROVE  Size[m] \in Nat /\ 2 * Size[m] < UIntMod /\ Size[m] \in UInt
  OBVIOUS
<1>1. UIntMod \in Nat /\ Size[m] \in {n \in Nat : 2 * n < UIntMod}
  BY SizeAssumption
<1>2. Size[m] \in Nat /\ 2 * Size[m] < UIntMod
  BY <1>1
<1> QED BY <1>1, <1>2 DEF UInt

\* The check value is an unsigned int.
LEMMA CheckType ==
    ASSUME NEW n \in Nat, NEW enc \in BOOLEAN
    PROVE  Check(n, enc) \in UInt
  BY SizeAssumption DEF Check, Factor, UInt

\* The first unread token is the one that is due.
LEMMA FirstDue ==
    ASSUME NEW t, NEW q \in Seq(Token), NEW rest \in Seq(Token), NEW m, NEW enc,
           q # <<>>, Aligned(t, q \o rest, m, enc)
    PROVE  Head(q) = Due(t, m, enc, 1)
<1>1. Head(q) = (q \o rest)[1] /\ Len(q \o rest) = Len(q) + Len(rest)
  BY TailConcat
<1>2. 1 \in 1..Len(q \o rest)
  BY <1>1
<1> QED BY <1>1, <1>2 DEF Aligned

\* Reading one header token: u is t after it.
LEMMA HeaderTokenRead ==
    ASSUME NEW t, NEW u, NEW q \in Seq(Token), NEW rest \in Seq(Token),
           NEW m \in Messages, NEW enc,
           q # <<>>, Aligned(t, q \o rest, m, enc),
           HeaderRight(u, m, enc), BodyRight(u, m),
           DueLen(t, m) = 1 + DueLen(u, m), DueLen(u, m) \in Int,
           \A i \in Nat \ {0} : Due(t, m, enc, i + 1) = Due(u, m, enc, i)
    PROVE  /\ Tail(q) \in Seq(Token)
           /\ Aligned(u, Tail(q) \o rest, m, enc)
           /\ DueLen(u, m) - Len(Tail(q)) = DueLen(t, m) - Len(q)
<1> DEFINE p == Tail(q)
<1>1. /\ p \in Seq(Token) /\ Len(p) = Len(q) - 1
      /\ Len(q \o rest) = Len(q) + Len(rest)
      /\ Len(p \o rest) = Len(q \o rest) - 1
      /\ \A i \in 1..Len(p \o rest) : (p \o rest)[i] = (q \o rest)[i + 1]
  BY TailConcat
<1> HIDE DEF p
<1>2. \A i \in 1..Len(p \o rest) : (p \o rest)[i] = Due(u, m, enc, i)
  <2> SUFFICES ASSUME NEW i \in 1..Len(p \o rest)
               PROVE  (q \o rest)[i + 1] = Due(u, m, enc, i)
    BY <1>1
  <2>1. i + 1 \in 1..Len(q \o rest) /\ i \in Nat \ {0}
    BY <1>1
  <2>2. (q \o rest)[i + 1] = Due(t, m, enc, i + 1)
    BY <2>1 DEF Aligned
  <2> QED BY <2>1, <2>2
<1>3. Len(p \o rest) <= DueLen(u, m)
  BY <1>1 DEF Aligned
<1>4. DueLen(u, m) - Len(p) = DueLen(t, m) - Len(q)
  BY <1>1
<1> QED BY <1>1, <1>2, <1>3, <1>4 DEF Aligned, p

\* A step that reads nothing.
LEMMA NothingRead ==
    ASSUME NEW s, NEW m
    PROVE  DueLen(s.t, m) - Len(s.buf) = DueLen(s.t, m) - Len(s.buf)
  OBVIOUS

\* Reading the length, the first bufferevent_read of On_Read_CallBack.
LEMMA ReadLengthInStep ==
    ASSUME NEW s, NEW rest \in Seq(Token), NEW m \in Messages,
           NEW enc \in BOOLEAN, InStep(s, rest, m, enc),
           NEW r, r = ReadLength(s)
    PROVE  /\ InStep(r, rest, m, enc) /\ Keeps(s, r, m)
           /\ r.t.DataLenth_All_Done \/ r.buf = <<>>
           /\ r.t.Verification_Ok = s.t.Verification_Ok
<1>1. /\ s \in ReadState /\ s.t \in ThreadTask /\ s.buf \in Seq(Token)
      /\ Aligned(s.t, s.buf \o rest, m, enc)
      /\ Size[m] \in Nat /\ Size[m] \in UInt
  BY SizeBound DEF InStep, ReadState
<1>2. CASE ~(~s.t.DataLenth_All_Done /\ s.buf # <<>>)
  <2>1. r = s
    BY <1>2 DEF ReadLength
  <2> QED BY <1>1, <1>2, <2>1, NothingRead DEF Keeps, InStep
<1>3. CASE ~s.t.DataLenth_All_Done /\ s.buf # <<>>
  <2> DEFINE t == s.t
             q == s.buf
             u == [t EXCEPT !.DataLenth_All = Size[m], !.DataLenth_All_Done = TRUE]
  <2>1. Head(q) = Due(t, m, enc, 1)
    BY <1>1, <1>3, FirstDue
  <2>2. Head(q) = LenToken(Size[m])
    BY <2>1, <1>3 DEF Due, A1, B2N
  <2>3. r.t = u /\ r.buf = Tail(q) /\ r = [t |-> u, buf |-> Tail(q)]
    <3>1. Head(q).val = Size[m]
      BY <2>2 DEF LenToken
    <3> QED BY <1>3, <3>1 DEF ReadLength
  <2>4. u \in ThreadTask
    BY <1>1 DEF ThreadTask
  <2>5. /\ u.DataLenth_All_Done /\ u.DataLenth_All = Size[m]
        /\ u.TaskMode = t.TaskMode
        /\ u.EncryptDone = t.EncryptDone /\ u.Encrypt = t.Encrypt
        /\ u.Verification_Done = t.Verification_Done
        /\ u.Verification_Ok = t.Verification_Ok
        /\ u.DataBuff = t.DataBuff
    BY <1>1 DEF ThreadTask
  <2>6. /\ ~t.DataLenth_All_Done /\ ~t.Verification_Ok /\ ~t.Verification_Done
        /\ Aligned(t, q \o rest, m, enc) /\ q \in Seq(Token) /\ q # <<>>
    BY <1>1, <1>3 DEF Aligned, HeaderRight, BodyRight
  <2> HIDE DEF t, q, u
  <2>7. HeaderRight(u, m, enc) /\ BodyRight(u, m)
    BY <2>5, <2>6 DEF Aligned, HeaderRight, BodyRight
  <2>8. /\ A3(t) = 1 + A3(u) /\ A2(t) = 1 + A2(u) /\ A1(t) = 1 /\ A1(u) = 0
        /\ BodyRead(u) = 0 /\ BodyRead(t) = 0 /\ A2(u) \in Nat /\ A3(u) \in Nat
    BY <2>5, <2>6 DEF A1, A2, A3, B2N, BodyRead
  <2>9. DueLen(t, m) = 1 + DueLen(u, m) /\ DueLen(u, m) \in Int
    BY <2>8, <1>1 DEF DueLen
  <2>10. \A i \in Nat \ {0} : Due(t, m, enc, i + 1) = Due(u, m, enc, i)
    BY <2>8 DEF Due
  <2>11. /\ Tail(q) \in Seq(Token)
         /\ Aligned(u, Tail(q) \o rest, m, enc)
         /\ DueLen(u, m) - Len(Tail(q)) = DueLen(t, m) - Len(q)
    BY <2>6, <2>7, <2>9, <2>10, HeaderTokenRead, SMTT(40)
  <2>12. InStep(r, rest, m, enc)
    BY <2>3, <2>4, <2>11 DEF InStep, ReadState
  <2> QED BY <2>3, <2>5, <2>6, <2>11, <2>12 DEF Keeps, t, q
<1> QED BY <1>2, <1>3

\* Reading the flag, which has not been read before on this connection.
LEMMA ReadEncryptInStep ==
    ASSUME NEW s, NEW rest \in Seq(Token), NEW m \in Messages,
           NEW enc \in BOOLEAN, InStep(s, rest, m, enc),
           s.t.DataLenth_All_Done \/ s.buf = <<>>,
           NEW r, r = ReadEncrypt(s)
    PROVE  /\ InStep(r, rest, m, enc) /\ Keeps(s, r, m)
           /\ (r.t.DataLenth_All_Done /\ r.t.EncryptDone) \/ r.buf = <<>>
           /\ r.t.Verification_Ok = s.t.Verification_Ok
<1>1. /\ s \in ReadState /\ s.t \in ThreadTask /\ s.buf \in Seq(Token)
      /\ Aligned(s.t, s.buf \o rest, m, enc)
      /\ Size[m] \in Nat
  BY SizeBound DEF InStep, ReadState
<1>2. CASE ~(~s.t.EncryptDone /\ s.t.DataLenth_All_Done /\ s.buf # <<>>)
  <2>1. r = s
    BY <1>2 DEF ReadEncrypt
  <2> QED BY <1>1, <1>2, <2>1, NothingRead DEF Keeps, InStep
<1>3. CASE ~s.t.EncryptDone /\ s.t.DataLenth_All_Done /\ s.buf # <<>>
  <2> DEFINE t == s.t
             q == s.buf
             u == [t EXCEPT !.Encrypt = enc, !.EncryptDone = TRUE]
  <2>1. Head(q) = Due(t, m, enc, 1)
    BY <1>1, <1>3, FirstDue
  <2>2. Head(q) = EncToken(enc)
    BY <2>1, <1>3 DEF Due, A1, A2, B2N
  <2>3. r.t = u /\ r.buf = Tail(q) /\ r = [t |-> u, buf |-> Tail(q)]
    <3>1. Head(q).val = enc
      BY <2>2 DEF EncToken
    <3> QED BY <1>3, <3>1 DEF ReadEncrypt
  <2>4. u \in ThreadTask
    BY <1>1, ZenonT(60) DEF ThreadTask
  <2>5. /\ u.EncryptDone /\ u.Encrypt = enc
        /\ u.TaskMode = t.TaskMode
        /\ u.DataLenth_All_Done = t.DataLenth_All_Done
        /\ u.DataLenth_All = t.DataLenth_All
        /\ u.Verification_Done = t.Verification_Done
        /\ u.Verification_Ok = t.Verification_Ok
        /\ u.DataBuff = t.DataBuff
    BY <1>1 DEF ThreadTask
  <2>6. /\ t.DataLenth_All_Done /\ ~t.EncryptDone
        /\ ~t.Verification_Ok /\ ~t.Verification_Done
        /\ Aligned(t, q \o rest, m, enc) /\ q \in Seq(Token) /\ q # <<>>
    BY <1>1, <1>3 DEF Aligned, HeaderRight, BodyRight
  <2> HIDE DEF t, q, u
  <2>7. HeaderRight(u, m, enc) /\ BodyRight(u, m)
    BY <2>5, <2>6 DEF Aligned, HeaderRight, BodyRight
  <2>8. /\ A3(t) = 2 /\ A3(u) = 1 /\ A2(t) = 1 /\ A2(u) = 0
        /\ A1(t) = 0 /\ A1(u) = 0 /\ BodyRead(u) = 0 /\ BodyRead(t) = 0
    BY <2>5, <2>6 DEF A1, A2, A3, B2N, BodyRead
  <2>9. DueLen(t, m) = 1 + DueLen(u, m) /\ DueLen(u, m) \in Int
    BY <2>8, <1>1 DEF DueLen
  <2>10. \A i \in Nat \ {0} : Due(t, m, enc, i + 1) = Due(u, m, enc, i)
    BY <2>8 DEF Due
  <2>11. /\ Tail(q) \in Seq(Token)
         /\ Aligned(u, Tail(q) \o rest, m, enc)
         /\ DueLen(u, m) - Len(Tail(q)) = DueLen(t, m) - Len(q)
    BY <2>6, <2>7, <2>9, <2>10, HeaderTokenRead, SMTT(40)
  <2>12. InStep(r, rest, m, enc)
    BY <2>3, <2>4, <2>11 DEF InStep, ReadState
  <2> QED BY <2>3, <2>5, <2>6, <2>11, <2>12 DEF Keeps, t, q
<1> QED BY <1>2, <1>3

\* Reading the check value.
LEMMA ReadVerificationInStep ==
    ASSUME NEW s, NEW rest \in Seq(Token), NEW m \in Messages,
           NEW enc \in BOOLEAN, InStep(s, rest, m, enc),
           (s.t.DataLenth_All_Done /\ s.t.EncryptDone) \/ s.buf = <<>>,
           NEW r, r = ReadVerification(s)
    PROVE  /\ InStep(r, rest, m, enc) /\ Keeps(s, r, m)
           /\ r.t.Verification_Done \/ r.buf = <<>>
           /\ r.t.Verification_Ok = s.t.Verification_Ok
<1>1. /\ s \in ReadState /\ s.t \in ThreadTask /\ s.buf \in Seq(Token)
      /\ Aligned(s.t, s.buf \o rest, m, enc)
      /\ Size[m] \in Nat /\ Check(Size[m], enc) \in UInt
  BY SizeBound, CheckType DEF InStep, ReadState
<1>2. CASE ~(~s.t.Verification_Done /\ s.t.EncryptDone /\ s.buf # <<>>)
  <2>1. r = s
    BY <1>2 DEF ReadVerification
  <2> QED BY <1>1, <1>2, <2>1, NothingRead DEF Keeps, InStep
<1>3. CASE ~s.t.Verification_Done /\ s.t.EncryptDone /\ s.buf # <<>>
  <2> DEFINE t == s.t
             q == s.buf
             u == [t EXCEPT !.Verification = Check(Size[m], enc),
                            !.Verification_Done = TRUE]
  <2>1. Head(q) = Due(t, m, enc, 1)
    BY <1>1, <1>3, FirstDue
  <2>2. Head(q) = VerToken(Check(Size[m], enc))
    BY <2>1, <1>3 DEF Due, A1, A2, A3, B2N
  <2>3. r.t = u /\ r.buf = Tail(q) /\ r = [t |-> u, buf |-> Tail(q)]
    <3>1. Head(q).val = Check(Size[m], enc)
      BY <2>2 DEF VerToken
    <3> QED BY <1>3, <3>1 DEF ReadVerification
  <2>4. u \in ThreadTask
    BY <1>1 DEF ThreadTask
  <2>5. /\ u.Verification_Done /\ u.Verification = Check(Size[m], enc)
        /\ u.TaskMode = t.TaskMode
        /\ u.DataLenth_All_Done = t.DataLenth_All_Done
        /\ u.DataLenth_All = t.DataLenth_All
        /\ u.EncryptDone = t.EncryptDone /\ u.Encrypt = t.Encrypt
        /\ u.Verification_Ok = t.Verification_Ok
        /\ u.DataBuff = t.DataBuff
    BY <1>1 DEF ThreadTask
  <2>6. /\ t.DataLenth_All_Done /\ t.EncryptDone
        /\ ~t.Verification_Ok /\ ~t.Verification_Done
        /\ Aligned(t, q \o rest, m, enc) /\ q \in Seq(Token) /\ q # <<>>
    BY <1>1, <1>3 DEF Aligned, HeaderRight, BodyRight
  <2> HIDE DEF t, q, u
  <2>7. HeaderRight(u, m, enc) /\ BodyRight(u, m)
    BY <2>5, <2>6 DEF Aligned, HeaderRight, BodyRight
  <2>8. /\ A3(t) = 1 /\ A3(u) = 0 /\ A2(t) = 0 /\ A2(u) = 0
        /\ A1(t) = 0 /\ A1(u) = 0 /\ BodyRead(u) = 0 /\ BodyRead(t) = 0
    BY <2>5, <2>6 DEF A1, A2, A3, B2N, BodyRead
  <2>9. DueLen(t, m) = 1 + DueLen(u, m) /\ DueLen(u, m) \in Int
    BY <2>8, <1>1 DEF DueLen
  <2>10. \A i \in Nat \ {0} : Due(t, m, enc, i + 1) = Due(u, m, enc, i)
    BY <2>8 DEF Due
  <2>11. /\ Tail(q) \in Seq(Token)
         /\ Aligned(u, Tail(q) \o rest, m, enc)
         /\ DueLen(u, m) - Len(Tail(q)) = DueLen(t, m) - Len(q)
    BY <2>6, <2>7, <2>9, <2>10, HeaderTokenRead
  <2>12. InStep(r, rest, m, enc)
    BY <2>3, <2>4, <2>11 DEF InStep, ReadState
  <2> QED BY <2>3, <2>5, <2>6, <2>11, <2>12 DEF Keeps, t, q
<1> QED BY <1>2, <1>3

\* The check of the header: it is accepted, and the body is allocated.
LEMMA CheckHeaderInStep ==
    ASSUME NEW s, NEW rest \in Seq(Token), NEW m \in Messages,
           NEW enc \in BOOLEAN, InStep(s, rest, m, enc),
           s.t.Verification_Done \/ s.buf = <<>>,
           NEW r, r = CheckHeader(s)
    PROVE  /\ HeaderPending(s.t) => HeaderAgrees(s.t)
           /\ InStep(r, rest, m, enc) /\ Keeps(s, r, m)
           /\ r.t.Verification_Ok \/ r.buf = <<>>
           /\ r.t.Verification_Done => r.t.Verification_Ok
<1>1. /\ s \in ReadState /\ s.t \in ThreadTask /\ s.buf \in Seq(Token)
      /\ Aligned(s.t, s.buf \o rest, m, enc)
      /\ Size[m] \in Nat /\ Size[m] \in UInt /\ EmptyMessage \in Messages
      /\ s = [t |-> s.t, buf |-> s.buf]
  BY SizeBound, MessagesAssumption DEF InStep, ReadState
<1>2. CASE ~HeaderPending(s.t)
  <2>1. r = s
    BY <1>2 DEF CheckHeader
  <2> QED BY <1>1, <1>2, <2>1, NothingRead DEF Keeps, InStep, HeaderPending
<1>3. CASE HeaderPending(s.t)
  <2> DEFINE t == s.t
             q == s.buf
             u == ReadyReceive(t)
  <2>1. r.t = u /\ r.buf = q /\ r = [t |-> u, buf |-> q]
    BY <1>1, <1>3 DEF CheckHeader
  <2>2. /\ t.DataLenth_All_Done /\ t.EncryptDone /\ t.Verification_Done
        /\ ~t.Verification_Ok /\ t.DataLenth_All = Size[m]
        /\ t.Encrypt = enc /\ t.Verification = Check(Size[m], enc)
        /\ Aligned(t, q \o rest, m, enc) /\ t \in ThreadTask
        /\ q \in Seq(Token)
    BY <1>1, <1>3 DEF Aligned, HeaderRight, HeaderPending
  <2>3. u \in ThreadTask
    <3>1. 0 \in UInt /\ <<>> \in Seq(Token) /\ t.DataLenth_All \in UInt
      BY <2>2, SizeAssumption DEF UInt, ThreadTask
    <3> QED BY <1>1, <2>2, <3>1 DEF ThreadTask, ReadyReceive
  <2>4. /\ u.DataLenth_All_Done /\ u.EncryptDone /\ u.Verification_Done
        /\ u.Verification_Ok /\ u.DataLenth_All = Size[m] /\ u.Encrypt = enc
        /\ u.Verification = Check(Size[m], enc)
        /\ u.DataBuff = <<>> /\ u.DataLenth_Remaining = Size[m]
        /\ u.DataLenth_Already = 0 /\ u.TaskMode = t.TaskMode
    BY <2>2 DEF ThreadTask, ReadyReceive
  <2> HIDE DEF t, q, u
  <2>5. HeaderRight(u, m, enc)
    BY <2>4 DEF HeaderRight
  <2>6. BodyRight(u, m)
    BY <2>4, <1>1 DEF BodyRight
  <2>7. A3(t) = A3(u) /\ A2(t) = A2(u) /\ A1(t) = A1(u) /\ BodyRead(u) = BodyRead(t)
    BY <2>2, <2>4 DEF A1, A2, A3, B2N, BodyRead
  <2>8. DueLen(t, m) = DueLen(u, m) /\ \A i : Due(t, m, enc, i) = Due(u, m, enc, i)
    BY <2>7 DEF DueLen, Due
  <2>9. InStep(r, rest, m, enc)
    BY <2>1, <2>2, <2>3, <2>5, <2>6, <2>8 DEF InStep, ReadState, Aligned
  <2>10. Keeps(s, r, m)
    BY <2>1, <2>2, <2>4, <2>8 DEF Keeps, t, q
  <2>11. HeaderAgrees(t)
    BY <2>2 DEF HeaderAgrees
  <2> QED BY <2>1, <2>4, <2>9, <2>10, <2>11 DEF t
<1> QED BY <1>2, <1>3

\* Reading as much of the body as has arrived.
LEMMA ReadBodyInStep ==
    ASSUME NEW s, NEW rest \in Seq(Token), NEW m \in Messages,
           NEW enc \in BOOLEAN, InStep(s, rest, m, enc),
           s.t.Verification_Ok \/ s.buf = <<>>,
           s.t.Verification_Done => s.t.Verification_Ok,
           NEW r, r = ReadBody(s)
    PROVE  /\ InStep(r, rest, m, enc) /\ Keeps(s, r, m)
           /\ r.buf = <<>>
           /\ r.t.Verification_Done => r.t.Verification_Ok
<1>1. /\ s \in ReadState /\ s.t \in ThreadTask /\ s.buf \in Seq(Token)
      /\ Aligned(s.t, s.buf \o rest, m, enc)
      /\ Size[m] \in Nat /\ Size[m] \in UInt /\ EmptyMessage \in Messages
      /\ s = [t |-> s.t, buf |-> s.buf]
      /\ Len(s.buf \o rest) = Len(s.buf) + Len(rest)
  BY SizeBound, MessagesAssumption, ConcatProperties DEF InStep, ReadState
<1>2. CASE ~s.t.Verification_Ok
  <2>1. r = s /\ s.buf = <<>>
    BY <1>2 DEF ReadBody
  <2> QED BY <1>1, <1>2, <2>1, NothingRead DEF Keeps, InStep
<1>3. CASE s.t.Verification_Ok
  <2> DEFINE t == s.t
             q == s.buf
  <2>1. /\ HeaderRight(t, m, enc) /\ BodyRight(t, m) /\ t \in ThreadTask
        /\ t.Verification_Done /\ t.DataLenth_All_Done /\ t.EncryptDone
        /\ t.DataBuff \in Seq(Token) /\ Len(t.DataBuff) = t.DataLenth_Already
        /\ t.DataLenth_Already + t.DataLenth_Remaining = Size[m]
        /\ \A i \in 1..t.DataLenth_Already : t.DataBuff[i] = BodyToken(m, i)
        /\ A3(t) = 0 /\ A2(t) = 0 /\ A1(t) = 0
        /\ t.DataLenth_Already \in Nat /\ t.DataLenth_Remaining \in Nat
    BY <1>1, <1>3 DEF Aligned, HeaderRight, BodyRight, A1, A2, A3, B2N, ThreadTask, UInt
  <2>2. DueLen(t, m) = t.DataLenth_Remaining
    BY <2>1, <1>1, <1>3 DEF DueLen, BodyRead
  <2>3. Len(q \o rest) <= t.DataLenth_Remaining /\ Len(q) <= t.DataLenth_Remaining
    <3>1. Len(q \o rest) <= DueLen(t, m)
      BY <1>1 DEF Aligned
    <3> QED BY <1>1, <2>1, <2>2, <3>1
  <2>4. \A i \in 1..Len(q \o rest) :
            (q \o rest)[i] = BodyToken(m, t.DataLenth_Already + i)
    BY <2>1, <1>1, <1>3 DEF Aligned, Due, BodyRead
  <2>5. CASE t.DataLenth_Remaining = 0
    <3>1. r = s /\ q = <<>>
      BY <2>3, <2>5, <1>1 DEF ReadBody
    <3> QED BY <1>1, <1>3, <3>1, NothingRead DEF Keeps, InStep
  <2>6. CASE t.DataLenth_Remaining # 0
    <3> DEFINE n == Len(q)
               u == [t EXCEPT !.DataBuff = t.DataBuff \o q,
                              !.DataLenth_Already = t.DataLenth_Already + n,
                              !.DataLenth_Remaining = t.DataLenth_Remaining - n]
    <3>1. r.t = u /\ r.buf = <<>> /\ r = [t |-> u, buf |-> <<>>]
      <4>1. SubSeq(q, 1, n) = q /\ SubSeq(q, n + 1, n) = <<>>
        BY <1>1, SubSeqFull, SubSeqEmpty
      <4>2. n = IF Len(s.buf) < s.t.DataLenth_Remaining
                THEN Len(s.buf) ELSE s.t.DataLenth_Remaining
        BY <2>1, <2>3, <1>1
      <4> QED BY <1>3, <2>6, <4>1, <4>2 DEF ReadBody
    <3>2. /\ t.DataBuff \o q \in Seq(Token)
          /\ Len(t.DataBuff \o q) = t.DataLenth_Already + n
          /\ \A i \in 1..(t.DataLenth_Already + n) : (t.DataBuff \o q)[i] =
               IF i <= t.DataLenth_Already THEN t.DataBuff[i]
               ELSE q[i - t.DataLenth_Already]
      <4>1. t.DataBuff \in Seq(Token) /\ q \in Seq(Token)
        BY <1>1, <2>1
      <4>2. Joined(t.DataBuff \o q, t.DataBuff, q, Token)
        BY <4>1, ConcatJoined
      <4> QED BY <1>1, <2>1, <4>2 DEF Joined
    <3>3. \A i \in 1..n : q[i] = BodyToken(m, t.DataLenth_Already + i)
      <4>1. \A i \in 1..n : (q \o rest)[i] = q[i] /\ i \in 1..Len(q \o rest)
        BY <1>1, ConcatProperties
      <4> QED BY <2>4, <4>1
    <3>4. \A i \in 1..(t.DataLenth_Already + n) :
            (t.DataBuff \o q)[i] = BodyToken(m, i)
      <4> SUFFICES ASSUME NEW i \in 1..(t.DataLenth_Already + n)
                   PROVE  (t.DataBuff \o q)[i] = BodyToken(m, i)
        OBVIOUS
      <4>1. CASE i <= t.DataLenth_Already
        <5>1. i \in 1..t.DataLenth_Already
          BY <4>1, <2>1
        <5> QED BY <2>1, <3>2, <4>1, <5>1
      <4>2. CASE ~(i <= t.DataLenth_Already)
        <5>1. /\ i - t.DataLenth_Already \in 1..n
              /\ t.DataLenth_Already + (i - t.DataLenth_Already) = i
          BY <4>2, <2>1, <1>1
        <5> QED BY <3>2, <3>3, <4>2, <5>1
      <4> QED BY <4>1, <4>2
    <3>5. /\ t.DataLenth_Already + n \in UInt
          /\ t.DataLenth_Remaining - n \in UInt
          /\ n \in Nat
      <4>1. /\ n \in Nat /\ n <= t.DataLenth_Remaining /\ UIntMod \in Nat
            /\ Size[m] < UIntMod
        BY <2>3, <1>1, SizeAssumption DEF UInt
      <4>2. /\ t.DataLenth_Already + n \in Nat
            /\ t.DataLenth_Already + n < UIntMod
            /\ t.DataLenth_Remaining - n \in Nat
            /\ t.DataLenth_Remaining - n < UIntMod
        BY <4>1, <2>1, <1>1, SMTT(40)
      <4> QED BY <4>1, <4>2 DEF UInt
    <3>6. u \in ThreadTask
      BY <2>1, <3>2, <3>5 DEF ThreadTask
    <3>7. /\ u.DataBuff = t.DataBuff \o q
          /\ u.DataLenth_Already = t.DataLenth_Already + n
          /\ u.DataLenth_Remaining = t.DataLenth_Remaining - n
          /\ u.DataLenth_All_Done = t.DataLenth_All_Done
          /\ u.DataLenth_All = t.DataLenth_All
          /\ u.EncryptDone = t.EncryptDone /\ u.Encrypt = t.Encrypt
          /\ u.Verification_Done = t.Verification_Done
          /\ u.Verification = t.Verification
          /\ u.Verification_Ok = t.Verification_Ok
          /\ u.TaskMode = t.TaskMode
      BY <2>1 DEF ThreadTask
    <3> HIDE DEF u, n
    <3>8. HeaderRight(u, m, enc)
      BY <2>1, <3>7 DEF HeaderRight
    <3>9. BodyRight(u, m)
      <4>1. t.DataLenth_Already + n + (t.DataLenth_Remaining - n) = Size[m]
        BY <1>1, <2>1, <3>5
      <4> QED BY <1>3, <2>1, <3>2, <3>4, <3>7, <4>1 DEF BodyRight
    <3>10. A3(u) = 0 /\ A2(u) = 0 /\ A1(u) = 0
      BY <2>1, <3>7 DEF A1, A2, A3, B2N
    <3>11. DueLen(u, m) = t.DataLenth_Remaining - n /\ Len(q) = n
      BY <1>1, <1>3, <2>1, <3>5, <3>7, <3>10 DEF DueLen, BodyRead, n
    <3>12. <<>> \o rest = rest /\ Len(rest) \in Nat
      OBVIOUS
    <3>13. \A i \in 1..Len(rest) : rest[i] = Due(u, m, enc, i)
      <4> SUFFICES ASSUME NEW i \in 1..Len(rest)
                   PROVE  rest[i] = Due(u, m, enc, i)
        OBVIOUS
      <4>1. /\ n + i \in 1..Len(q \o rest) /\ (q \o rest)[n + i] = rest[i]
        BY <1>1, <3>5, <3>11, ConcatProperties
      <4>2. rest[i] = BodyToken(m, t.DataLenth_Already + (n + i))
        BY <2>4, <4>1
      <4>3. Due(u, m, enc, i) = BodyToken(m, t.DataLenth_Already + n + i - 0)
        BY <1>3, <3>7, <3>10 DEF Due, BodyRead
      <4>4. t.DataLenth_Already + (n + i) = t.DataLenth_Already + n + i - 0
        BY <2>1, <3>5
      <4> QED BY <4>2, <4>3, <4>4
    <3>14. Len(rest) <= DueLen(u, m)
      BY <1>1, <2>1, <2>3, <3>5, <3>11
    <3>15. InStep(r, rest, m, enc)
      BY <3>1, <3>6, <3>8, <3>9, <3>12, <3>13, <3>14 DEF InStep, ReadState, Aligned
    <3>16. DueLen(u, m) - 0 = DueLen(t, m) - Len(q)
      BY <2>1, <2>2, <3>5, <3>11
    <3>17. Keeps(s, r, m)
      BY <2>1, <3>1, <3>7, <3>16 DEF Keeps
    <3> QED BY <1>3, <3>1, <3>7, <3>15, <3>17
  <2> QED BY <2>5, <2>6
<1> QED BY <1>2, <1>3

\* What each bufferevent_read keeps, the whole callback keeps.
LEMMA KeepsTransitive ==
    ASSUME NEW s1, NEW s2, NEW s3, NEW m, Keeps(s1, s2, m), Keeps(s2, s3, m),
           s1 \in ReadState, s2 \in ReadState, s3 \in ReadState
    PROVE  Keeps(s1, s3, m)
  BY DEF Keeps

\* What a receiver has still to read is a number.
LEMMA DueLenInt ==
    ASSUME NEW t \in ThreadTask, NEW m \in Messages
    PROVE  DueLen(t, m) \in Int
<1>1. /\ Size[m] \in Nat /\ t.DataLenth_Already \in Nat
  BY SizeBound DEF ThreadTask, UInt
<1>2. A3(t) \in Nat /\ BodyRead(t) \in Nat
  BY <1>1 DEF A3, A2, A1, B2N, BodyRead
<1> QED BY <1>1, <1>2 DEF DueLen

\* What On_Read_CallBack makes of a task and its input, and the header part of it.
HeaderRead(t, buf) == ReadHeader([t |-> t, buf |-> buf])
AllRead(t, buf) == ReadBody(CheckHeader(HeaderRead(t, buf)))

\* What the callback promises of a task t of the message m that reads the tokens i
\* of the stream i \o rest: the header is accepted, and the rest is still in step.
StaysInStep(t, i, rest, m, enc) ==
    LET h == HeaderRead(t, i)  b == AllRead(t, i) IN
    /\ HeaderPending(h.t) => HeaderAgrees(h.t)
    /\ b.t \in ThreadTask /\ b.buf = <<>>
    /\ Aligned(b.t, rest, m, enc)
    /\ b.t.Verification_Done => b.t.Verification_Ok
    /\ b.t.TaskMode = t.TaskMode
    /\ DueLen(b.t, m) - Len(rest) = DueLen(t, m) - Len(i \o rest)
    /\ t.DataLenth_All_Done => b.t.DataLenth_All_Done
    /\ t.EncryptDone => b.t.EncryptDone
    /\ b.t.EncryptDone /\ ~t.EncryptDone => b.t.DataLenth_All_Done

\* It keeps that promise to every task that was in step.
LEMMA ReadInStep ==
    ASSUME NEW t \in ThreadTask, NEW i \in Seq(Token), NEW rest \in Seq(Token),
           NEW m \in Messages, NEW enc \in BOOLEAN,
           Aligned(t, i \o rest, m, enc),
           t.Verification_Done => t.Verification_Ok
    PROVE  StaysInStep(t, i, rest, m, enc)
<1> DEFINE s0 == [t |-> t, buf |-> i]
           s1 == ReadLength(s0)
           s2 == ReadEncrypt(s1)
           s3 == ReadVerification(s2)
           s4 == CheckHeader(s3)
           s5 == ReadBody(s4)
           q == i \o rest
<1>1. Len(q) = Len(i) + Len(rest) /\ Len(i) \in Nat /\ Len(rest) \in Nat
  <2>1. Joined(q, i, rest, Token)
    BY ConcatJoined
  <2> QED BY <2>1 DEF Joined
<1>2. InStep(s0, rest, m, enc)
  BY DEF InStep, ReadState
<1>3. s0.t = t /\ Len(s0.buf) = Len(i)
  OBVIOUS
<1>4. HeaderRead(t, i) = s3 /\ AllRead(t, i) = s5
  BY DEF ReadHeader, HeaderRead, AllRead
<1> HIDE DEF s0, s1, s2, s3, s4, s5, q
<1>5. /\ InStep(s1, rest, m, enc) /\ Keeps(s0, s1, m)
      /\ s1.t.DataLenth_All_Done \/ s1.buf = <<>>
  BY <1>2, ReadLengthInStep DEF s1
<1>6. /\ InStep(s2, rest, m, enc) /\ Keeps(s1, s2, m)
      /\ (s2.t.DataLenth_All_Done /\ s2.t.EncryptDone) \/ s2.buf = <<>>
  BY <1>5, ReadEncryptInStep DEF s2
<1>7. /\ InStep(s3, rest, m, enc) /\ Keeps(s2, s3, m)
      /\ s3.t.Verification_Done \/ s3.buf = <<>>
  BY <1>6, ReadVerificationInStep DEF s3
<1>8. /\ HeaderPending(s3.t) => HeaderAgrees(s3.t)
      /\ InStep(s4, rest, m, enc) /\ Keeps(s3, s4, m)
      /\ s4.t.Verification_Ok \/ s4.buf = <<>>
      /\ s4.t.Verification_Done => s4.t.Verification_Ok
  BY <1>7, CheckHeaderInStep DEF s4
<1>9. /\ InStep(s5, rest, m, enc) /\ Keeps(s4, s5, m) /\ s5.buf = <<>>
      /\ s5.t.Verification_Done => s5.t.Verification_Ok
  BY <1>8, ReadBodyInStep DEF s5
<1>10. Keeps(s0, s5, m)
  <2>1. /\ s0 \in ReadState /\ s1 \in ReadState /\ s2 \in ReadState
        /\ s3 \in ReadState /\ s4 \in ReadState /\ s5 \in ReadState
    BY <1>2, <1>5, <1>6, <1>7, <1>8, <1>9 DEF InStep
  <2>2. Keeps(s0, s2, m)
    BY <2>1, <1>5, <1>6, KeepsTransitive
  <2>3. Keeps(s0, s3, m)
    BY <2>1, <2>2, <1>7, KeepsTransitive
  <2>4. Keeps(s0, s4, m)
    BY <2>1, <2>3, <1>8, KeepsTransitive
  <2> QED BY <2>1, <2>4, <1>9, KeepsTransitive
<1>11. s5.t \in ThreadTask /\ Aligned(s5.t, rest, m, enc)
  <2>1. <<>> \o rest = rest
    BY ConcatEmptySeq
  <2> QED BY <1>9, <2>1 DEF InStep, ReadState
<1>12. DueLen(s5.t, m) - Len(rest) = DueLen(t, m) - Len(q)
  <2>1. DueLen(s5.t, m) - 0 = DueLen(t, m) - Len(i)
    BY <1>3, <1>9, <1>10 DEF Keeps
  <2>2. DueLen(s5.t, m) \in Int /\ DueLen(t, m) \in Int
    BY <1>11, DueLenInt
  <2> QED BY <1>1, <2>1, <2>2
<1> QED BY <1>1, <1>3, <1>4, <1>8, <1>9, <1>10, <1>11, <1>12
        DEF Keeps, StaysInStep, q

\* A receiver at a frame boundary is in step with any message to come.
LEMMA IdleInStep ==
    ASSUME NEW t \in ThreadTask, NEW m \in Messages, NEW n \in Messages,
           NEW enc \in BOOLEAN,
           Aligned(t, <<>>, m, enc), ~t.DataLenth_All_Done
    PROVE  Aligned(t, <<>>, n, enc)
<1>1. ~t.Verification_Done /\ ~t.Verification_Ok
  BY DEF Aligned, HeaderRight, BodyRight
<1>2. HeaderRight(t, n, enc) /\ BodyRight(t, n)
  BY <1>1 DEF Aligned, HeaderRight, BodyRight
<1>3. 0 <= DueLen(t, n)
  BY <1>1, SizeBound DEF DueLen, BodyRead, A3, A2, A1, B2N
<1> QED BY <1>2, <1>3 DEF Aligned

-----------------------------------------------------------------------------
(* Writing. *)

\* SerializeToArray: the bytes of a message, in order.
LEMMA BodyProperties ==
    ASSUME NEW m \in Messages
    PROVE  /\ Body(m) \in Seq(Token) /\ Len(Body(m)) = Size[m]
           /\ \A i \in 1..Size[m] : Body(m)[i] = BodyToken(m, i)
<1>1. Size[m] \in Nat
  BY SizeBound
<1>2. \A i \in 1..Size[m] : BodyToken(m, i) \in Token
  BY <1>1 DEF Token, BodyToken
<1> QED BY <1>1, <1>2 DEF Body

\* The frame of t, token by token.
LEMMA FrameProperties ==
    ASSUME NEW t \in ThreadTask, ~t.Verification_Done,
           NEW m \in Messages, m = t.m_ConnectProtocol,
           NEW f, f = Frame(ReadySend(t))
    PROVE  LET h == 2 + B2N(~t.EncryptDone) IN
           /\ f \in Seq(Token) /\ Len(f) = h + Size[m]
           /\ Len(Header(ReadySend(t))) = h
           /\ \A i \in 1..Len(f) :
                f[i] = IF i <= 1 THEN LenToken(Size[m])
                       ELSE IF i <= h - 1 THEN EncToken(t.Encrypt)
                       ELSE IF i <= h THEN VerToken(Check(Size[m], t.Encrypt))
                       ELSE BodyToken(m, i - h)
<1> DEFINE r == ReadySend(t)
           l == LenToken(Size[m])
           c == EncToken(t.Encrypt)
           v == VerToken(Check(Size[m], t.Encrypt))
           z == Body(m)
           g == Header(r)
<1>1. /\ z \in Seq(Token) /\ Len(z) = Size[m] /\ Size[m] \in Nat
      /\ \A i \in 1..Size[m] : z[i] = BodyToken(m, i)
  BY BodyProperties, SizeBound
<1>2. l \in Token /\ c \in Token /\ v \in Token
  <2>1. Size[m] \in UInt /\ Check(Size[m], t.Encrypt) \in UInt /\ t.Encrypt \in BOOLEAN
    BY <1>1, SizeBound, CheckType DEF ThreadTask
  <2> QED BY <2>1 DEF LenToken, EncToken, VerToken, Token
<1>3. /\ r.DataLenth_All = Size[m] /\ r.EncryptDone = t.EncryptDone
      /\ r.Verification_Done = FALSE /\ r.Verification = Check(Size[m], t.Encrypt)
      /\ r.Encrypt = t.Encrypt /\ r.DataBuff = z
  BY DEF ReadySend, ThreadTask
<1>4. f = g \o z
  BY <1>3 DEF Frame
<1>5. g = (<<l>> \o (IF t.EncryptDone THEN <<>> ELSE <<c>>)) \o <<v>>
  <2> HIDE DEF r, z, l, c, v
  <2>1. /\ LenToken(r.DataLenth_All) = l /\ EncToken(r.Encrypt) = c
        /\ VerToken(r.Verification) = v
    BY <1>3 DEF l, c, v
  <2> QED BY <1>3, <2>1 DEF Header
<1> HIDE DEF r, l, c, v, z, g
<1>a. <<l>> \in Seq(Token) /\ <<c>> \in Seq(Token) /\ <<v>> \in Seq(Token)
  BY <1>2
<1>8. g \in Seq(Token) =>
        /\ f \in Seq(Token) /\ Len(f) = Len(g) + Len(z)
        /\ \A i \in 1..(Len(g) + Len(z)) :
              f[i] = IF i <= Len(g) THEN g[i] ELSE z[i - Len(g)]
  BY <1>1, <1>4, ConcatProperties
<1>6. CASE t.EncryptDone
  <2>1. g \in Seq(Token) /\ Len(g) = 2 /\ g[1] = l /\ g[2] = v
    <3>1. g = <<l>> \o <<v>>
      BY <1>a, <1>5, <1>6, ConcatEmptySeq
    <3> QED BY <1>a, <3>1
  <2>2. /\ f \in Seq(Token) /\ Len(f) = 2 + Size[m]
        /\ \A i \in 1..Len(f) : f[i] = IF i <= 2 THEN g[i] ELSE z[i - 2]
    BY <1>1, <1>8, <2>1
  <2>3. \A i \in 1..Len(f) :
          f[i] = IF i <= 1 THEN l ELSE IF i <= 2 THEN v ELSE BodyToken(m, i - 2)
    BY <1>1, <2>1, <2>2
  <2> QED BY <1>6, <2>1, <2>2, <2>3 DEF B2N, l, v, g, r
<1>7. CASE ~t.EncryptDone
  <2>1. g \in Seq(Token) /\ Len(g) = 3 /\ g[1] = l /\ g[2] = c /\ g[3] = v
    <3>1. /\ <<l>> \o <<c>> \in Seq(Token) /\ Len(<<l>> \o <<c>>) = 2
          /\ (<<l>> \o <<c>>)[1] = l /\ (<<l>> \o <<c>>)[2] = c
      BY <1>a
    <3>2. g = (<<l>> \o <<c>>) \o <<v>>
      BY <1>5, <1>7
    <3> QED BY <1>a, <3>1, <3>2
  <2>2. /\ f \in Seq(Token) /\ Len(f) = 3 + Size[m]
        /\ \A i \in 1..Len(f) : f[i] = IF i <= 3 THEN g[i] ELSE z[i - 3]
    BY <1>1, <1>8, <2>1
  <2>3. \A i \in 1..Len(f) :
          f[i] = IF i <= 1 THEN l ELSE IF i <= 2 THEN c
                 ELSE IF i <= 3 THEN v ELSE BodyToken(m, i - 3)
    <3> SUFFICES ASSUME NEW i \in 1..Len(f)
                 PROVE  f[i] = IF i <= 1 THEN l ELSE IF i <= 2 THEN c
                               ELSE IF i <= 3 THEN v ELSE BodyToken(m, i - 3)
      OBVIOUS
    <3>1. f[i] = IF i <= 3 THEN g[i] ELSE z[i - 3]
      BY <2>2
    <3>2. CASE i > 3
      <4>1. i - 3 \in 1..Size[m]
        BY <1>1, <2>2, <3>2
      <4>2. z[i - 3] = BodyToken(m, i - 3)
        BY <1>1, <4>1
      <4> QED BY <3>1, <3>2, <4>2
    <3>3. CASE ~(i > 3)
      <4>1. i \in {1, 2, 3}
        BY <2>2, <3>3
      <4>2. f[i] = g[i]
        BY <3>1, <4>1
      <4> QED BY <2>1, <4>1, <4>2
    <3> QED BY <3>2, <3>3
  <2> QED BY <1>7, <2>1, <2>2, <2>3 DEF B2N, l, c, v, g, r
<1> QED BY <1>6, <1>7

\* Len(net[e]) tokens of a frame for a receiver at a frame boundary.
LEMMA FrameInStep ==
    ASSUME NEW t \in ThreadTask, ~t.Verification_Done,
           NEW m \in Messages, m = t.m_ConnectProtocol,
           NEW f, f = Frame(ReadySend(t)), NEW n \in 0..Len(f),
           NEW p \in ThreadTask, ~p.DataLenth_All_Done,
           p.EncryptDone = t.EncryptDone,
           NEW x \in Messages, Aligned(p, <<>>, x, t.Encrypt)
    PROVE  /\ SubSeq(f, 1, n) \in Seq(Token) /\ Len(SubSeq(f, 1, n)) = n
           /\ Aligned(p, SubSeq(f, 1, n), m, t.Encrypt)
           /\ DueLen(p, m) = Len(f) /\ Len(f) \in Nat \ {0}
<1> DEFINE h == 2 + B2N(~t.EncryptDone)
           g == SubSeq(f, 1, n)
<1>1. /\ f \in Seq(Token) /\ Len(f) = h + Size[m] /\ Size[m] \in Nat /\ h \in {2, 3}
      /\ \A i \in 1..Len(f) :
           f[i] = IF i <= 1 THEN LenToken(Size[m])
                  ELSE IF i <= h - 1 THEN EncToken(t.Encrypt)
                  ELSE IF i <= h THEN VerToken(Check(Size[m], t.Encrypt))
                  ELSE BodyToken(m, i - h)
  BY FrameProperties, SizeBound DEF B2N
<1>2. ~p.Verification_Done /\ ~p.Verification_Ok
  BY DEF Aligned, HeaderRight, BodyRight
<1>3. A1(p) = 1 /\ A2(p) = h - 1 /\ A3(p) = h /\ BodyRead(p) = 0
  BY <1>2 DEF A1, A2, A3, B2N, BodyRead
<1> HIDE DEF h
<1>4. /\ g \in Seq(Token) /\ Len(g) = n /\ \A i \in 1..n : g[i] = f[i]
  BY <1>1
<1> HIDE DEF g
<1>5. DueLen(p, m) = Len(f)
  BY <1>1, <1>3 DEF DueLen
<1>6. \A i \in 1..Len(f) : f[i] = Due(p, m, t.Encrypt, i)
  <2> SUFFICES ASSUME NEW i \in 1..Len(f)
               PROVE  f[i] = Due(p, m, t.Encrypt, i)
    OBVIOUS
  <2>1. 0 + i - h = i - h
    BY <1>1
  <2> QED BY <1>1, <1>3, <2>1 DEF Due
<1>7. HeaderRight(p, m, t.Encrypt) /\ BodyRight(p, m)
  BY <1>2 DEF Aligned, HeaderRight, BodyRight
<1>8. \A i \in 1..Len(g) : g[i] = Due(p, m, t.Encrypt, i)
  <2>1. \A i \in 1..Len(g) : i \in 1..Len(f) /\ g[i] = f[i]
    BY <1>1, <1>4
  <2> QED BY <1>6, <2>1
<1>9. Aligned(p, g, m, t.Encrypt)
  BY <1>1, <1>4, <1>5, <1>7, <1>8 DEF Aligned
<1> QED BY <1>1, <1>4, <1>5, <1>9 DEF g

\* Setting the three flags of the header leaves a ThreadTask.
LEMMA HeaderFlagsType ==
    ASSUME NEW t \in ThreadTask, NEW x \in BOOLEAN, NEW y \in BOOLEAN,
           NEW z \in BOOLEAN
    PROVE  [t EXCEPT !.DataLenth_All_Done = x, !.EncryptDone = y,
                     !.Verification_Done = z] \in ThreadTask
  BY ZenonT(60) DEF ThreadTask

\* The task after the socket took n tokens of its frame.
LEMMA TransmittedTask ==
    ASSUME NEW t \in ThreadTask, ~t.Verification_Done,
           NEW m \in Messages, m = t.m_ConnectProtocol,
           NEW f, f = Frame(ReadySend(t)), NEW n \in 0..Len(f),
           NEW u, u = Transmitted(ReadySend(t), n)
    PROVE  /\ u \in ThreadTask /\ u.Verification_Ok
           /\ u.TaskMode = t.TaskMode /\ u.m_ConnectProtocol = m
           /\ u.Encrypt = t.Encrypt
           /\ u.EncryptDone <=> t.EncryptDone \/ n >= 2
           /\ u.DataLenth_All = Size[m]
           /\ u.DataBuff \in Seq(Token)
           /\ u.DataLenth_Remaining # 0 => n < Len(f)
<1> DEFINE r == ReadySend(t)
           h == Len(Header(r))
           k == IF n > h THEN n - h ELSE -1
           g == [r EXCEPT !.DataLenth_All_Done = n >= 1,
                          !.EncryptDone = @ \/ n >= 2,
                          !.Verification_Done = @ \/ n >= h]
           a == (r.DataLenth_Already + k) % UIntMod
           b == (r.DataLenth_Remaining - k) % UIntMod
<1>1. /\ f \in Seq(Token) /\ Len(f) = h + Size[m] /\ h \in {2, 3}
      /\ Size[m] \in Nat /\ Size[m] \in UInt
      /\ UIntMod \in Nat /\ UIntMod > 0 /\ 0 \in UInt
      /\ Check(Size[m], t.Encrypt) \in UInt /\ Body(m) \in Seq(Token)
  <2>1. t.Encrypt \in BOOLEAN
    BY DEF ThreadTask
  <2>2. Size[m] \in Nat
    BY SizeBound
  <2>3. /\ f \in Seq(Token) /\ Len(f) = 2 + B2N(~t.EncryptDone) + Size[m]
        /\ h = 2 + B2N(~t.EncryptDone)
    BY FrameProperties
  <2>4. h \in {2, 3}
    BY <2>3 DEF B2N
  <2>5. Size[m] \in UInt /\ Check(Size[m], t.Encrypt) \in UInt /\ Body(m) \in Seq(Token)
    BY <2>1, <2>2, SizeBound, CheckType, BodyProperties
  <2>6. UIntMod \in Nat /\ UIntMod > 0 /\ 0 \in UInt
    BY SizeAssumption DEF UInt
  <2> HIDE DEF h
  <2> QED BY <2>2, <2>3, <2>4, <2>5, <2>6
<1>2. r \in ThreadTask
  BY <1>1 DEF ReadySend, ThreadTask
<1>3. /\ r.DataLenth_Already = 0 /\ r.DataLenth_Remaining = Size[m]
      /\ r.TaskMode = t.TaskMode /\ r.m_ConnectProtocol = m
      /\ r.Encrypt = t.Encrypt /\ r.EncryptDone = t.EncryptDone
      /\ r.DataLenth_All = Size[m] /\ r.DataBuff = Body(m) /\ r.Verification_Ok
      /\ r.Verification_Done = FALSE
  BY DEF ReadySend, ThreadTask
<1>4. u = IF Size[m] = 0 THEN g
          ELSE [g EXCEPT !.DataLenth_Already = (@ + k) % UIntMod,
                         !.DataLenth_Remaining = (@ - k) % UIntMod]
  BY <1>3 DEF Transmitted
<1> HIDE DEF r, h
<1>5. g \in ThreadTask
  <2> DEFINE x == n >= 1
             y == r.EncryptDone \/ n >= 2
             z == r.Verification_Done \/ n >= h
  <2>1. x \in BOOLEAN /\ y \in BOOLEAN /\ z \in BOOLEAN
    OBVIOUS
  <2> HIDE DEF x, y, z
  <2>2. [r EXCEPT !.DataLenth_All_Done = x, !.EncryptDone = y,
                  !.Verification_Done = z] \in ThreadTask
    BY <1>2, <2>1, HeaderFlagsType
  <2> QED BY <2>2 DEF x, y, z
<1>6. /\ g.DataLenth_Already = 0 /\ g.DataLenth_Remaining = Size[m]
      /\ g.TaskMode = t.TaskMode /\ g.m_ConnectProtocol = m
      /\ g.Encrypt = t.Encrypt /\ g.DataLenth_All = Size[m]
      /\ g.DataBuff = Body(m) /\ g.Verification_Ok
  BY <1>2, <1>3 DEF ThreadTask
<1>7. g.EncryptDone <=> t.EncryptDone \/ n >= 2
  BY <1>2, <1>3 DEF ThreadTask
<1> HIDE DEF g
<1>8. CASE Size[m] = 0
  BY <1>1, <1>4, <1>5, <1>6, <1>7, <1>8
<1>9. CASE Size[m] # 0
  <2>1. k \in Int /\ (0 + k) % UIntMod \in UInt /\ (Size[m] - k) % UIntMod \in UInt
    <3>1. k \in Int
      BY <1>1
    <3> HIDE DEF k
    <3>2. 0 + k \in Int /\ Size[m] - k \in Int
      BY <1>1, <3>1
    <3>3. \A z \in Int : z % UIntMod \in UInt
      BY <1>1 DEF UInt
    <3> QED BY <3>1, <3>2, <3>3
  <2>2. n = Len(f) => (Size[m] - k) % UIntMod = 0
    <3> SUFFICES ASSUME n = Len(f) PROVE (Size[m] - k) % UIntMod = 0
      OBVIOUS
    <3>1. k = Size[m]
      BY <1>1, <1>9
    <3>2. Size[m] - k = 0
      BY <1>1, <3>1
    <3> QED BY <1>1, <3>2
  <2> HIDE DEF k
  <2> DEFINE v == [g EXCEPT !.DataLenth_Already = (0 + k) % UIntMod,
                            !.DataLenth_Remaining = (Size[m] - k) % UIntMod]
  <2>3. u = v
    BY <1>4, <1>6, <1>9, <1>5 DEF ThreadTask
  <2>4. v \in ThreadTask
    BY <1>5, <2>1, ZenonT(60) DEF ThreadTask
  <2>5. /\ v.DataLenth_Remaining = (Size[m] - k) % UIntMod
        /\ v.TaskMode = g.TaskMode /\ v.m_ConnectProtocol = g.m_ConnectProtocol
        /\ v.Encrypt = g.Encrypt /\ v.EncryptDone = g.EncryptDone
        /\ v.DataLenth_All = g.DataLenth_All /\ v.DataBuff = g.DataBuff
        /\ v.Verification_Ok = g.Verification_Ok
    BY <1>5 DEF ThreadTask
  <2>6. v.DataLenth_Remaining # 0 => n < Len(f)
    BY <1>1, <2>2, <2>5
  <2> HIDE DEF v
  <2> QED BY <1>1, <1>6, <1>7, <2>3, <2>4, <2>5, <2>6
<1> QED BY <1>8, <1>9
-----------------------------------------------------------------------------
(* The invariant. *)

\* A connection has two ends, each the peer of the other.
LEMMA EndsFacts ==
    /\ Client \in Ends /\ Server \in Ends /\ Client # Server
    /\ Peer(Client) = Server /\ Peer(Server) = Client
    /\ \A e \in Ends : /\ Peer(e) \in Ends /\ Peer(e) # e /\ Peer(Peer(e)) = e
                       /\ \A f \in Ends : f = e \/ f = Peer(e)
                       /\ e = Client \/ e = Server
  BY DEF Ends, Client, Server, Peer

\* A task between two frames.
LEMMA ResetInStep ==
    ASSUME NEW t \in ThreadTask, NEW m \in Messages, NEW enc \in BOOLEAN,
           FrameReset(t), t.DataBuff = NULL,
           t.EncryptDone => t.Encrypt = enc
    PROVE  Aligned(t, <<>>, m, enc)
<1>1. HeaderRight(t, m, enc) /\ BodyRight(t, m)
  BY DEF HeaderRight, BodyRight, FrameReset
<1>2. 0 <= DueLen(t, m)
  BY SizeBound DEF FrameReset, DueLen, BodyRead, A3, A2, A1, B2N
<1> QED BY <1>1, <1>2 DEF Aligned

\* The message on its way to an end is a message.
LEMMA MsgType == TypeOK => \A e \in Ends : Msg(e) \in Messages
  BY EndsFacts DEF TypeOK, Msg, ThreadTask

\* So it is after a step.
LEMMA MsgTypeNext == TypeOK' => \A e \in Ends : Msg(e)' \in Messages
  BY EndsFacts DEF TypeOK, Msg, ThreadTask

\* The client's flag is a Boolean.
LEMMA EncType == TypeOK => Enc \in BOOLEAN
  BY EndsFacts DEF TypeOK, Enc, ThreadTask

\* A connection starts with the invariant: the client is about to send, the
\* server waits for a new frame, and nothing is on its way.
THEOREM InitInv == Init => IInv
<1> SUFFICES ASSUME Init PROVE IInv
  OBVIOUS
<1>1. PICK enc \in [Ends -> BOOLEAN], m \in Messages :
        task = [e \in Ends |-> IF e = Client THEN NewTask(100, enc[e], m)
                               ELSE NewTask(300, enc[e], EmptyMessage)]
  BY DEF Init
<1>2. 0 \in UInt
  BY SizeAssumption DEF UInt
<1>3. \A mode \in {100, 300}, c \in BOOLEAN, x \in Messages :
        NewTask(mode, c, x) \in ThreadTask
  BY <1>2 DEF NewTask, ThreadTask
<1>4. /\ task \in [Ends -> ThreadTask]
      /\ task[Client] = NewTask(100, enc[Client], m)
      /\ task[Server] = NewTask(300, enc[Server], EmptyMessage)
  BY <1>1, <1>3, EndsFacts, MessagesAssumption
<1>5. /\ Sending(Client) /\ Receiving(Server)
      /\ ~Sending(Server) /\ ~Receiving(Client)
      /\ \A e \in Ends : /\ FrameReset(task[e]) /\ task[e].DataBuff = NULL
                         /\ ~task[e].EncryptDone
                         /\ net[e] = <<>> /\ inbuf[e] = <<>>
                         /\ ~ev[e].write
  BY <1>4, EndsFacts DEF Sending, Receiving, NewTask, FrameReset, Init
<1>6. TypeOK
  <2>1. <<>> \in Seq(Token)
    OBVIOUS
  <2> QED BY <1>4, <2>1, EndsFacts, MessagesAssumption DEF Init, TypeOK
<1>7. ReceiverInv
  <2>1. \A e \in Ends : Aligned(task[e], <<>>, Msg(e), Enc)
    BY <1>4, <1>5, <1>6, MsgType, EncType, ResetInStep
  <2> QED BY <1>5, <2>1 DEF ReceiverInv, FrameReset
<1>8. SenderInv
  BY <1>5, EndsFacts DEF SenderInv, FrameReset, Idle
<1>9. OneDirection
  BY <1>5, EndsFacts DEF OneDirection
<1>10. FlagInv
  <2>1. /\ ~task[Client].EncryptDone /\ ~task[Server].EncryptDone
        /\ ~task[Server].DataLenth_All_Done /\ net[Server] = <<>>
    BY <1>5, EndsFacts DEF FrameReset
  <2>2. Len(net[Server]) + B2N(task[Server].DataLenth_All_Done) <= 1
    BY <2>1 DEF B2N
  <2> QED BY <1>5, <2>1, <2>2 DEF FlagInv
<1>11. EventInv
  BY <1>5 DEF EventInv, FrameReset
<1> QED BY <1>6, <1>7, <1>8, <1>9, <1>10, <1>11 DEF IInv

\* A step that leaves the tasks and the stream alone.
LEMMA QuietStep ==
    ASSUME IInv, UNCHANGED <<task, net, inbuf, sent>>, TypeOK', EventInv'
    PROVE  IInv'
<1>1. ReceiverInv' /\ SenderInv' /\ OneDirection' /\ FlagInv'
  BY DEF IInv, ReceiverInv, SenderInv, OneDirection, FlagInv, Msg, Enc, Idle,
         Receiving, Sending
<1> QED BY <1>1 DEF IInv

\* Whose flag a sender at the start of a frame has, and whether both ends know it.
LEMMA StartOfFrame ==
    ASSUME IInv, NEW e \in Ends, Sending(e), ~task[e].Verification_Ok
    PROVE  /\ net[e] = <<>> /\ net[Peer(e)] = <<>> /\ Receiving(Peer(e))
           /\ FrameReset(task[e]) /\ task[e].DataBuff = NULL
           /\ ~task[Peer(e)].DataLenth_All_Done
           /\ task[Peer(e)].EncryptDone = task[e].EncryptDone
           /\ task[e].Encrypt = Enc
           /\ Aligned(task[Peer(e)], <<>>, task[e].m_ConnectProtocol, Enc)
           /\ task[Peer(e)].Verification_Done => task[Peer(e)].Verification_Ok
<1>1. /\ net[e] = <<>> /\ Receiving(Peer(e)) /\ net[Peer(e)] = <<>>
      /\ FrameReset(task[e]) /\ task[e].DataBuff = NULL
      /\ ~task[Peer(e)].DataLenth_All_Done
  BY DEF IInv, SenderInv, Idle
<1>2. /\ Aligned(task[Peer(e)], net[Peer(e)], Msg(Peer(e)), Enc)
      /\ task[Peer(e)].Verification_Done => task[Peer(e)].Verification_Ok
      /\ Msg(Peer(e)) = task[e].m_ConnectProtocol
  BY <1>1, EndsFacts DEF IInv, ReceiverInv, Msg, Sending
<1>3. task[e].EncryptDone \in BOOLEAN /\ task[Peer(e)].EncryptDone \in BOOLEAN
  BY EndsFacts DEF IInv, TypeOK, ThreadTask
<1>4. task[Peer(e)].EncryptDone = task[e].EncryptDone /\ task[e].Encrypt = Enc
  <2>1. CASE e = Client
    BY <1>3, <2>1, EndsFacts DEF IInv, FlagInv, Enc
  <2>2. CASE e = Server
    BY <1>3, <2>2, EndsFacts DEF IInv, FlagInv, Enc
  <2> QED BY <2>1, <2>2, EndsFacts
<1> QED BY <1>1, <1>2, <1>4

\* What the write callback does to a task that sends: v is the task and q the
\* stream to the other end after it.
WriteDone(e, m, v) ==
    /\ v.TaskMode = 300 /\ FrameReset(v) /\ v.DataBuff = NULL
    /\ sent' = [sent EXCEPT ![e] = [n |-> @.n + 1, msg |-> m]]
    /\ ret' \in {[ret EXCEPT ![e] = r] : r \in Returns}
    /\ ev' = [ev EXCEPT ![e] = [read |-> TRUE, write |-> FALSE]]

WriteStopped(e, m, v, q) ==
    /\ v.TaskMode = 100 /\ v.Verification_Ok /\ v.m_ConnectProtocol = m
    /\ Len(q) < DueLen(task[Peer(e)], m)
    /\ sock[e] = "open" /\ ~PeerLost(e) =>
         e = Server /\ v.DataLenth_All + 2 > SndBuf
    /\ ev' = [ev EXCEPT ![e].write = FALSE]
    /\ UNCHANGED <<ret, sent>>

WriteResult(e, v, q) ==
    /\ task' = [task EXCEPT ![e] = v] /\ net' = [net EXCEPT ![Peer(e)] = q]
    /\ UNCHANGED <<loop, sock, link, inbuf, got>>
    /\ v.Encrypt = Enc
    /\ task[e].EncryptDone => v.EncryptDone
    /\ ~v.EncryptDone => ~task[e].EncryptDone /\ Len(q) <= 1
    /\ Aligned(task[Peer(e)], q, task[e].m_ConnectProtocol, Enc)
    /\ \/ WriteDone(e, task[e].m_ConnectProtocol, v)
       \/ WriteStopped(e, task[e].m_ConnectProtocol, v, q)

\* A task whose frame has been reset.
LEMMA ResetFrameTask ==
    ASSUME NEW u \in ThreadTask, NEW w, w = ResetFrame(u)
    PROVE  /\ w \in ThreadTask /\ FrameReset(w) /\ w.DataBuff = NULL
           /\ w.TaskMode = u.TaskMode
           /\ w.Encrypt = u.Encrypt /\ w.EncryptDone = u.EncryptDone
<1>1. w \in ThreadTask
  <2>1. ASSUME NEW x \in ThreadTask PROVE [x EXCEPT !.DataBuff = NULL] \in ThreadTask
    BY ZenonT(40) DEF ThreadTask
  <2>2. ASSUME NEW b \in BOOLEAN
        PROVE  [u EXCEPT !.DataLenth_All_Done = b, !.Verification_Done = b,
                         !.Verification_Ok = b] \in ThreadTask
    BY ZenonT(60) DEF ThreadTask
  <2>3. w = [[u EXCEPT !.DataLenth_All_Done = FALSE, !.Verification_Done = FALSE,
                       !.Verification_Ok = FALSE] EXCEPT !.DataBuff = NULL]
    BY DEF ResetFrame
  <2> QED BY <2>1, <2>2, <2>3
<1>2. /\ w.DataBuff = NULL /\ w.TaskMode = u.TaskMode
      /\ w.Encrypt = u.Encrypt /\ w.EncryptDone = u.EncryptDone
      /\ w.DataLenth_All_Done = FALSE /\ w.Verification_Done = FALSE
      /\ w.Verification_Ok = FALSE
  BY DEF ResetFrame, ThreadTask
<1> HIDE DEF FrameReset
<1>3. FrameReset(w)
  BY <1>2 DEF FrameReset
<1> QED BY <1>1, <1>2, <1>3

\* A task given another message and mode, neither of which is part of its frame.
Retask(w, m, mode) == [w EXCEPT !.m_ConnectProtocol = m, !.TaskMode = mode]

\* It is a task with that message and mode, at the same place of its frame.
LEMMA RetaskedTask ==
    ASSUME NEW w \in ThreadTask, NEW m \in Messages, NEW mode \in {100, 300},
           NEW v, v = Retask(w, m, mode)
    PROVE  /\ v \in ThreadTask /\ v.TaskMode = mode /\ v.m_ConnectProtocol = m
           /\ v.Encrypt = w.Encrypt /\ v.EncryptDone = w.EncryptDone
           /\ v.DataBuff = w.DataBuff
           /\ FrameReset(w) => FrameReset(v)
<1>1. v \in ThreadTask
  BY ZenonT(60) DEF ThreadTask, Retask
<1>2. /\ v.TaskMode = mode /\ v.m_ConnectProtocol = m
      /\ v.Encrypt = w.Encrypt /\ v.EncryptDone = w.EncryptDone
      /\ v.DataBuff = w.DataBuff
      /\ v.DataLenth_All_Done = w.DataLenth_All_Done
      /\ v.Verification_Done = w.Verification_Done
      /\ v.Verification_Ok = w.Verification_Ok
  BY DEF ThreadTask, Retask
<1> QED BY <1>1, <1>2 DEF FrameReset

\* The task after a whole message was sent.
Sent(u) == [EndSend(u) EXCEPT !.TaskMode = 300]

\* It waits for a new frame.
LEMMA EndSendTask ==
    ASSUME NEW u \in ThreadTask, NEW v, v = Sent(u)
    PROVE  /\ v \in ThreadTask /\ v.TaskMode = 300
           /\ FrameReset(v) /\ v.DataBuff = NULL
           /\ v.Encrypt = u.Encrypt /\ v.EncryptDone = u.EncryptDone
<1> DEFINE w == ResetFrame(u)
<1>1. v = Retask(w, EmptyMessage, 300)
  BY DEF EndSend, Retask, Sent
<1>2. /\ w \in ThreadTask /\ FrameReset(w) /\ w.DataBuff = NULL
      /\ w.Encrypt = u.Encrypt /\ w.EncryptDone = u.EncryptDone
  BY ResetFrameTask
<1> HIDE DEF w
<1>3. 300 \in {100, 300} /\ EmptyMessage \in Messages
  BY MessagesAssumption
<1> QED BY <1>1, <1>2, <1>3, RetaskedTask

\* The task after a message was received and answered, or not.
Replied(u, m, mode) == [EndReceive(u) EXCEPT !.TaskMode = mode,
                                             !.m_ConnectProtocol = m]

\* It is at the start of a new frame, in the mode it was given.
LEMMA EndReceiveTask ==
    ASSUME NEW u \in ThreadTask, NEW m \in Messages, NEW mode \in {100, 300},
           NEW v, v = Replied(u, m, mode)
    PROVE  /\ v \in ThreadTask /\ v.TaskMode = mode
           /\ FrameReset(v) /\ v.DataBuff = NULL
           /\ v.Encrypt = u.Encrypt /\ v.EncryptDone = u.EncryptDone
<1> DEFINE w == ResetFrame(u)
<1>1. /\ w \in ThreadTask /\ FrameReset(w) /\ w.DataBuff = NULL
      /\ w.Encrypt = u.Encrypt /\ w.EncryptDone = u.EncryptDone
  BY ResetFrameTask
<1>2. EndReceive(u) = [w EXCEPT !.m_ConnectProtocol = Content(u.DataBuff)]
  BY DEF EndReceive
<1> HIDE DEF w
<1>3. v = Retask(w, m, mode)
  BY <1>1, <1>2 DEF ThreadTask, Retask, Replied
<1> QED BY <1>1, <1>3, RetaskedTask

\* On_Write_CallBack does one of the two: the whole body went out, or it stays
\* half way.
LEMMA WriteFacts ==
    ASSUME IInv, NEW e \in Ends, Sending(e), On_Write_CallBack(e)
    PROVE  \E v \in ThreadTask, q \in Seq(Token) : WriteResult(e, v, q)
<1> DEFINE t == task[e]
           m == t.m_ConnectProtocol
           p == Peer(e)
           f == Frame(ReadySend(t))
<1>1. /\ Dispatching(e) /\ ev[e].write /\ t.TaskMode = 100
      /\ t \in ThreadTask /\ m \in Messages /\ task[p] \in ThreadTask
      /\ Enc \in BOOLEAN
  BY EndsFacts, EncType DEF IInv, TypeOK, On_Write_CallBack, Sending, ThreadTask
<1>2. ~t.Verification_Ok
  BY <1>1 DEF IInv, EventInv, Live, Dispatching
<1>3. /\ net[e] = <<>> /\ net[p] = <<>> /\ Receiving(p)
      /\ FrameReset(t) /\ t.DataBuff = NULL
      /\ ~task[p].DataLenth_All_Done
      /\ task[p].EncryptDone = t.EncryptDone
      /\ t.Encrypt = Enc
      /\ Aligned(task[p], <<>>, m, Enc)
  BY <1>2, StartOfFrame
<1>4. PICK n \in Accepted(e, Len(f)) :
        /\ net' = IF link = "reset" THEN net
                  ELSE [net EXCEPT ![p] = @ \o SubSeq(f, 1, n)]
        /\ IF Transmitted(ReadySend(t), n).DataLenth_Remaining = 0
           THEN SendDone(e, Transmitted(ReadySend(t), n))
           ELSE SendStopped(e, Transmitted(ReadySend(t), n))
  BY <1>1 DEF On_Write_CallBack
<1>5. UNCHANGED <<loop, sock, link, inbuf, got>>
  BY DEF On_Write_CallBack
<1>6. f \in Seq(Token) /\ Len(f) \in Nat
  BY <1>1, <1>3, FrameProperties DEF FrameReset
<1>13. n < Len(f) /\ sock[e] = "open" /\ ~PeerLost(e) =>
         e = Server /\ Size[m] + 2 > SndBuf
  <2> SUFFICES ASSUME n < Len(f), sock[e] = "open", ~PeerLost(e)
               PROVE  e = Server /\ Size[m] + 2 > SndBuf
    OBVIOUS
  <2>1. e # Client
    BY <1>4, <1>6 DEF Accepted
  <2>2. e = Server /\ t.EncryptDone
    BY <2>1, EndsFacts DEF IInv, FlagInv
  <2>3. Len(f) = 2 + Size[m] /\ Size[m] \in Nat
    <3>1. ~t.Verification_Done
      BY <1>3 DEF FrameReset
    <3>2. Len(f) = 2 + B2N(~t.EncryptDone) + Size[m]
      BY <1>1, <3>1, FrameProperties
    <3>3. B2N(~t.EncryptDone) = 0
      BY <2>2 DEF B2N
    <3> QED BY <1>1, <3>2, <3>3, SizeBound
  <2> HIDE DEF f, p
  <2>4. Len(net[p]) = 0 /\ SndBuf \in Nat
    BY <1>3, BufferAssumption
  <2>5. n = IF Len(f) < SndBuf - 0 THEN Len(f) ELSE SndBuf - 0
    BY <1>4, <2>1, <2>4 DEF Accepted, p
  <2> QED BY <2>2, <2>3, <2>4, <2>5
<1> DEFINE u == Transmitted(ReadySend(t), n)
           q == net'[p]
           g == SubSeq(f, 1, n)
           v == IF u.DataLenth_Remaining = 0 THEN Sent(u) ELSE u
<1>7. n \in 0..Len(f)
  <2>1. SndBuf \in Nat /\ Len(net[p]) = 0
    BY <1>3, BufferAssumption
  <2> HIDE DEF f, p
  <2> QED BY <1>4, <1>6, <2>1 DEF Accepted, p
<1>8. /\ g \in Seq(Token) /\ Len(g) = n
      /\ Aligned(task[p], g, m, Enc)
      /\ DueLen(task[p], m) = Len(f) /\ Len(f) \in Nat \ {0}
  BY <1>1, <1>3, <1>7, FrameInStep DEF FrameReset
<1>9. /\ u \in ThreadTask /\ u.Verification_Ok
      /\ u.TaskMode = t.TaskMode /\ u.m_ConnectProtocol = m
      /\ u.Encrypt = t.Encrypt
      /\ u.EncryptDone <=> t.EncryptDone \/ n >= 2
      /\ u.DataLenth_All = Size[m]
      /\ u.DataLenth_Remaining # 0 => n < Len(f)
  BY <1>1, <1>3, <1>7, TransmittedTask DEF FrameReset
<1> HIDE DEF f, u, g, p
<1>10. /\ q \in Seq(Token) /\ Len(q) <= n /\ Aligned(task[p], q, m, Enc)
       /\ net' = [net EXCEPT ![p] = q]
  <2>1. p \in Ends /\ net \in [Ends -> Seq(Token)]
    BY EndsFacts DEF IInv, TypeOK, p
  <2>2. CASE link = "reset"
    <3>1. net' = net /\ q = <<>>
      BY <1>3, <1>4, <2>2
    <3>2. net' = [net EXCEPT ![p] = q]
      BY <2>1, <3>1
    <3>3. Len(q) = 0 /\ 0 <= n /\ q \in Seq(Token)
      BY <1>7, <3>1
    <3> QED BY <1>3, <3>1, <3>2, <3>3
  <2>3. CASE link # "reset"
    <3>1. net' = [net EXCEPT ![p] = @ \o g]
      BY <1>4, <2>3 DEF g
    <3>2. net[p] \o g = g
      BY <1>3, <1>8, ConcatEmptySeq
    <3>3. net' = [net EXCEPT ![p] = g] /\ q = g
      BY <2>1, <3>1, <3>2
    <3>4. n <= n
      BY <1>7
    <3> QED BY <1>8, <3>3, <3>4
  <2> QED BY <2>2, <2>3
<1> HIDE DEF q
<1>11. /\ v \in ThreadTask /\ v.Encrypt = Enc
       /\ v.EncryptDone <=> t.EncryptDone \/ n >= 2
       /\ task' = [task EXCEPT ![e] = v]
       /\ WriteDone(e, m, v) \/ WriteStopped(e, m, v, q)
  <2>1. CASE u.DataLenth_Remaining = 0
    <3>1. v = Sent(u)
      BY <2>1
    <3> HIDE DEF v
    <3>2. /\ v \in ThreadTask /\ v.TaskMode = 300
          /\ FrameReset(v) /\ v.DataBuff = NULL
          /\ v.Encrypt = u.Encrypt /\ v.EncryptDone = u.EncryptDone
      BY <1>9, <3>1, EndSendTask
    <3>3. SendDone(e, u)
      BY <1>4, <2>1 DEF u
    <3>4. WriteDone(e, m, v) /\ task' = [task EXCEPT ![e] = v]
      BY <1>9, <3>1, <3>2, <3>3 DEF SendDone, WriteDone, Sent
    <3> QED BY <1>3, <1>9, <3>2, <3>4
  <2>2. CASE u.DataLenth_Remaining # 0
    <3>1. v = u
      BY <2>2
    <3>2. SendStopped(e, u)
      BY <1>4, <2>2 DEF u
    <3>3. Len(q) < DueLen(task[p], m)
      BY <1>6, <1>7, <1>8, <1>9, <1>10, <2>2
    <3>4. WriteStopped(e, m, v, q) /\ task' = [task EXCEPT ![e] = v]
      BY <1>1, <1>9, <1>13, <2>2, <3>1, <3>2, <3>3
         DEF SendStopped, WriteStopped, p
    <3> QED BY <1>3, <1>9, <3>1, <3>4
  <2> QED BY <2>1, <2>2
<1>12. ~v.EncryptDone => ~t.EncryptDone /\ Len(q) <= 1
  BY <1>7, <1>10, <1>11
<1> QED BY <1>5, <1>10, <1>11, <1>12 DEF WriteResult, p
\* A step of one end leaves the client's flag alone.
LEMMA EncKept ==
    ASSUME TypeOK, NEW e \in Ends, NEW v, task' = [task EXCEPT ![e] = v],
           e = Client => v.Encrypt = Enc
    PROVE  Enc' = Enc
<1>1. task'[Client] = IF e = Client THEN v ELSE task[Client]
  BY EndsFacts DEF TypeOK
<1> QED BY <1>1 DEF Enc

\* The write callback keeps the invariant.
LEMMA WriteStep ==
    ASSUME IInv, NEW e \in Ends, On_Write_CallBack(e)
    PROVE  IInv'
<1>1. CASE ~Sending(e)
  <2>1. /\ UNCHANGED <<task, net, inbuf, sent, ret, loop, sock, link, got>>
        /\ ev' = [ev EXCEPT ![e].write = FALSE]
    BY <1>1 DEF On_Write_CallBack, Sending
  <2>2. TypeOK'
    BY <2>1 DEF IInv, TypeOK
  <2>3. EventInv'
    <3>1. \A f \in Ends : ev'[f].write => ev[f].write
      BY <2>1 DEF IInv, TypeOK
    <3> QED BY <2>1, <3>1 DEF IInv, EventInv, Sending, Live
  <2> QED BY <2>1, <2>2, <2>3, QuietStep
<1>2. CASE Sending(e)
  <2>1. PICK v \in ThreadTask, q \in Seq(Token) : WriteResult(e, v, q)
    BY <1>2, WriteFacts
  <2> DEFINE p == Peer(e)
             m == task[e].m_ConnectProtocol
  <2>2. /\ Dispatching(e) /\ ev[e].write /\ TypeOK /\ EventInv /\ FlagInv
        /\ p \in Ends /\ p # e /\ Peer(p) = e /\ \A f \in Ends : f = e \/ f = p
        /\ (e = Client /\ p = Server) \/ (e = Server /\ p = Client)
        /\ m \in Messages /\ task[e] \in ThreadTask /\ task[p] \in ThreadTask
        /\ Enc \in BOOLEAN
    BY <1>2, EndsFacts, EncType, ZenonT(60)
       DEF IInv, TypeOK, On_Write_CallBack, Sending, ThreadTask
  <2>3. ~task[e].Verification_Ok
    BY <1>2, <2>2 DEF EventInv, Live, Dispatching
  <2>4. /\ net[e] = <<>> /\ net[p] = <<>> /\ Receiving(p)
        /\ ~task[p].DataLenth_All_Done
        /\ task[p].EncryptDone = task[e].EncryptDone
        /\ task[e].Encrypt = Enc
        /\ task[p].Verification_Done => task[p].Verification_Ok
    BY <1>2, <2>3, StartOfFrame
  <2> HIDE DEF p
  <2>5. /\ task'[e] = v /\ task'[p] = task[p] /\ net'[e] = <<>> /\ net'[p] = q
        /\ inbuf' = inbuf /\ loop' = loop
    BY <2>1, <2>2, <2>4 DEF WriteResult, TypeOK, p
  <2>6. Enc' = Enc
    <3>1. task' = [task EXCEPT ![e] = v] /\ v.Encrypt = Enc
      BY <2>1 DEF WriteResult
    <3> QED BY <2>2, <3>1, EncKept
  <2>7. /\ v.Encrypt = Enc
        /\ task[e].EncryptDone => v.EncryptDone
        /\ ~v.EncryptDone => ~task[e].EncryptDone /\ Len(q) <= 1
        /\ Aligned(task[p], q, m, Enc)
        /\ WriteDone(e, m, v) \/ WriteStopped(e, m, v, q)
    BY <2>1 DEF WriteResult, p
  <2>8. TypeOK'
    <3>1. /\ task' \in [Ends -> ThreadTask] /\ net' \in [Ends -> Seq(Token)]
          /\ UNCHANGED <<loop, sock, link, inbuf, got>>
      BY <2>1, <2>2 DEF WriteResult, TypeOK
    <3>2. /\ ev' \in [Ends -> [read : BOOLEAN, write : BOOLEAN]]
          /\ ret' \in [Ends -> Returns \cup {0}]
          /\ sent' \in [Ends -> [n : Nat, msg : Messages]]
      <4>0. /\ ev \in [Ends -> [read : BOOLEAN, write : BOOLEAN]]
            /\ ret \in [Ends -> Returns \cup {0}]
            /\ sent \in [Ends -> [n : Nat, msg : Messages]]
        BY <2>2 DEF TypeOK
      <4>1. CASE WriteDone(e, m, v)
        <5>1. [read |-> TRUE, write |-> FALSE] \in [read : BOOLEAN, write : BOOLEAN]
          OBVIOUS
        <5>2. ev' \in [Ends -> [read : BOOLEAN, write : BOOLEAN]]
          BY <4>0, <4>1, <5>1 DEF WriteDone
        <5>3. [n |-> sent[e].n + 1, msg |-> m] \in [n : Nat, msg : Messages]
          BY <2>2, <4>0
        <5>4. sent' \in [Ends -> [n : Nat, msg : Messages]]
          BY <4>0, <4>1, <5>3 DEF WriteDone
        <5> QED BY <4>0, <4>1, <5>2, <5>4 DEF WriteDone
      <4>2. CASE WriteStopped(e, m, v, q)
        <5>1. ev' = [ev EXCEPT ![e].write = FALSE] /\ UNCHANGED <<ret, sent>>
          BY <4>2 DEF WriteStopped
        <5>2. ev' \in [Ends -> [read : BOOLEAN, write : BOOLEAN]]
          BY <4>0, <5>1
        <5> QED BY <4>0, <5>1, <5>2
      <4> QED BY <2>7, <4>1, <4>2
    <3> QED BY <2>2, <3>1, <3>2 DEF TypeOK
  <2>9. Msg(p)' = m
    <3>1. CASE WriteDone(e, m, v)
      <4>1. sent'[e].msg = m /\ v.TaskMode # 100
        BY <2>2, <3>1 DEF WriteDone, TypeOK
      <4> QED BY <2>2, <2>5, <4>1 DEF Msg
    <3>2. CASE WriteStopped(e, m, v, q)
      BY <2>2, <2>5, <3>2 DEF Msg, WriteStopped
    <3> QED BY <2>7, <3>1, <3>2
  <2>10. ReceiverInv'
    <3>1. /\ Aligned(task'[p], net'[p], Msg(p)', Enc')
          /\ task'[p].Verification_Done => task'[p].Verification_Ok
      BY <2>4, <2>5, <2>6, <2>7, <2>9
    <3>2. ASSUME Receiving(e)'
          PROVE  /\ Aligned(task'[e], net'[e], Msg(e)', Enc')
                 /\ task'[e].Verification_Done => task'[e].Verification_Ok
      <4>1. FrameReset(v) /\ v.DataBuff = NULL
        BY <2>5, <2>7, <3>2 DEF WriteDone, WriteStopped, Receiving
      <4>2. Msg(e)' \in Messages
        BY <2>8, MsgTypeNext
      <4>3. Aligned(v, <<>>, Msg(e)', Enc)
        BY <2>2, <2>7, <4>1, <4>2, ResetInStep
      <4> QED BY <2>5, <2>6, <4>1, <4>3 DEF FrameReset
    <3> QED BY <2>2, <3>1, <3>2 DEF ReceiverInv
  <2>11. Receiving(p)' /\ ~Sending(p)'
    BY <2>4, <2>5 DEF Receiving, Sending
  <2>12. SenderInv'
    <3> SUFFICES ASSUME Sending(e)'
                 PROVE  /\ net'[e] = <<>> /\ v.Verification_Ok
                        /\ Len(q) < DueLen(task[p], v.m_ConnectProtocol)
      BY <2>2, <2>5, <2>11 DEF SenderInv, p
    <3>1. WriteStopped(e, m, v, q)
      BY <2>5, <2>7 DEF Sending, WriteDone
    <3> QED BY <2>5, <3>1 DEF WriteStopped, p
  <2>13. Sending(e)' => v.Verification_Ok
    BY <2>5, <2>7 DEF Sending, WriteDone, WriteStopped
  <2>14. Receiving(e)' => Idle(e)' /\ ~v.Verification_Ok
    BY <2>5, <2>7 DEF Receiving, Idle, WriteDone, WriteStopped, FrameReset
  <2>15. OneDirection'
    BY <2>2, <2>14 DEF OneDirection
  <2>16. FlagInv'
    <3>1. CASE e = Client
      <4>1. p = Server /\ ~Sending(Server)'
        BY <2>2, <2>11, <3>1
      <4>2. ~v.EncryptDone =>
              /\ ~task[Server].EncryptDone
              /\ Len(q) + B2N(task[Server].DataLenth_All_Done) <= 1
        BY <2>4, <2>7, <4>1 DEF B2N
      <4>3. task[Server].EncryptDone => task[Server].Encrypt = Enc
        BY <2>2 DEF FlagInv
      <4> QED BY <2>5, <2>6, <2>13, <2>14, <3>1, <4>1, <4>2, <4>3 DEF FlagInv
    <3>2. CASE e = Server
      <4>1. p = Client /\ ~Sending(Client)'
        BY <2>2, <2>11, <3>2
      <4>2. task[Client].EncryptDone /\ task[Server].EncryptDone
        BY <1>2, <2>2, <3>2 DEF FlagInv
      <4> QED BY <2>5, <2>6, <2>7, <3>2, <4>1, <4>2 DEF FlagInv
    <3> QED BY <2>2, <3>1, <3>2
  <2>17. EventInv'
    <3>1. \A f \in Ends : inbuf'[f] = <<>>
      BY <2>2, <2>5 DEF EventInv
    <3>2. \A f \in Ends : loop'[f] = "queued" => ~task'[f].Verification_Ok
      BY <2>2, <2>5 DEF EventInv, Dispatching
    <3>3. ~ev'[e].write
      BY <2>2, <2>7 DEF WriteDone, WriteStopped, TypeOK
    <3> QED BY <2>2, <2>11, <3>1, <3>2, <3>3 DEF EventInv
  <2> QED BY <2>8, <2>10, <2>12, <2>15, <2>16, <2>17 DEF IInv
<1> QED BY <1>1, <1>2
\* What a receiver e that finds part of its stream knows of the other end.
LEMMA MiddleOfFrame ==
    ASSUME IInv, NEW e \in Ends, net[e] # <<>>
    PROVE  /\ Receiving(e)
           /\ Aligned(task[e], net[e], Msg(e), Enc)
           /\ task[e].Verification_Done => task[e].Verification_Ok
           /\ Receiving(Peer(e)) => Idle(Peer(e))
           /\ Sending(Peer(e)) =>
                task[Peer(e)].Verification_Ok
                /\ Len(net[e]) < DueLen(task[e], Msg(e))
<1>1. Receiving(e)
  BY DEF IInv, TypeOK, SenderInv, Sending, Receiving, ThreadTask
<1>2. /\ Aligned(task[e], net[e], Msg(e), Enc)
      /\ task[e].Verification_Done => task[e].Verification_Ok
  BY <1>1 DEF IInv, ReceiverInv
<1>3. ~Idle(e)
  BY DEF Idle
<1>4. Receiving(Peer(e)) => Idle(Peer(e))
  BY <1>1, <1>3, EndsFacts DEF IInv, OneDirection
<1>5. ASSUME Sending(Peer(e))
      PROVE  /\ task[Peer(e)].Verification_Ok
             /\ Len(net[e]) < DueLen(task[e], Msg(e))
  <2>1. /\ task[Peer(e)].Verification_Ok
        /\ Len(net[e]) < DueLen(task[e], task[Peer(e)].m_ConnectProtocol)
    BY <1>3, <1>5, EndsFacts DEF IInv, SenderInv
  <2> QED BY <1>5, <2>1 DEF Msg, Sending
<1> QED BY <1>1, <1>2, <1>4, <1>5

\* The server cannot read the flag that the client has not sent.
LEMMA FlagNotRead ==
    ASSUME NEW t \in ThreadTask, NEW u \in ThreadTask, NEW m \in Messages,
           NEW enc, NEW q \in Seq(Token), NEW rest \in Seq(Token), q # <<>>,
           Aligned(t, q, m, enc), ~t.EncryptDone,
           Len(q) + B2N(t.DataLenth_All_Done) <= 1,
           Len(rest) < Len(q), Aligned(u, rest, m, enc),
           DueLen(u, m) - Len(rest) = DueLen(t, m) - Len(q),
           u.EncryptDone /\ ~t.EncryptDone => u.DataLenth_All_Done
    PROVE  ~u.EncryptDone /\ Len(rest) + B2N(u.DataLenth_All_Done) <= 1
<1>1. Len(q) = 1 /\ ~t.DataLenth_All_Done /\ Len(rest) = 0
  <2>1. Len(q) \in Nat \ {0} /\ Len(rest) \in Nat
    OBVIOUS
  <2>2. B2N(t.DataLenth_All_Done) \in {0, 1}
    BY DEF B2N
  <2>3. B2N(t.DataLenth_All_Done) = 0
    BY <2>1, <2>2
  <2>4. Len(q) = 1
    <3>1. ASSUME NEW i \in Nat \ {0}, i + 0 <= 1 PROVE i = 1
      BY <3>1
    <3>2. Len(q) + 0 <= 1
      BY <2>3
    <3> QED BY <2>1, <3>1, <3>2
  <2>5. Len(rest) = 0
    BY <2>1, <2>4
  <2> QED BY <2>3, <2>4, <2>5 DEF B2N
<1>2. ~t.Verification_Done /\ ~t.Verification_Ok
  BY DEF Aligned, HeaderRight, BodyRight
<1>3. Size[m] \in Nat /\ u.DataLenth_Already \in Nat
  BY SizeBound DEF ThreadTask, UInt
<1>4. DueLen(t, m) = 3 + Size[m]
  BY <1>1, <1>2, <1>3 DEF DueLen, BodyRead, A3, A2, A1, B2N
<1>5. ASSUME u.EncryptDone PROVE FALSE
  <2>1. A3(u) \in {0, 1} /\ BodyRead(u) \in Nat
    BY <1>3, <1>5 DEF BodyRead, A3, A2, A1, B2N
  <2>2. DueLen(u, m) <= 1 + Size[m] /\ DueLen(u, m) \in Int
    BY <1>3, <2>1 DEF DueLen
  <2> QED BY <1>1, <1>3, <1>4, <2>2
<1>6. Len(rest) + B2N(u.DataLenth_All_Done) <= 1
  BY <1>1 DEF B2N
<1> QED BY <1>5, <1>6

\* A complete frame leaves nothing unread.
LEMMA CompleteFrame ==
    ASSUME NEW u \in ThreadTask, NEW m \in Messages, NEW enc,
           NEW rest \in Seq(Token), Aligned(u, rest, m, enc), Complete(u)
    PROVE  /\ u.EncryptDone /\ rest = <<>> /\ DueLen(u, m) = 0
<1>1. /\ u.Verification_Done /\ u.DataLenth_All_Done /\ u.EncryptDone
      /\ u.Verification_Ok /\ u.DataLenth_Already \in Nat
      /\ u.DataLenth_Already + 0 = Size[m] /\ Size[m] \in Nat
  BY SizeBound DEF Aligned, HeaderRight, BodyRight, Complete, ThreadTask, UInt
<1>2. A3(u) = 0 /\ BodyRead(u) = u.DataLenth_Already
  BY <1>1 DEF A3, A2, A1, B2N, BodyRead
<1>3. DueLen(u, m) = 0
  BY <1>1, <1>2 DEF DueLen
<1>4. Len(rest) = 0
  BY <1>3 DEF Aligned
<1> QED BY <1>1, <1>3, <1>4

\* A complete frame is the message that was serialised.
LEMMA WholeBody ==
    ASSUME NEW u \in ThreadTask, NEW m \in Messages, NEW enc, NEW rest,
           Aligned(u, rest, m, enc), Complete(u)
    PROVE  Content(u.DataBuff) = m
<1>1. /\ u.DataBuff \in Seq(Token) /\ Len(u.DataBuff) = Size[m]
      /\ \A i \in 1..Size[m] : u.DataBuff[i] = BodyToken(m, i)
  BY SizeBound DEF Aligned, BodyRight, Complete, ThreadTask, UInt
<1>2. CASE Size[m] = 0
  <2>1. m = EmptyMessage /\ u.DataBuff = <<>>
    BY <1>1, <1>2, SizeAssumption
  <2> QED BY <2>1 DEF Content
<1>3. CASE Size[m] # 0
  <2>1. u.DataBuff # <<>> /\ u.DataBuff[1] = BodyToken(m, 1)
    BY <1>1, <1>3, SizeBound
  <2> QED BY <2>1 DEF Content, BodyToken
<1> QED BY <1>2, <1>3

\* What the read callback does: v is the task and rest the stream after it.
\* The task keeps its frame, turns to its answer, or has ended the connection.
ReadKept(e, v, rest) ==
    /\ v.TaskMode = 300
    /\ Aligned(v, rest, Msg(e), Enc)
    /\ v.Verification_Done => v.Verification_Ok
    /\ DueLen(v, Msg(e)) - Len(rest) = DueLen(task[e], Msg(e)) - Len(net[e])
    /\ UNCHANGED <<ev, got>>

ReadTurned(e, v, rest) ==
    /\ FrameReset(v) /\ v.DataBuff = NULL
    /\ v.EncryptDone /\ rest = <<>> /\ Receiving(Peer(e))
    /\ got' = [got EXCEPT ![e] = [n |-> @.n + 1, msg |-> Msg(e)]]
    /\ \/ v.TaskMode = 100 /\ loop' = loop /\ ev' = [ev EXCEPT ![e].write = TRUE]
       \/ v.TaskMode = 300 /\ ev' = ev

ReadResult(e, v, rest) ==
    /\ task' = [task EXCEPT ![e] = v] /\ net' = [net EXCEPT ![e] = rest]
    /\ inbuf' = [inbuf EXCEPT ![e] = <<>>]
    /\ UNCHANGED <<link, sent>>
    /\ loop' = loop \/ loop' = [loop EXCEPT ![e] = "break"]
    /\ sock' = sock \/ sock' = [sock EXCEPT ![e] = "closed"]
    /\ got' \in [Ends -> [n : Nat, msg : Messages]]
    /\ ret' \in [Ends -> Returns \cup {0}]
    /\ v.EncryptDone => v.Encrypt = Enc
    /\ task[e].EncryptDone => v.EncryptDone
    /\ e = Server /\ ~task[Client].EncryptDone =>
         ~v.EncryptDone /\ Len(rest) + B2N(v.DataLenth_All_Done) <= 1
    /\ ReadKept(e, v, rest) \/ ReadTurned(e, v, rest)

\* On_Read_CallBack does one of these, and never rejects a header.
LEMMA ReadFacts ==
    ASSUME IInv, NEW e \in Ends, On_Read_CallBack(e)
    PROVE  \E v \in ThreadTask, rest \in Seq(Token) :
             ReadResult(e, v, rest) /\ net[e] # <<>>
<1> DEFINE t == task[e]
           q == net[e]
           m == Msg(e)
<1>1. PICK k \in 1..Len(q) :
        /\ net' = [net EXCEPT ![e] = SubSeq(q, k + 1, Len(q))]
        /\ Consume(e, inbuf[e] \o SubSeq(q, 1, k))
  BY DEF On_Read_CallBack, IInv, TypeOK
<1>2. /\ q \in Seq(Token) /\ k \in 0..Len(q) /\ q # <<>> /\ k > 0
      /\ t \in ThreadTask /\ m \in Messages /\ Enc \in BOOLEAN
      /\ inbuf[e] = <<>> /\ SubSeq(q, 1, k) \in Seq(Token)
  <2>1. q \in Seq(Token) /\ k \in 0..Len(q) /\ k > 0 /\ t \in ThreadTask
    BY DEF IInv, TypeOK
  <2>2. q # <<>> /\ SubSeq(q, 1, k) \in Seq(Token)
    BY <2>1, SplitConcat
  <2> QED BY <2>1, <2>2, MsgType, EncType DEF IInv, EventInv
<1>3. /\ Receiving(e)
      /\ Aligned(t, q, m, Enc)
      /\ t.Verification_Done => t.Verification_Ok
      /\ Receiving(Peer(e)) => Idle(Peer(e))
      /\ Sending(Peer(e)) =>
           task[Peer(e)].Verification_Ok /\ Len(q) < DueLen(t, m)
  BY <1>2, MiddleOfFrame
<1> DEFINE input == SubSeq(q, 1, k)
           h == HeaderRead(t, input)
           b == AllRead(t, input)
           rest == SubSeq(q, k + 1, Len(q))
<1>4. inbuf[e] \o input = input
  BY <1>2, ConcatEmptySeq
<1>5. /\ HeaderPending(h.t) => HeaderAgrees(h.t)
      /\ b.t \in ThreadTask /\ b.buf = <<>>
      /\ rest \in Seq(Token) /\ Len(rest) = Len(q) - k
      /\ Aligned(b.t, rest, m, Enc)
      /\ b.t.Verification_Done => b.t.Verification_Ok
      /\ b.t.TaskMode = t.TaskMode
      /\ DueLen(b.t, m) - Len(rest) = DueLen(t, m) - Len(q)
      /\ t.DataLenth_All_Done => b.t.DataLenth_All_Done
      /\ t.EncryptDone => b.t.EncryptDone
      /\ b.t.EncryptDone /\ ~t.EncryptDone => b.t.DataLenth_All_Done
  <2>1. /\ input \in Seq(Token) /\ input \o rest = q
        /\ rest \in Seq(Token) /\ Len(rest) = Len(q) - k
    BY <1>2, SplitConcat
  <2> HIDE DEF t, q, m, input, rest
  <2>2. StaysInStep(t, input, rest, m, Enc)
    BY <1>2, <1>3, <2>1, ReadInStep
  <2> QED BY <2>1, <2>2 DEF StaysInStep
<1> DEFINE done == Complete(b.t)
           u == b.t
<1>6. /\ inbuf' = [inbuf EXCEPT ![e] = <<>>]
      /\ \/ /\ ~done
            /\ task' = [task EXCEPT ![e] = u]
            /\ UNCHANGED <<ev, loop, sock, ret, got>>
         \/ /\ task' = [task EXCEPT ![e] = u]
            /\ CloseAndBreak(e)
            /\ UNCHANGED <<ev, ret, got>>
         \/ /\ done /\ Parses(u.DataBuff)
            /\ Business_CallBack(e, EndReceive(u))
  <2>1. Consume(e, input) /\ t.TaskMode = 300
    BY <1>1, <1>3, <1>4 DEF Receiving
  <2> HIDE DEF input
  <2> QED BY <1>5, <2>1 DEF Consume, HeaderRead, AllRead
<1>7. UNCHANGED <<link, sent>> /\ net' = [net EXCEPT ![e] = rest]
  BY <1>1 DEF On_Read_CallBack
<1> HIDE DEF h, b, rest, input, m, done
<1>8. /\ u.EncryptDone => u.Encrypt = Enc
      /\ t.EncryptDone => u.EncryptDone
      /\ e = Server /\ ~task[Client].EncryptDone =>
           ~u.EncryptDone /\ Len(rest) + B2N(u.DataLenth_All_Done) <= 1
  <2>1. u.EncryptDone => u.Encrypt = Enc
    BY <1>5 DEF Aligned, HeaderRight
  <2>2. ASSUME e = Server, ~task[Client].EncryptDone
        PROVE  ~u.EncryptDone /\ Len(rest) + B2N(u.DataLenth_All_Done) <= 1
    <3>1. ~t.EncryptDone /\ Len(q) + B2N(t.DataLenth_All_Done) <= 1
      BY <2>2 DEF IInv, FlagInv
    <3>2. Len(rest) < Len(q)
      BY <1>2, <1>5
    <3> HIDE DEF t, q, u
    <3> QED BY <1>2, <1>3, <1>5, <3>1, <3>2, FlagNotRead, ZenonT(60) DEF u
  <2> QED BY <1>5, <2>1, <2>2
<1>9. done => /\ u.EncryptDone /\ rest = <<>> /\ Receiving(Peer(e))
              /\ Content(u.DataBuff) = m
  <2> SUFFICES ASSUME done
               PROVE  /\ u.EncryptDone /\ rest = <<>> /\ Receiving(Peer(e))
                      /\ Content(u.DataBuff) = m
    OBVIOUS
  <2>1. u.EncryptDone /\ rest = <<>> /\ DueLen(u, m) = 0
    BY <1>2, <1>5, CompleteFrame DEF done
  <2>2. DueLen(t, m) = Len(q)
    <3>1. DueLen(t, m) \in Int
      BY <1>2, DueLenInt
    <3>2. 0 - 0 = DueLen(t, m) - Len(q) /\ Len(q) \in Int
      BY <1>2, <1>5, <2>1
    <3> QED BY <3>1, <3>2
  <2>3. ~Sending(Peer(e))
    BY <1>2, <1>3, <2>2
  <2>4. Content(u.DataBuff) = m
    BY <1>2, <1>5, WholeBody DEF done
  <2> QED BY <2>1, <2>3, <2>4, EndsFacts DEF IInv, TypeOK, Sending, Receiving, ThreadTask
<1>10. /\ got \in [Ends -> [n : Nat, msg : Messages]]
       /\ ret \in [Ends -> Returns \cup {0}]
       /\ u \in ThreadTask /\ u.TaskMode = 300
  BY <1>3, <1>5 DEF IInv, TypeOK, Receiving
<1> HIDE DEF u
<1>11. UNCHANGED <<ev, got>> => ReadKept(e, u, rest)
  BY <1>5, <1>10 DEF ReadKept, m, u
<1>12. CASE /\ task' = [task EXCEPT ![e] = u]
            /\ UNCHANGED <<ev, ret, got>>
            /\ UNCHANGED <<loop, sock>> \/ CloseAndBreak(e)
  <2>1. ReadResult(e, u, rest)
    BY <1>6, <1>7, <1>8, <1>10, <1>11, <1>12 DEF ReadResult, CloseAndBreak
  <2> QED BY <1>2, <1>5, <2>1 DEF u
<1>13. CASE done /\ Parses(u.DataBuff) /\ Business_CallBack(e, EndReceive(u))
  <2>1. PICK r \in Returns, reply \in Messages :
        /\ ret' = [ret EXCEPT ![e] = r]
        /\ got' = [got EXCEPT ![e] = [n |-> @.n + 1,
                                      msg |-> EndReceive(u).m_ConnectProtocol]]
        /\ \/ /\ task' = [task EXCEPT ![e] =
                             [EndReceive(u) EXCEPT !.TaskMode = 100,
                                                   !.m_ConnectProtocol = reply]]
              /\ ev' = [ev EXCEPT ![e].write = TRUE]
              /\ UNCHANGED <<loop, sock>>
           \/ /\ task' = [task EXCEPT ![e] = [EndReceive(u) EXCEPT
                                                 !.m_ConnectProtocol = reply]]
              /\ CloseAndBreak(e)
              /\ UNCHANGED ev
    BY <1>13 DEF Business_CallBack
  <2>2. EndReceive(u).m_ConnectProtocol = m /\ m \in Messages
    <3>1. ResetFrame(u) \in ThreadTask
      BY <1>10, ResetFrameTask
    <3> QED BY <1>2, <1>9, <1>13, <3>1 DEF EndReceive, ThreadTask
  <2>3. /\ got' \in [Ends -> [n : Nat, msg : Messages]]
        /\ ret' \in [Ends -> Returns \cup {0}]
    BY <1>10, <2>1, <2>2
  <2>4. PICK mode \in {100, 300} :
          /\ task' = [task EXCEPT ![e] = [EndReceive(u) EXCEPT !.TaskMode = mode,
                                                  !.m_ConnectProtocol = reply]]
          /\ \/ /\ mode = 100
                /\ ev' = [ev EXCEPT ![e].write = TRUE]
                /\ UNCHANGED <<loop, sock>>
             \/ mode = 300 /\ CloseAndBreak(e) /\ UNCHANGED ev
    <3> DEFINE w == EndReceive(u)
    <3>1. w.TaskMode = 300 /\ w = [w EXCEPT !.TaskMode = 300]
      <4>1. ResetFrame(u) \in ThreadTask /\ ResetFrame(u).TaskMode = 300
        BY <1>10, ResetFrameTask
      <4> QED BY <4>1, ZenonT(60) DEF EndReceive, ThreadTask
    <3> HIDE DEF w
    <3>2. [w EXCEPT !.TaskMode = 300, !.m_ConnectProtocol = reply]
            = [[w EXCEPT !.TaskMode = 300] EXCEPT !.m_ConnectProtocol = reply]
      OBVIOUS
    <3>3. [w EXCEPT !.m_ConnectProtocol = reply]
            = [w EXCEPT !.TaskMode = 300, !.m_ConnectProtocol = reply]
      BY <3>1, <3>2
    <3> QED BY <2>1, <3>3 DEF w
  <2> DEFINE v == Replied(u, reply, mode)
  <2>5. /\ v \in ThreadTask /\ v.TaskMode = mode
        /\ FrameReset(v) /\ v.DataBuff = NULL
        /\ v.Encrypt = u.Encrypt /\ v.EncryptDone = u.EncryptDone
    BY <1>10, EndReceiveTask, SMTT(40)
  <2>6. task' = [task EXCEPT ![e] = v]
    BY <2>4 DEF Replied
  <2> HIDE DEF v
  <2>7. ReadTurned(e, v, rest)
    BY <1>9, <1>13, <2>1, <2>2, <2>4, <2>5 DEF ReadTurned, m
  <2>8. /\ loop' = loop \/ loop' = [loop EXCEPT ![e] = "break"]
        /\ sock' = sock \/ sock' = [sock EXCEPT ![e] = "closed"]
    BY <2>4 DEF CloseAndBreak
  <2>9. /\ v.EncryptDone => v.Encrypt = Enc
        /\ t.EncryptDone => v.EncryptDone
        /\ e = Server /\ ~task[Client].EncryptDone =>
             ~v.EncryptDone /\ Len(rest) + B2N(v.DataLenth_All_Done) <= 1
    BY <1>8, <1>9, <1>13, <2>5
  <2>10. ReadResult(e, v, rest)
    BY <1>6, <1>7, <2>3, <2>6, <2>7, <2>8, <2>9 DEF ReadResult
  <2> QED BY <1>2, <1>5, <2>5, <2>10
<1> QED BY <1>6, <1>12, <1>13 DEF u
\* The read callback keeps the invariant.
LEMMA ReadStep ==
    ASSUME IInv, NEW e \in Ends, On_Read_CallBack(e)
    PROVE  IInv'
<1>1. PICK v \in ThreadTask, rest \in Seq(Token) :
        ReadResult(e, v, rest) /\ net[e] # <<>>
  BY ReadFacts
<1> DEFINE p == Peer(e)
           m == Msg(e)
<1>2. /\ Dispatching(e) /\ TypeOK /\ EventInv /\ FlagInv
      /\ p \in Ends /\ p # e /\ Peer(p) = e /\ \A f \in Ends : f = e \/ f = p
      /\ (e = Client /\ p = Server) \/ (e = Server /\ p = Client)
      /\ m \in Messages /\ task[e] \in ThreadTask /\ task[p] \in ThreadTask
      /\ Enc \in BOOLEAN
  BY EndsFacts, EncType, MsgType DEF IInv, TypeOK, On_Read_CallBack
<1>3. /\ Receiving(e) /\ net[e] # <<>> /\ ~Idle(e)
      /\ Receiving(p) => Idle(p)
      /\ Sending(p) =>
           task[p].Verification_Ok /\ Len(net[e]) < DueLen(task[e], m)
  BY <1>1, MiddleOfFrame DEF Idle
<1>4. Sending(p) => net[p] = <<>>
  BY <1>2 DEF IInv, SenderInv
<1> HIDE DEF p, m
<1>5. /\ task' = [task EXCEPT ![e] = v]
      /\ task'[e] = v /\ task'[p] = task[p] /\ net'[e] = rest /\ net'[p] = net[p]
      /\ \A f \in Ends : inbuf'[f] = <<>>
      /\ loop'[p] = loop[p] /\ (loop'[e] = loop[e] \/ loop'[e] = "break")
      /\ sent' = sent
  BY <1>1, <1>2 DEF ReadResult, TypeOK, EventInv
<1>6. /\ v.EncryptDone => v.Encrypt = Enc
      /\ task[e].EncryptDone => v.EncryptDone
      /\ e = Server /\ ~task[Client].EncryptDone =>
           ~v.EncryptDone /\ Len(rest) + B2N(v.DataLenth_All_Done) <= 1
      /\ ReadKept(e, v, rest) \/ ReadTurned(e, v, rest)
  BY <1>1 DEF ReadResult
<1>7. e = Client => task[Client].EncryptDone /\ task[Server].EncryptDone
  BY <1>2, <1>3 DEF FlagInv
<1>8. Enc' = Enc
  BY <1>2, <1>5, <1>6, <1>7, EncKept
<1>9. ev'[p] = ev[p]
  <2>1. ev' = ev \/ ev' = [ev EXCEPT ![e].write = TRUE]
    BY <1>6 DEF ReadKept, ReadTurned
  <2> QED BY <1>2, <2>1 DEF TypeOK
<1>10. TypeOK'
  <2>1. /\ task' \in [Ends -> ThreadTask] /\ net' \in [Ends -> Seq(Token)]
        /\ inbuf' \in [Ends -> Seq(Token)] /\ UNCHANGED <<link, sent>>
    BY <1>1, <1>2, EmptySeq DEF ReadResult, TypeOK
  <2>2. /\ loop' \in [Ends -> {"queued", "dispatch", "break", "deleted"}]
        /\ sock' \in [Ends -> {"open", "closed"}]
    BY <1>1, <1>2 DEF ReadResult, TypeOK
  <2>3. ev' \in [Ends -> [read : BOOLEAN, write : BOOLEAN]]
    <3>1. ev \in [Ends -> [read : BOOLEAN, write : BOOLEAN]]
      BY <1>2 DEF TypeOK
    <3>2. ev' = ev \/ ev' = [ev EXCEPT ![e].write = TRUE]
      BY <1>6 DEF ReadKept, ReadTurned
    <3> QED BY <3>1, <3>2
  <2>4. /\ got' \in [Ends -> [n : Nat, msg : Messages]]
        /\ ret' \in [Ends -> Returns \cup {0}]
    BY <1>1 DEF ReadResult
  <2> QED BY <1>2, <2>1, <2>2, <2>3, <2>4 DEF TypeOK
<1>11. /\ Receiving(p)' <=> Receiving(p)
       /\ Sending(p)' <=> Sending(p)
       /\ Idle(p)' <=> Idle(p)
  BY <1>5 DEF Receiving, Sending, Idle
<1>12. CASE ReadKept(e, v, rest)
  <2>1. /\ v.TaskMode = 300 /\ Aligned(v, rest, m, Enc)
        /\ v.Verification_Done => v.Verification_Ok
        /\ DueLen(v, m) - Len(rest) = DueLen(task[e], m) - Len(net[e])
        /\ ev' = ev
    BY <1>12 DEF ReadKept, m
  <2>2. Receiving(e)' /\ ~Sending(e)'
    BY <1>5, <2>1 DEF Receiving, Sending
  <2>3. Msg(e)' = m /\ Msg(p)' = Msg(p)
    BY <1>2, <1>3, <1>5, <2>1 DEF Msg, m, p, Receiving
  <2>4. ReceiverInv'
    <3>1. Receiving(p)' => /\ Aligned(task'[p], net'[p], Msg(p)', Enc')
                           /\ task'[p].Verification_Done => task'[p].Verification_Ok
      BY <1>2, <1>5, <1>8, <1>11, <2>3 DEF IInv, ReceiverInv
    <3>2. /\ Aligned(task'[e], net'[e], Msg(e)', Enc')
          /\ task'[e].Verification_Done => task'[e].Verification_Ok
      BY <1>5, <1>8, <2>1, <2>3
    <3> QED BY <1>2, <3>1, <3>2 DEF ReceiverInv
  <2>5. SenderInv'
    <3> SUFFICES ASSUME Sending(p)'
                 PROVE  /\ net'[p] = <<>> /\ task'[p].Verification_Ok
                        /\ Len(rest) < DueLen(v, task'[p].m_ConnectProtocol)
      BY <1>2, <1>5, <2>2 DEF SenderInv
    <3>1. /\ task[p].Verification_Ok /\ Len(net[e]) < DueLen(task[e], m)
          /\ net[p] = <<>>
      BY <1>3, <1>4, <1>11
    <3>2. m = task[p].m_ConnectProtocol
      BY <1>11 DEF m, Msg, p, Sending
    <3>3. Len(rest) < DueLen(v, m)
      <4>1. DueLen(v, m) \in Int /\ DueLen(task[e], m) \in Int
        BY <1>2, DueLenInt
      <4>2. net[e] \in Seq(Token)
        BY <1>2 DEF TypeOK
      <4> QED BY <2>1, <3>1, <4>1, <4>2
    <3> QED BY <1>5, <3>1, <3>2, <3>3
  <2>6. OneDirection'
    <3>1. Receiving(p)' => Idle(p)'
      BY <1>3, <1>11
    <3> QED BY <1>2, <3>1 DEF OneDirection
  <2>7. FlagInv'
    <3>1. CASE e = Client
      <4>1. p = Server /\ v.EncryptDone /\ task[Server].EncryptDone
        BY <1>2, <1>6, <1>7, <3>1
      <4>2. task[Server].Encrypt = Enc
        BY <1>2, <4>1 DEF FlagInv
      <4> QED BY <1>5, <1>8, <3>1, <4>1, <4>2 DEF FlagInv
    <3>2. CASE e = Server
      <4>1. p = Client
        BY <1>2, <3>2
      <4>2. ~task[Client].EncryptDone =>
              ~v.EncryptDone /\ Len(rest) + B2N(v.DataLenth_All_Done) <= 1
        BY <1>6, <3>2
      <4>3. Receiving(Client) => Idle(Client)
        BY <1>3, <4>1
      <4>4. Sending(Client) => task[Client].Verification_Ok
        BY <1>3, <4>1
      <4> QED BY <1>5, <1>6, <1>8, <1>11, <2>2, <3>2, <4>1, <4>2, <4>3, <4>4
              DEF FlagInv
    <3> QED BY <1>2, <3>1, <3>2
  <2>8. EventInv'
    <3>1. \A f \in Ends : loop'[f] = "queued" => ~task'[f].Verification_Ok
      BY <1>2, <1>5 DEF EventInv, Dispatching
    <3>2. Sending(p)' /\ ev'[p].write /\ Live(p)' => ~task'[p].Verification_Ok
      BY <1>2, <1>5, <1>9, <1>11 DEF EventInv, Live
    <3> QED BY <1>2, <1>5, <2>2, <3>1, <3>2 DEF EventInv
  <2> QED BY <1>10, <2>4, <2>5, <2>6, <2>7, <2>8 DEF IInv
<1>13. CASE ReadTurned(e, v, rest)
  <2>1. /\ FrameReset(v) /\ v.DataBuff = NULL /\ ~v.Verification_Ok
        /\ v.EncryptDone /\ rest = <<>> /\ Receiving(p) /\ Idle(p)
        /\ v.TaskMode = 100 \/ v.TaskMode = 300
    BY <1>3, <1>13 DEF ReadTurned, p, FrameReset
  <2>2. /\ Receiving(p)' /\ ~Sending(p)' /\ Idle(p)' /\ Idle(e)'
    BY <1>5, <1>11, <2>1 DEF Receiving, Sending, Idle, FrameReset
  <2>3. task[Client].EncryptDone /\ v.EncryptDone
    BY <1>2, <1>6, <1>7, <2>1
  <2>4. Msg(p)' \in Messages /\ Msg(e)' \in Messages /\ Msg(p) \in Messages
    <3>1. \A f \in Ends : Msg(f)' \in Messages
      BY <1>10, MsgTypeNext
    <3> QED BY <1>2, <3>1, MsgType
  <2>5. ReceiverInv'
    <3>1. /\ Aligned(task[p], <<>>, Msg(p), Enc) /\ ~task[p].DataLenth_All_Done
          /\ task[p].Verification_Done => task[p].Verification_Ok
      BY <1>2, <2>1 DEF IInv, ReceiverInv, Idle
    <3>2. Aligned(task[p], <<>>, Msg(p)', Enc)
      BY <1>2, <2>4, <3>1, IdleInStep
    <3>3. Aligned(v, <<>>, Msg(e)', Enc)
      BY <1>2, <1>6, <2>1, <2>4, ResetInStep
    <3>4. net'[p] = <<>>
      BY <2>2 DEF Idle
    <3>5. /\ Aligned(task'[p], net'[p], Msg(p)', Enc')
          /\ task'[p].Verification_Done => task'[p].Verification_Ok
      BY <1>5, <1>8, <3>1, <3>2, <3>4
    <3>6. /\ Aligned(task'[e], net'[e], Msg(e)', Enc')
          /\ task'[e].Verification_Done => task'[e].Verification_Ok
      BY <1>5, <1>8, <2>1, <3>3 DEF FrameReset
    <3> QED BY <1>2, <3>5, <3>6 DEF ReceiverInv
  <2>6. SenderInv'
    <3> SUFFICES ASSUME Sending(e)'
                 PROVE  net'[e] = <<>> /\ Receiving(p)' /\ ~v.Verification_Ok
                        /\ v.DataBuff = NULL /\ FrameReset(v) /\ Idle(p)'
      BY <1>2, <1>5, <2>2 DEF SenderInv, p
    <3> QED BY <1>5, <2>1, <2>2
  <2>7. OneDirection'
    BY <1>2, <2>2 DEF OneDirection
  <2>8. FlagInv'
    <3>1. CASE e = Client
      <4>1. p = Server /\ task[Server].EncryptDone
        BY <1>2, <1>7, <3>1
      <4>2. task[Server].Encrypt = Enc
        BY <1>2, <4>1 DEF FlagInv
      <4> QED BY <1>5, <1>8, <2>3, <3>1, <4>1, <4>2 DEF FlagInv
    <3>2. CASE e = Server
      <4>1. p = Client
        BY <1>2, <3>2
      <4> QED BY <1>5, <1>6, <1>8, <2>2, <2>3, <3>2, <4>1 DEF FlagInv
    <3> QED BY <1>2, <3>1, <3>2
  <2>9. EventInv'
    <3>1. \A f \in Ends : loop'[f] = "queued" => ~task'[f].Verification_Ok
      BY <1>2, <1>5, <2>1 DEF EventInv
    <3> QED BY <1>2, <1>5, <2>1, <2>2, <3>1 DEF EventInv
  <2> QED BY <1>10, <2>5, <2>6, <2>7, <2>8, <2>9 DEF IInv
<1> QED BY <1>6, <1>12, <1>13

\* So do the other steps, which leave the tasks and the stream alone.
LEMMA OtherSteps ==
    ASSUME IInv,
           \/ \E e \in Ends : \/ ServerThreadPoolWorking(e) \/ Hangup(e)
                              \/ ReadTimeout(e) \/ ReleaseTask(e)
           \/ LinkReset \/ Finished \/ UNCHANGED vars
    PROVE  IInv'
<1> USE DEF IInv
<1>1. ASSUME NEW e \in Ends, ServerThreadPoolWorking(e) PROVE IInv'
  <2>1. /\ loop[e] = "queued" /\ loop' = [loop EXCEPT ![e] = "dispatch"]
        /\ ev' = [ev EXCEPT ![e] = [read |-> task[e].TaskMode \div 100 = 3,
                                    write |-> task[e].TaskMode \div 100 = 1]]
        /\ UNCHANGED <<task, sock, link, net, inbuf, ret, sent, got>>
    BY <1>1 DEF ServerThreadPoolWorking
  <2>2. TypeOK'
    <3>1. \A x \in BOOLEAN, y \in BOOLEAN :
            [read |-> x, write |-> y] \in [read : BOOLEAN, write : BOOLEAN]
      OBVIOUS
    <3>2. (task[e].TaskMode \div 100 = 3) \in BOOLEAN
          /\ (task[e].TaskMode \div 100 = 1) \in BOOLEAN
      OBVIOUS
    <3>3. [read |-> task[e].TaskMode \div 100 = 3, write |-> task[e].TaskMode \div 100 = 1]
            \in [read : BOOLEAN, write : BOOLEAN]
      BY <3>1, <3>2, Zenon
    <3> QED BY <2>1, <3>3 DEF TypeOK
  <2>3. EventInv'
    BY <2>1 DEF EventInv, TypeOK, Live, Sending
  <2> QED BY <2>1, <2>2, <2>3, QuietStep
<1>2. ASSUME NEW e \in Ends, On_Error_CallBack(e) PROVE IInv'
  <2>1. /\ ev' = [ev EXCEPT ![e].read = FALSE]
        /\ sock' = [sock EXCEPT ![e] = "closed"]
        /\ UNCHANGED <<task, loop, link, net, inbuf, ret, sent, got>>
    BY <1>2 DEF On_Error_CallBack
  <2>2. TypeOK'
    BY <2>1 DEF TypeOK
  <2>3. EventInv'
    <3>1. \A f \in Ends : ev'[f].write => ev[f].write
      BY <2>1 DEF TypeOK
    <3> QED BY <2>1, <3>1 DEF EventInv, Sending, Live
  <2> QED BY <2>1, <2>2, <2>3, QuietStep
<1>3. ASSUME NEW e \in Ends, ReleaseTask(e) PROVE IInv'
  <2>1. /\ loop' = [loop EXCEPT ![e] = "deleted"]
        /\ sock' = [sock EXCEPT ![e] = "closed"]
        /\ ev' = [ev EXCEPT ![e] = [read |-> FALSE, write |-> FALSE]]
        /\ UNCHANGED <<task, link, net, inbuf, ret, sent, got>>
    BY <1>3 DEF ReleaseTask
  <2>2. TypeOK'
    <3>1. [read |-> FALSE, write |-> FALSE] \in [read : BOOLEAN, write : BOOLEAN]
      OBVIOUS
    <3> QED BY <2>1, <3>1 DEF TypeOK
  <2>3. EventInv'
    BY <2>1 DEF EventInv, TypeOK, Live, Sending
  <2> QED BY <2>1, <2>2, <2>3, QuietStep
<1>4. ASSUME LinkReset PROVE IInv'
  <2>1. link' = "reset" /\ UNCHANGED <<task, ev, loop, sock, net, inbuf, ret, sent, got>>
    BY <1>4 DEF LinkReset
  <2>2. TypeOK' /\ EventInv'
    BY <2>1 DEF TypeOK, EventInv, Live, Sending
  <2> QED BY <2>1, <2>2, QuietStep
<1>5. ASSUME UNCHANGED vars PROVE IInv'
  <2>1. TypeOK' /\ EventInv'
    BY <1>5 DEF vars, TypeOK, EventInv, Live, Sending
  <2> QED BY <1>5, <2>1, QuietStep DEF vars
<1> QED BY <1>1, <1>2, <1>3, <1>4, <1>5 DEF Hangup, ReadTimeout, Finished

\* The inductive invariant holds in every behaviour.
THEOREM Invariance == Spec => []IInv
<1>1. Init => IInv
  BY InitInv
<1>2. IInv /\ [Next]_vars => IInv'
  <2> SUFFICES ASSUME IInv, [Next]_vars PROVE IInv'
    OBVIOUS
  <2>1. ASSUME NEW e \in Ends, On_Read_CallBack(e) PROVE IInv'
    BY <2>1, ReadStep
  <2>2. ASSUME NEW e \in Ends, On_Write_CallBack(e) PROVE IInv'
    BY <2>2, WriteStep
  <2>3. CASE \/ \E e \in Ends : \/ ServerThreadPoolWorking(e) \/ Hangup(e)
                                \/ ReadTimeout(e) \/ ReleaseTask(e)
             \/ LinkReset \/ Finished \/ UNCHANGED vars
    BY <2>3, OtherSteps
  <2> QED BY <2>1, <2>2, <2>3 DEF Next
<1> QED BY <1>1, <1>2, PTL DEF Spec
-----------------------------------------------------------------------------
(* The properties of Connection, from the invariant. *)

\* Every variable has its type; the unsigned counters of a task never leave
\* their range, although a failed send() adds -1 to one and takes it from the
\* other (Bosnnc.cpp, On_Write_CallBack).
THEOREM TypeCorrect == Spec => []TypeOK
<1>1. IInv => TypeOK
  BY DEF IInv
<1> QED BY <1>1, Invariance, PTL

\* DataBuff is allocated exactly while a frame is in hand, and a receiver
\* never writes past the length that it was allocated with.
THEOREM BuffersConserved == Spec => []BufferConserved
<1>1. IInv => BufferConserved
  <2> SUFFICES ASSUME IInv, NEW e \in Ends
               PROVE  /\ ~task[e].Verification_Ok => task[e].DataBuff = NULL
                      /\ Receiving(e) /\ task[e].Verification_Ok =>
                           /\ Len(task[e].DataBuff) = task[e].DataLenth_Already
                           /\ task[e].DataLenth_Already + task[e].DataLenth_Remaining
                                = task[e].DataLenth_All
    BY DEF BufferConserved
  <2>1. Sending(e) \/ Receiving(e)
    BY DEF IInv, TypeOK, ThreadTask, Sending, Receiving
  <2>2. CASE Sending(e)
    BY <2>2 DEF IInv, SenderInv, Sending, Receiving
  <2>3. CASE Receiving(e)
    BY <2>3 DEF IInv, ReceiverInv, Aligned, BodyRight, HeaderRight
  <2> QED BY <2>1, <2>2, <2>3
<1> QED BY <1>1, Invariance, PTL

\* DataOperationReady never finds a buffer still allocated: no message is
\* prepared, and so none is started, a second time.
THEOREM NothingIsResent == Spec => []NothingResent
<1>1. IInv => NothingResent
  BY DEF IInv, EventInv, SenderInv, NothingResent
<1> QED BY <1>1, Invariance, PTL

\* No byte ever waits for a task that is sending, or in an input buffer
\* between two callbacks.
THEOREM TurnsTaken == Spec => []TurnTaking
<1>1. IInv => TurnTaking
  BY DEF IInv, EventInv, SenderInv, TurnTaking
<1> QED BY <1>1, Invariance, PTL

\* The field at the head of the stream is the one On_Read_CallBack reads next,
\* in whatever chunks of whole header fields and body bytes TCP delivers it.
THEOREM StreamInStep == Spec => []FieldsInStep
<1>1. IInv => FieldsInStep
  <2> SUFFICES ASSUME IInv, NEW e \in Ends, Receiving(e), net[e] # <<>>
               PROVE  Head(net[e]).field = Expected(task[e])
    BY DEF FieldsInStep
  <2> DEFINE t == task[e]
             q == net[e]
             m == Msg(e)
  <2>1. q \in Seq(Token) /\ Aligned(t, q, m, Enc) /\ q # <<>>
    BY DEF IInv, TypeOK, ReceiverInv
  <2> HIDE DEF t, q, m
  <2>2. Head(q) = q[1] /\ 1 \in 1..Len(q)
    BY <2>1
  <2>3. Head(q) = Due(t, m, Enc, 1)
    BY <2>1, <2>2 DEF Aligned
  <2>4. t.Verification_Done => t.DataLenth_All_Done /\ t.EncryptDone
    BY <2>1 DEF Aligned, HeaderRight
  <2>5. CASE ~t.DataLenth_All_Done
    BY <2>3, <2>5 DEF Due, A1, B2N, LenToken, Expected, t, q
  <2>6. CASE t.DataLenth_All_Done /\ ~t.EncryptDone
    BY <2>3, <2>6 DEF Due, A1, A2, B2N, EncToken, Expected, t, q
  <2>7. CASE t.DataLenth_All_Done /\ t.EncryptDone /\ ~t.Verification_Done
    BY <2>3, <2>7 DEF Due, A1, A2, A3, B2N, VerToken, Expected, t, q
  <2>8. CASE t.DataLenth_All_Done /\ t.EncryptDone /\ t.Verification_Done
    BY <2>3, <2>8 DEF Due, A1, A2, A3, B2N, BodyToken, Expected, t, q
  <2> QED BY <2>5, <2>6, <2>7, <2>8
<1> QED BY <1>1, Invariance, PTL

\* The server's flag becomes the client's, and DataOperationReady accepts every
\* header of a Bosncc peer whose fields arrive whole, in the first frame and in
\* every later one.  It says nothing of a header that TCP cuts inside a field.
THEOREM WholeHeadersAccepted == Spec => []HeadersAccepted
<1>1. IInv => HeadersAccepted
  <2> SUFFICES ASSUME IInv PROVE HeadersAccepted
    OBVIOUS
  <2>1. task[Server].EncryptDone => task[Server].Encrypt = task[Client].Encrypt
    BY DEF IInv, FlagInv, Enc
  <2>2. \A e \in Ends :
          Receiving(e) /\ task[e].Verification_Done => HeaderAgrees(task[e])
    BY DEF IInv, ReceiverInv, Aligned, HeaderRight, HeaderAgrees
  <2> QED BY <2>1, <2>2 DEF HeadersAccepted
<1> QED BY <1>1, Invariance, PTL

=============================================================================

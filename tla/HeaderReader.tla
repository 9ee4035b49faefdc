---------------------------- MODULE HeaderReader ----------------------------
(***************************************************************************)
(* The header of a frame, byte by byte: what On_Read_CallBack             *)
(* (Bosnnc.cpp) makes of it when TCP cuts the stream inside a field.       *)
(* Connection reads whole fields; here a bufferevent_read takes what there *)
(* is, and any positive count marks the field as read.                     *)
(*                                                                         *)
(* One end of a connection: it receives a message, answers it, receives    *)
(* the next.  Bodies are left out, the bytes of a header that are still    *)
(* unread when it is accepted are what the body would begin with.          *)
(***************************************************************************)
EXTENDS Integers, Sequences

CONSTANTS
    Base,     \* values of a byte (256)
    Width,    \* bytes of an unsigned int (4 in the build)
    Sizes,    \* lengths of messages
    MaxFrames \* bound: headers received on the connection

Power[i \in Nat] == IF i = 0 THEN 1 ELSE Base * Power[i - 1]

\* ByteSize() is an int.
ASSUME SizesAssumption ==
    /\ Base \in Nat \ {0, 1} /\ Width \in Nat \ {0} /\ MaxFrames \in Nat
    /\ \A n \in Sizes : n \in Nat /\ 2 * n < Power[Width]

VARIABLES
    task,    \* the header fields of the ThreadTask, in bytes
    stream,  \* bytes on their way
    frame,   \* the header on its way, or the last one: its length and flag
    frames,  \* headers sent to this end so far
    cut,     \* whether a field of this header was read in part
    verdict  \* what DataOperationReady says of it

vars == <<task, stream, frame, frames, cut, verdict>>

-----------------------------------------------------------------------------
(* Fields. *)

\* An unsigned int in memory and on the wire, the lowest byte first, and back.
Bytes(n) == [i \in 1..Width |-> (n \div Power[i - 1]) % Base]
Value[b \in Seq(Nat)] ==
    IF b = <<>> THEN 0 ELSE Head(b) + Base * Value[Tail(b)]

Flag(enc) == <<IF enc THEN 1 ELSE 0>>

\* The check value; a bool is true when its byte is not 0.
Check(len, enc) ==
    LET f == IF enc THEN 1 ELSE 2
    IN (len * f + f + 1024) % Power[Width]

\* The three send() calls of the header, the flag only in the first frame.
Header(h, first) ==
    Bytes(h.len) \o (IF first THEN Flag(h.enc) ELSE <<>>)
      \o Bytes(Check(h.len, h.enc))

\* bufferevent_read into the field f: the bytes there are, the rest of the
\* field stays what it was.  s is the task, its input and whether it was cut.
ReadField(s, f, done) ==
    LET n == Len(s.t[f])
        k == IF Len(s.buf) < n THEN Len(s.buf) ELSE n
    IN IF k = 0 THEN s
       ELSE [t |-> [s.t EXCEPT
                      ![f] = [i \in 1..n |-> IF i <= k THEN s.buf[i] ELSE @[i]],
                      ![done] = TRUE],
             buf |-> SubSeq(s.buf, k + 1, Len(s.buf)),
             cut |-> s.cut \/ k < n]

ReadLength(s) ==
    IF s.t.DataLenth_All_Done THEN s
    ELSE ReadField(s, "DataLenth_All", "DataLenth_All_Done")

ReadEncrypt(s) ==
    IF s.t.EncryptDone \/ ~s.t.DataLenth_All_Done THEN s
    ELSE ReadField(s, "Encrypt", "EncryptDone")

ReadVerification(s) ==
    IF s.t.Verification_Done \/ ~s.t.EncryptDone THEN s
    ELSE ReadField(s, "Verification", "Verification_Done")

\* Mutant: the check value is compared in its lowest byte.
HeaderAgrees_LowByte(t) ==
    t.Verification[1] = Bytes(Check(Value[t.DataLenth_All], t.Encrypt[1] # 0))[1]

\* The comparison in DataOperationReady.
HeaderAgrees(t) ==
    Value[t.Verification] = Check(Value[t.DataLenth_All], t.Encrypt[1] # 0)

Right(t) == Value[t.DataLenth_All] = frame.len /\ (t.Encrypt[1] # 0) = frame.enc

-----------------------------------------------------------------------------
(* Steps. *)

\* The first k bytes of the stream arrive: the header part of the callback.
On_Read_CallBack(k) ==
    /\ verdict = "reading"
    /\ LET s == ReadVerification(ReadEncrypt(ReadLength(
                  [t |-> task, buf |-> SubSeq(stream, 1, k), cut |-> cut])))
       IN /\ task' = s.t
          /\ cut' = s.cut
          /\ stream' = s.buf \o SubSeq(stream, k + 1, Len(stream))
          /\ verdict' = IF ~s.t.Verification_Done THEN "reading"
                        ELSE IF HeaderAgrees(s.t) THEN "accepted" ELSE "rejected"
    /\ UNCHANGED <<frame, frames>>

\* Mutant: the mark of the check value is not reset.
Answer_KeepsVerification(o, n) ==
    /\ verdict = "accepted" /\ Right(task) /\ stream = <<>>
    /\ frames < MaxFrames /\ frames' = frames + 1
    /\ frame' = [frame EXCEPT !.len = n]
    /\ task' = [task EXCEPT !.DataLenth_All = Bytes(o),
                            !.Verification = Bytes(Check(o, frame.enc)),
                            !.DataLenth_All_Done = FALSE]
    /\ stream' = Header(frame', FALSE)
    /\ cut' = FALSE
    /\ verdict' = "reading"

\* The message is received, an answer of o bytes goes out, and the header of
\* the next one, of n bytes, is on its way.  DataOperationEnd resets the marks
\* and not the fields, which hold the header of the answer by now.
Answer(o, n) ==
    /\ verdict = "accepted" /\ Right(task) /\ stream = <<>>
    /\ frames < MaxFrames /\ frames' = frames + 1
    /\ frame' = [frame EXCEPT !.len = n]
    /\ task' = [task EXCEPT !.DataLenth_All = Bytes(o),
                            !.Verification = Bytes(Check(o, frame.enc)),
                            !.DataLenth_All_Done = FALSE,
                            !.Verification_Done = FALSE]
    /\ stream' = Header(frame', FALSE)
    /\ cut' = FALSE
    /\ verdict' = "reading"

\* A task fresh from its constructor, and a client's first header.
Init ==
    /\ frame \in [len : Sizes, enc : BOOLEAN]
    /\ task = [DataLenth_All |-> Bytes(0), DataLenth_All_Done |-> FALSE,
               Encrypt |-> <<0>>, EncryptDone |-> FALSE,
               Verification |-> Bytes(0), Verification_Done |-> FALSE]
    /\ stream = Header(frame, TRUE)
    /\ frames = 1
    /\ cut = FALSE
    /\ verdict = "reading"

Next ==
    \/ \E k \in 1..Len(stream) : On_Read_CallBack(k)
    \/ \E o \in Sizes, n \in Sizes : Answer(o, n)

Spec == Init /\ [][Next]_vars

-----------------------------------------------------------------------------
(* Properties. *)

\* A header of which no field was cut is accepted as it was sent, in the first
\* frame and later, whatever the fields held before: field by field, as
\* Connection has it, the reader is right.
WholeFieldsSuffice ==
    ~cut => /\ verdict # "rejected"
            /\ verdict = "accepted" => Right(task) /\ stream = <<>>

\* However it is cut, the first header of a connection is not taken for one of
\* another length or flag: over fields that are still 0 the check value of
\* DataOperationReady sees to that.  This is so of small messages only, with
\* four bytes of those up to 16841983 bytes, with three up to 130303.
FirstHeaderHolds == frames = 1 /\ verdict = "accepted" => Right(task)

\* Bosnnc.cpp:329 labels the comparison the verification of the header.  For it
\* to be one, what passes it has to be the header that was sent.
VerifiedIsSent == verdict = "accepted" => Right(task)

=============================================================================

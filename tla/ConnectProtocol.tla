-------------------------- MODULE ConnectProtocol --------------------------
(***************************************************************************)
(* The message object of a connection: what protoc generated for           *)
(* ConnectProtocol.proto (ConnectProtocol.pb.cc), SetParameterGroup, and   *)
(* the points where DataOperationReady and DataOperationEnd serialise,     *)
(* parse and clear it (ThreadTask.cpp).  Connection has the callbacks and  *)
(* the stream, and takes a message for a size; here a frame arrives whole  *)
(* and what is in it matters.                                              *)
(***************************************************************************)
EXTENDS Integers, SequencesExt

CONSTANTS
    Client, Server,
    Strings,       \* contents of string and bytes fields
    Size,          \* Size[s]: the length of s in bytes
    Empty,         \* the empty string
    Gbk,           \* the strings that are not UTF-8
    Codes,         \* values of StateCode the applications use
    Groups,        \* the maps given to SetParameterGroup, each as the sequence
                   \* of its pairs in the order of its iterator
    Added,         \* the parameters the business functions add
    NoGroup,       \* no map
    MaxParameters  \* bound: parameters in a message being written

End == {Client, Server}
Peer(e) == IF e = Client THEN Server ELSE Client

ASSUME EndsAssumption == Client # Server
ASSUME StringsAssumption ==
    /\ Size \in [Strings -> Nat] /\ Gbk \subseteq Strings
    /\ \A s \in Strings : Size[s] = 0 <=> s = Empty
    /\ Empty \in Strings \ Gbk
\* A uint32.
ASSUME CodesAssumption == \A c \in Codes : c \in Nat /\ c \div 65536 < 65536
ASSUME GroupsAssumption ==
    /\ \A g \in Groups :
         /\ g \in Seq([key : Strings, value : Strings])
         /\ \A i, j \in DOMAIN g : g[i].key = g[j].key => i = j
    /\ Added \subseteq [key : Strings, value : Strings]
    /\ MaxParameters \in Nat
    /\ NoGroup \notin Groups

VARIABLES
    msg,    \* msg[e]: m_ConnectProtocol of the task at e
    mode,   \* mode[e]: what the task at e does with it
    frame,  \* the frame on its way: empty, or the one (length and body)
    sent,   \* history: the message last serialised, until it is edited
    group   \* history: the map last put into the current message

vars == <<msg, mode, frame, sent, group>>

-----------------------------------------------------------------------------
(* Sizes and varints. *)

Log2FloorNonZero[n \in Nat] ==
    IF n < 2 THEN 0 ELSE 1 + Log2FloorNonZero[n \div 2]

\* Mutant: the multiplication rounds down one time too often.
VarintSize32_RoundsDown(n) ==
    (Log2FloorNonZero[IF n = 0 THEN 1 ELSE n] * 9 + 64) \div 64

\* The size of a varint, log2 / 7 + 1, without a division by 7.
VarintSize32(n) ==
    (Log2FloorNonZero[IF n = 0 THEN 1 ELSE n] * 9 + 73) \div 64

LengthDelimitedSize(n) == n + VarintSize32(n)

\* A varint byte by byte, and back.
Varint[n \in Nat] ==
    IF n >= 128 THEN <<128 + (n % 128)>> \o Varint[n \div 128] ELSE <<n>>
Value[b \in Seq(Nat)] ==
    IF b = <<>> THEN 0 ELSE (Head(b) % 128) + 128 * Value[Tail(b)]

Total(s) == FoldLeft(LAMBDA m, n : m + n, 0, s)

TextSize(tagbytes, s) ==
    IF Size[s] > 0 THEN tagbytes + LengthDelimitedSize(Size[s]) ELSE 0

ParameterSize(p) == TextSize(1, p.key) + TextSize(1, p.value)

\* The size of a parameter is cached in an int.
ASSUME SizesAssumption ==
    \A s, t \in Strings : ParameterSize([key |-> s, value |-> t]) <= 2147483647

ByteSizeLong(m) ==
    Total([i \in DOMAIN m.parametergroup |->
             2 + LengthDelimitedSize(ParameterSize(m.parametergroup[i]))])
      + TextSize(1, m.apiname) + TextSize(2, m.bytedata)
      + (IF m.statecode # 0 THEN 1 + VarintSize32(m.statecode) ELSE 0)

-----------------------------------------------------------------------------
(* Serialising.  A field on the wire has a tag, a length unless it is a      *)
(* number, and a body of so many bytes.                                      *)

Bytes(wire) ==
    Total([i \in DOMAIN wire |->
             Len(wire[i].tag) + Len(wire[i].length) + wire[i].bytes])

Text(tag, s) ==
    IF Size[s] > 0
    THEN <<[tag |-> Varint[tag], length |-> Varint[Size[s]],
            bytes |-> Size[s], body |-> s]>>
    ELSE <<>>

\* The length of a Parameter is the size that ByteSizeLong has cached.
ParameterField(p) ==
    LET wire == Text(10, p.key) \o Text(18, p.value)
    IN [tag |-> Varint[162], length |-> Varint[ParameterSize(p)],
        bytes |-> Bytes(wire), body |-> wire]

SerializeToArray(m) ==
    (IF m.statecode # 0
     THEN <<[tag |-> Varint[8], length |-> <<>>,
             bytes |-> Len(Varint[m.statecode]), body |-> Varint[m.statecode]]>>
     ELSE <<>>)
      \o Text(18, m.apiname)
      \o [i \in 1..Len(m.parametergroup) |-> ParameterField(m.parametergroup[i])]
      \o Text(170, m.bytedata)

-----------------------------------------------------------------------------
(* Parsing: the loop over the tags, up to the first failure.  A string that  *)
(* is not UTF-8 is one; bytes are anything.                                  *)

EmptyParameter == [key |-> Empty, value |-> Empty]

\* Mutant: the repeated field is not cleared.
Clear_KeepsGroup(m) ==
    [m EXCEPT !.statecode = 0, !.apiname = Empty, !.bytedata = Empty]

Clear(m) == [statecode |-> 0, apiname |-> Empty,
             parametergroup |-> <<>>, bytedata |-> Empty]

\* The body has the length that was announced, or the rest is out of step.
Whole(f) == f.length = <<>> \/ Value[f.length] = f.bytes

\* Mutant: the strings inside a parameter are not verified.
ParameterMerged_Unverified(r, f) ==
    IF ~(r.ok /\ Whole(f)) THEN [r EXCEPT !.ok = FALSE]
    ELSE IF Value[f.tag] = 10 THEN [r EXCEPT !.parameter.key = f.body]
    ELSE [r EXCEPT !.parameter.value = f.body]

ParameterMerged(r, f) ==
    IF ~(r.ok /\ Whole(f) /\ f.body \notin Gbk) THEN [r EXCEPT !.ok = FALSE]
    ELSE IF Value[f.tag] = 10 THEN [r EXCEPT !.parameter.key = f.body]
    ELSE [r EXCEPT !.parameter.value = f.body]

ParameterParsed(wire) ==
    FoldLeft(ParameterMerged, [ok |-> TRUE, parameter |-> EmptyParameter], wire)

Merged(r, f) ==
    LET tag == Value[f.tag]
        p == ParameterParsed(f.body)
    IN IF ~(r.ok /\ Whole(f)) THEN [r EXCEPT !.ok = FALSE]
       ELSE CASE tag = 8 -> [r EXCEPT !.msg.statecode = Value[f.body]]
              [] tag = 18 -> [r EXCEPT !.ok = f.body \notin Gbk, !.msg.apiname = f.body]
              [] tag = 162 -> [r EXCEPT !.ok = p.ok,
                                        !.msg.parametergroup = Append(@, p.parameter)]
              [] tag = 170 -> [r EXCEPT !.msg.bytedata = f.body]

ParseFromArray(m, wire) ==
    FoldLeft(Merged, [ok |-> TRUE, msg |-> Clear(m)], wire)

-----------------------------------------------------------------------------
(* Steps. *)

Writing(e) == mode[e] \in {"received", "editing"}

\* Mutant: SetParameterGroup adds to the pairs that are there.
SetParameterGroup_Appends(g) ==
    /\ Writing(Client)
    /\ Len(msg[Client].parametergroup) + Len(g) < MaxParameters
    /\ msg' = [msg EXCEPT ![Client].parametergroup =
                 @ \o <<EmptyParameter>> \o g]
    /\ mode' = [mode EXCEPT ![Client] = "editing"]
    /\ group' = g
    /\ sent' = Clear(sent)
    /\ UNCHANGED frame

\* The application has the ThreadTask only at the client.  One Parameter is
\* added before the loop and stays empty.
SetParameterGroup(g) ==
    /\ Writing(Client)
    /\ msg' = [msg EXCEPT ![Client].parametergroup = <<EmptyParameter>> \o g]
    /\ mode' = [mode EXCEPT ![Client] = "editing"]
    /\ group' = g
    /\ sent' = Clear(sent)
    /\ UNCHANGED frame

\* The application or the business function uses the generated interface.
Edit(e) ==
    /\ Writing(e)
    /\ \/ /\ \/ \E c \in Codes : msg' = [msg EXCEPT ![e].statecode = c]
             \/ \E s \in Strings : msg' = [msg EXCEPT ![e].apiname = s]
             \/ \E s \in Strings : msg' = [msg EXCEPT ![e].bytedata = s]
             \/ /\ Len(msg[e].parametergroup) < MaxParameters
                /\ \E p \in Added : msg' = [msg EXCEPT ![e].parametergroup = Append(@, p)]
          /\ UNCHANGED group
       \/ /\ msg' = [msg EXCEPT ![e].parametergroup = <<>>]
          /\ group' = NoGroup
    /\ mode' = [mode EXCEPT ![e] = "editing"]
    /\ sent' = Clear(sent)
    /\ UNCHANGED frame

\* DataOperationReady in mode 100: the size goes into the header, the buffer of
\* that size is filled.
ReadySend(e) ==
    /\ Writing(e)
    /\ frame' = <<[to |-> Peer(e), length |-> ByteSizeLong(msg[e]),
                   body |-> SerializeToArray(msg[e])]>>
    /\ sent' = msg[e]
    /\ mode' = [mode EXCEPT ![e] = "sending"]
    /\ UNCHANGED <<msg, group>>

\* DataOperationEnd in mode 100; the frame has been taken by send().
EndSend(e) ==
    /\ mode[e] = "sending"
    /\ msg' = [msg EXCEPT ![e] = Clear(@)]
    /\ mode' = [mode EXCEPT ![e] = "waiting"]
    /\ UNCHANGED <<frame, sent, group>>

\* DataOperationReady and DataOperationEnd in mode 300.
Receive(e) ==
    /\ mode[e] = "waiting"
    /\ frame # <<>> /\ Head(frame).to = e
    /\ LET r == ParseFromArray(Clear(msg[e]), Head(frame).body)
       IN /\ msg' = [msg EXCEPT ![e] = r.msg]
          /\ mode' = [mode EXCEPT ![e] = IF r.ok THEN "received" ELSE "refused"]
    /\ frame' = <<>>
    /\ UNCHANGED <<sent, group>>

\* A client's task before AddTask; the server's task is at accept.
Init ==
    /\ msg = [e \in End |-> [statecode |-> 0, apiname |-> Empty,
                             parametergroup |-> <<>>, bytedata |-> Empty]]
    /\ mode = [e \in End |-> IF e = Client THEN "editing" ELSE "waiting"]
    /\ frame = <<>>
    /\ sent = msg[Client]
    /\ group = NoGroup

Next ==
    \/ \E g \in Groups : SetParameterGroup(g)
    \/ \E e \in End : Edit(e) \/ ReadySend(e) \/ EndSend(e) \/ Receive(e)

Spec == Init /\ [][Next]_vars

-----------------------------------------------------------------------------
(* Properties. *)

\* DataOperationReady allocates ByteSize() bytes, announces them and ignores
\* what SerializeToArray returns: the bytes written are as many, for every
\* field, whether it is left out, long enough for another byte of length, or
\* inside a parameter whose own size was computed before.
BufferFilled == frame # <<>> => Bytes(Head(frame).body) = Head(frame).length

\* What is handed to the business function is the message the other end
\* serialised, and nothing of the messages the object held before, which are
\* cleared at three points in the two directions.
ArrivesAsSent == \A e \in End : mode[e] = "received" => msg[e] = sent

\* A message is refused (and the connection closed) exactly when one of its
\* strings is not UTF-8, at whatever depth; ByteData may be anything.  The
\* serialiser does not mind, so nobody knows before the other end has it.
Texts(m) == {m.apiname} \cup UNION {{p.key, p.value} : p \in ToSet(m.parametergroup)}
RefusedForItsStrings ==
    \A e \in End :
      /\ mode[e] = "refused" => Texts(sent) \cap Gbk # {}
      /\ mode[e] = "received" => Texts(sent) \cap Gbk = {}

\* However often SetParameterGroup was called, and whichever end has the
\* message by now, it begins with one empty parameter and the pairs of the last
\* map, in its order.  Behind them is what was added one by one, and no pair of
\* an earlier map.
LastGroupOnly ==
    group # NoGroup =>
      LET all == <<EmptyParameter>> \o group
          n == Len(all)
      IN \A e \in End : Writing(e) =>
           /\ SubSeq(msg[e].parametergroup, 1, n) = all
           /\ \A i \in (n + 1)..Len(msg[e].parametergroup) :
                msg[e].parametergroup[i] \in Added

=============================================================================

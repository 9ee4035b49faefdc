# Bosncc in TLA+

Bosncc is a C++ component for Windows that exchanges protobuf messages over TCP
connections: libevent drives each connection, a Windows thread pool runs the
loops, and an application supplies one *business function*. This directory holds
TLA+ models of it, TLC configurations that check them on small instances, and
machine-checked proofs. Line numbers are those of `src/include/Bosnnc.cpp`
unless another file is named (the Chinese comments there are in GBK).

## 1. The system

| component | code | state | operations |
|---|---|---|---|
| Connection | `ServerThreadPoolWorking` 446-485, `On_Read_CallBack` 295-369, `On_Write_CallBack` 392-444, `On_Error_CallBack` 371-390, `ThreadTask.cpp` 3-81 | a `ThreadTask` at each end: its mode (100 sending, 300 receiving), the fields of the frame in hand and their `_Done` flags, the check value, the encryption flag, the body buffer and its position, the message object; a bufferevent; a socket | the four callbacks of the loop, `DataOperationReady`, `DataOperationEnd` |
| Server | `On_Accept_CallBack` 260-293, `Start` 172-186 | the listening socket, `Main_Base`, the tasks handed to the pool | accept, hand over, run the loop |
| Facade | `GetInstance` 8-14, `SetRunoModel` 16-29, `Init` 74-170 and 188-197, the setters 199-247 | the singleton, the run mode, port, business function, timeout, flag, `Started`, WinSock, pool | creation, mode, initialisation, settings |
| Client | `AddTask` 31-72 | a task's address and socket | resolve, connect, hand over |
| ParameterGroup | `ThreadTask.cpp` 167-180 | the repeated field of a message | `SetParameterGroup` |
| ConnectProtocol | `protoc/ConnectProtocol.pb.cc` | a message | generated: serialise, parse, clear |
| not Bosncc's own | `event2/`, `openssl/`, `google/protobuf/` | | third party |

How they meet. The application makes the singleton, sets the mode and calls
`Init`. A client application makes a `ThreadTask` with a message and gives it to
`AddTask`, which connects and submits it to the default thread pool. A server
runs `Start`; each accepted connection becomes a `ThreadTask` with a copy of the
singleton's settings, submitted to the same kind of pool. From there a
connection lives on one pool thread per end: `ServerThreadPoolWorking` creates a
bufferevent on the task's socket and runs the task's own loop until it returns,
then frees both. The two ends share nothing but the TCP stream. They take turns:
the client sends, the server's business function turns the message into a reply,
the server sends that, the client's business function turns it into the next
message, and so on. A frame is the length (4 bytes), the encryption flag (1 byte,
in the first frame of a connection only), a check value computed from both
(4 bytes), and the serialised message.

What is hard, and what each part has to get right:

* **Connection.** A stream without marks, cut anywhere by TCP; flags and counters
  that survive from callback to callback and from frame to frame; two ends in
  different callbacks that must agree on which field comes next and on whether
  the flag has been exchanged; a non-blocking `send()` at the server that may take
  part of a message, with no event to continue; `send()` results added to unsigned
  counters; an error callback that closes the socket and lets the loop go on.
  Right: every message handed over is the one sent, once, in turn; the buffer is
  never overrun or leaked; nothing waits for ever.
* **Server.** Tasks move from the accepting thread to the pool, sockets are closed
  twice (`closesocket`, then `BEV_OPT_CLOSE_ON_FREE`) while the accepting thread
  takes new handles, the settings copied at accept may change under it, the pool
  is finite. Right: each task belongs to one thread, a close hits the task's own
  socket, nothing accepted is forgotten.
* **Facade.** An unlocked singleton, an initialisation that fails half way, fields
  with no initial value, a `Start` that frees the base it needs. Right: calls in
  the documented order reach a running server, and settings hold from then on.
* **Client.** Failures at five places and the question who owns the task after
  each. Right: a task is released exactly once.
* **ParameterGroup.** Right: the message carries the pairs of the last map (it carries
  an empty one in front as well).
* **ConnectProtocol.** One message object per task, used for both directions and cleared
  at three points; a buffer allocated by a size computed before the bytes are written.
  Right: as many bytes as announced, and the other end has the message that was serialised.

`PROJECT.json` lists the hazards of all of these at their lines.

## 2. Modules

```
Exchange          what a connection promises        (sent, got)
   ^  implemented by (PROPERTY Exchanges, THEOREM ImplementsExchange)
Connection        two tasks, two loops, one stream
   ^                                    ^
MCConnection      instances for TLC     ConnectionProofs <- ExchangeProofs

HeaderReader      the header of a frame, byte by byte
   ^                                    ^
MCHeaderReader    instances for TLC     HeaderReaderProofs (with Recursion)

ConnectProtocol   the message object: sizes, serialising, parsing, reuse
   ^                                    ^
MCConnectProtocol instances for TLC     ConnectProtocolProofs (with Recursion, Folding)

Recursion         induction over numbers, recursive functions
Folding           one step of a fold

Service           what a process promises           (waiting, serving, gone)
   ^  implemented by (PROPERTY Serves, THEOREM ImplementsService)
TaskPool          all tasks of a process: sockets, accept, AddTask, pool
   ^                                    ^
MCTaskPool        instances for TLC     TaskPoolProofs

Facade            the singleton: creation, settings, Init, Start
   ^                                    ^
MCFacade          instances for TLC     FacadeProofs
```

The modules divide one program. `Connection` is one connection with messages taken as sizes;
`HeaderReader` and `ConnectProtocol` are the two ends of that abstraction, the bytes of a header
and what is in a body. `TaskPool` is the life of all tasks around `Connection`, and
`Facade` what happens in the process before, and with the settings a task starts from.

### Exchange

The promise a connection makes to the two business functions, with nothing of
how it is kept: the client sends first, the ends take turns, and what is handed
over is the last message the other end sent: never skipped, repeated or altered.
A message may be lost, but then nothing follows it.

### Connection

One connection from the moment both tasks are in the hands of the pool.
Correspondence:

| TLA+ | code |
|---|---|
| `task[e]` | the `ThreadTask` at end `e`; its fields keep their names. `DataLenth_Already_Done` and `DataLenth_Remaining_Done` are written and never read, and `DataOperationStatus` is compared (`==`) where it should be assigned and is `false` for ever; they are left out |
| `ev[e]` | which of EV_READ and EV_WRITE is pending in the loop |
| `loop[e]` | `ServerThreadPoolWorking`: submitted, in `event_base_dispatch`, broken by `event_base_loopbreak`, task deleted |
| `sock[e]`, `link`, `net[e]` | the socket, the TCP connection, and the bytes on their way to `e` |
| `inbuf[e]` | the input buffer of the bufferevent |
| `ret[e]`, `sent[e]`, `got[e]` | history: what the business function last returned, was told is sent, was handed |
| `ServerThreadPoolWorking` | 446-479 |
| `On_Read_CallBack`, `Consume`, `Business_CallBack` | one call of the read callback as a whole, with `DataOperationReady`, `DataOperationEnd` and the business function |
| `On_Write_CallBack`, `SendDone`, `SendStopped` | one call of the write callback as a whole |
| `Hangup`, `ReadTimeout` | the two causes of `On_Error_CallBack` |
| `ReleaseTask` | the end of `event_base_dispatch` and 482-483 |
| `LinkReset` | the network |

`ReadHeader`, `CheckHeader`, `ReadBody` and `Header`, `Transmitted` are the steps
inside the two callbacks, as functions of the task, in the order of the code.

What it takes from libevent, WinSock and TCP (marked external in the map):

* A receiver gets any prefix, at least one token, of what is on its way. A token
  is one header field or one unit of the body: TCP cuts between them, never inside a
  header field. 310-313 and 323-325 would take one to three bytes for a whole field; everything said of
  `Connection`, its runs and its theorems is about connections on which that does not happen, and `HeaderReader` about the others.
* The read callback runs only when new bytes came. The write callback runs once
  per `bufferevent_enable(EV_WRITE)`: the code sends with `send()` and never fills
  the bufferevent's own output buffer, so libevent drops the event after it.
* `AddTask` leaves the client's socket blocking: its `send()` takes everything. The
  server's socket is accepted from a non-blocking listener and inherits that: it
  takes what fits (`SndBuf`), and the next `send()` returns -1. With the other end
  gone a `send()` may still succeed until the reset has arrived.
* End of file is reported behind the last byte; a reset, or a peer that closed
  with unread input, at once. In both cases libevent has disabled reading. A
  write event that is active already still runs.
* The loop returns after a break, when no event is left, or when `select` fails on
  a closed socket.
* Write timeouts cannot happen (the write event is never pending for long);
  `SetTimeout(0)` switches the timers off (`TimeoutOn = FALSE`).
* A message has a size and is UTF-8 or not. Parsing gives back what was
  serialised, unless a string is not UTF-8: the serialiser logs that and the parser
  refuses it. What is left in the message object after a refusal is not modelled;
  the task is released.

The business function is nondeterministic: it leaves any message as its reply and
returns any value of `Returns`. `MaxRounds` bounds how often it returns 1; that is
the only bound in a guard. Counters are `unsigned int` modulo `UIntMod`.

The second close of a socket that `closesocket` already closed, by
`bufferevent_free`, is a no-op here: with one connection the number cannot have been
given to another. That is a matter for `TaskPool`.

### TaskPool

The life of every `ThreadTask` of one process, server or client (`RunModel`, set
once), from its socket to its deletion. What happens on the connection meanwhile
is `Connection`; of it, `TaskPool` keeps only that a running loop may close its
socket in a callback, or run out of events.

| TLA+ | code |
|---|---|
| `phase[t]` | how far the task has come: waiting in the backlog, in `connect()`, submitted, in `ServerThreadPoolWorking`, closed in a callback, deleted; or failed (`AddTask` returned an error) or lost (`accept` failed) |
| `sock[t]` | `ConnectSocket` |
| `table`, `used` | Winsock: which connection a handle value refers to, and which values have been given out |
| `backlog`, `queue` | connections not accepted yet, in their order; `queue[t]`: work items submitted for `t` and not started yet, in no order |
| `On_Accept_CallBack` (`Accepts`, `AcceptFails`) | 260-293 |
| `AddTaskRefused`, `AddTaskConnects`, `AddTaskConnected`, `AddTaskUnconnected` | 31-72, in two steps: up to `connect()`, which blocks, and from its result on; between them other threads run |
| `ServerThreadPoolWorking`, `ReleaseTask` | 446-479, 479-485 |
| `CloseSocket`, `CloseOnTwo` | the `closesocket` calls of the callbacks; 2 closes at 356 and, for want of a `break`, again at 359 |

The point is that `closesocket(h)` closes whatever `h` names at the time. A task
closes its handle in a callback and `bufferevent_free` closes it again
(`BEV_OPT_CLOSE_ON_FREE`); in between `accept()` or `socket()` may have given the same value
to another task. `Recycled` says whether Winsock does that: it may. Actions on a
handle that has been taken away are those of any other: the loop ends, and closes
the handle value it knows, hitting a third task perhaps.

When `accept()` finds no handle left it fails and the connection stays in the backlog;
the action is then not enabled (the real callback loses a task each time it is tried, which
the model does not count). Which of two tasks that share a fresh handle connects
it first is not recorded.

What it takes on trust, beside Winsock and the pool:

* `SubmitThreadpoolWork` (70, 292) promises no order, and none is assumed: an idle thread takes any work item.
* The application does not give `AddTask` a task that the pool already has (`MayAdd`); lines 33-35 do not look.
* `bufferevent_free` at 482 closes the socket then and there, as `bufferevent.h:158-160` documents `BEV_OPT_CLOSE_ON_FREE`.
  `event-config.h:341` names libevent 2.2.0-alpha-dev, and libevent from 2.1 on frees a bufferevent from a finalizer that
  runs in the loop of its base; that loop has returned at 482, and `Threadbase` is never freed. Should the close therefore not happen,
  a task that ends without a `closesocket` of its own keeps its handle, and `NoSocketLeaks` is lost. The closes at 356 and 359 do not depend on it:
  a business function that returns 2 is enough for `OneKeepsConnection` to be violated.

`Service` is the promise of that process to its connections: each waits, is served, and is gone; none is served twice
or after it was given up, and never more at a time than there are threads. It says nothing of an order. The mapping counts
both places a connection waits in, backlog and queue, as waiting, so that `accept()` is a stutter when it succeeds and a
departure when it fails.

### HeaderReader

`Connection` reads a field of the header whole or not at all. `bufferevent_read` takes
what there is, and any positive count marks the field as read. `HeaderReader`
looks at that alone: one end receives a message, answers, receives the next, and the
bytes of each header arrive in any pieces. The state is the three fields and
their marks in the task, the bytes on their way, and the header that was sent;
`On_Read_CallBack(k)` (295-336) is one callback with `k` more bytes, `Answer` what is left of
`DataOperationEnd` and `DataOperationReady` here: marks reset, fields overwritten
with those of the answer. Bodies are left out; bytes that remain when a header is
accepted would be taken for the start of its body.

It is where the granularity of `Connection` is justified: `WholeFieldsSuffice` says that a reader that
never meets a cut field is right. `Connection`'s `FieldsInStep`, `HeadersAccepted` and `TurnTaking`, and with them `Exchanges`, hold under
that condition and no further: a cut header is usually rejected and the connection closed, and one that is accepted all
the same (`doc_verified`) leaves the rest of its bytes in the input buffer.

### ConnectProtocol

The message object `m_ConnectProtocol` of the two tasks of a connection, from the business
function (or the application) that writes it to the one it is handed to. A frame travels
whole here.

| TLA+ | code |
|---|---|
| `msg[e]` | `m_ConnectProtocol`: `StateCode`, `ApiName`, `ParameterGroup`, `ByteData` |
| `mode[e]` | where the task is between the calls of `DataOperationReady` and `DataOperationEnd` |
| `frame` | the announced length (`ByteSize()`) and the body (`SerializeToArray`) |
| `SetParameterGroup` | `ThreadTask.cpp` 167-180; the map is given as the sequence of its pairs in the order of its iterator, with distinct keys |
| `Edit` | the generated setters, as both example programs and business functions use them |
| `ReadySend`, `EndSend`, `Receive` | `DataOperationReady` 44-62, `DataOperationEnd` 7-17, 18-32 with 63-70 |
| `ByteSizeLong`, `VarintSize32`, ... | the sizes, `pb.cc` 367-395 and 725-771 and what they call |
| `SerializeToArray`, `Varint`, ... | the bytes, `pb.cc` 330-365, 679-723 |
| `ParseFromArray`, `Merged`, ... | the parser, `pb.cc` 235-295, 555-636 |

A serialised message is a sequence of fields, each with the bytes of its tag and length and
the number of bytes of its content; the content of a string is not spelled out. Sizes are
computed by the formulas of the code and bytes are counted from what is written, so
that `BufferFilled` compares two computations. The varints are recursive functions (`Varint`,
`Value`, and `Log2FloorNonZero`, the highest bit by halving, for `VarintSize32`), the sums and the parser are folds. A string is UTF-8 or not (`Gbk`): the
serialiser logs that, the parser stops there. `sent` and `group` are history.

### Facade

The static members and the `Bosncc` objects, under one application thread, `Main`, that
keeps the object it got, as the two `main.cpp` do, and calls `SetRunoModel`, the three setters, `Init` and `Start` in any order, any number of
times and whatever they return; other threads call `GetInstance` and `SetTimeout` only. `Start` looks at `RunModel` and
`Started` and at nothing else, as in the code.

| TLA+ | code |
|---|---|
| `m_Instance`, `CreatInstance`, `RunModel` | the static members; `RunSetModel` is set with `RunModel` |
| `obj[t]` | the object thread `t` makes, if it does: the constructor sets `Started` only, the rest is `Unset` |
| `Test`, `Construct`, `Assign`, `Return` | `GetInstance` 8-14 in the steps other threads can come between |
| `SetRunoModel`, `SetListenport`, `SetBusinessFunction`, `SetTimeout` | 16-29, 199-232, with their silent returns |
| `ServerInit(r)`, `ClientInit(r)` | 74-170, one action per call and return value `r`; `SocketAfter`, `WsaAfter`, `BaseAfter` are what each exit leaves behind |
| `Start`, `StartReturns` | 172-186, before and after `event_base_dispatch`; `Live` says what `Main_Base` is at that time |
| `On_Accept_CallBack` | 260-275, as far as it copies settings |

`inits` records what each call of `Init` left: a socket that stays open after -6, a listening one after
-7 and -8 (and after the loop of `Start` has returned), an event base that `Start` frees. A
port stays `Taken` by such a socket, so that `bind` in another `Init` on it fails: -5. `Taken` is
Winsock's; on Windows `evutil_make_listen_socket_reuseable` does nothing, and comes after `bind` anyway.
`Start` may find a base that it has freed before, or none. What libevent does then is undefined: no connection is accepted,
and the two calls return or the process ends (`Main` stays where it is), which is all that can happen on `NULL`. `ready` and
`called` are history: whether an `Init` has provided for the next `Start`, and which setters have been called in time.

### The properties

Those of `ConnectProtocol`: `BufferFilled`, `ArrivesAsSent`, `RefusedForItsStrings` (refused exactly for strings that
are not UTF-8, at any depth), `LastGroupOnly` (no pair of an earlier map).

Those of `Facade`: `NullOnlyInCreation` (a caller gets NULL only while another is in line 11),
`WsaCoversSockets` (no exit of `Init` cleans up too much), `LoopHasListener` (the base that is dispatched is live exactly when an
`Init` has returned 0 since the last `Start` returned, and none has failed at `event_base_new` since), `TaskConfigured` (a task gets a business
function exactly when `SetBusinessFunction` was called after `SetRunoModel`, and a timeout if `SetTimeout` was called; otherwise it gets an unset member),
and `TypeOK`. The last two describe when the hazards of 184 and 272 bite, not that they never do: in a second `Start` without another `Init`,
and in a server whose setters were called too early.

Those of `HeaderReader`: `WholeFieldsSuffice`, `FirstHeaderHolds` (the check value holds for
a first header, however cut, of a message of ordinary size), `VerifiedIsSent` (for every header; violated).

Those of `TaskPool`: `NoSocketLeaks` (no socket outlives its task or a failed
`AddTask`), `SubmittedOnce` (the pool has a task at most once), `LostOnlyToReuse` (a task loses its connection only to one that had
the same handle value and has closed it before), the refinement `Serves`, `AcceptNeverWaits` and `Served` (progress).

Those of `Connection`. Invariants: `TypeOK` (with the counters in range after -1 has been added),
`BufferConserved`, `NothingResent`, `TurnTaking`, `FieldsInStep`, `HeadersAccepted`,
`StallsOnlyWhenFull`. Refinement: `Exchanges`. Progress: `HangupPropagates`,
`SentArrives`, `StallsEnd`. Each is explained at its definition, and each has a
mutant in `PROJECT.json`: a plausible mistake in one mapped definition (written just before
it in the module) under which TLC finds the property violated.

## 3. Runs

| run | configuration | checks | instance |
|---|---|---|---|
| `connection` | `Connection.cfg` | the invariants and `Exchanges` | 4 messages, timers on, 2 rounds, 87 184 states |
| `connection_live` | `ConnectionLive.cfg` | `HangupPropagates`, `SentArrives` | timers off, 1 round, `FairSpec` |
| `connection_stall` | `ConnectionStall.cfg` | `StallsEnd` | timers on, 1 round, `FairSpec` |
| `task_pool` | `TaskPool.cfg` | `TypeOK`, `NoSocketLeaks`, `SubmittedOnce`, `LostOnlyToReuse`, `Serves` | 4 tasks, 3 handles recycled, 2 threads, backlog 2, 2 calls per task; tasks and handles symmetric; 56 563 states |
| `task_pool_live` | `TaskPoolLive.cfg` | `AcceptNeverWaits`, `Served` | 3 tasks, 3 handles recycled, 1 call, `FairSpec`, no symmetry |
| `header_reader` | `HeaderReader.cfg` | `WholeFieldsSuffice`, `FirstHeaderHolds` | 12 lengths, 2 frames, integers of 3 bytes; 2 182 states; no deadlock check, as the behaviour ends with its last header |
| `connect_protocol` | `ConnectProtocol.cfg` | the four properties above | strings of 0, 2 (not UTF-8), 127 and 128 bytes, 4 codes, 3 maps, 3 parameters; 1 442 560 states; no deadlock check, as a refused message ends it |
| `facade` | `Facade.cfg` | the five properties above | 3 threads, the two beside `Main` symmetric, 2 ports, symmetric, 2 calls of `Init`, any number of `Start`; 2 488 648 states |
| `doc_reported`, `doc_eleven`, `doc_one`, `doc_verified` | `Doc*.cfg` | one statement of the documentation each | violated |

Why the bounds are enough. The four messages are the kinds the code can tell
apart: empty (no body, no read for it), one unit, one that outgrows the socket
buffer together with its header, and one that is not UTF-8. `SndBuf = 4` is
between the two: a frame of the short message fits, a frame of the long one does
not, so full, partial and failing sends all occur; with a buffer of 3, the least
allowed, nothing new happens. `UIntMod = 8` is the smallest power of two above
twice the longest message, so that -1 wraps and `Size + 1` is still seen as
different from every size. Two rounds let a task go through sending and receiving
twice at both ends: first frame (with the flag), later frames (without), and the
state left over between them. Both ends start with any flag.

For `TaskPool`: four tasks are one to close twice, one to be given its handle, one
to be given the handle after that, and one that waits for a thread (two threads, so that
the pool is full with the others); three handles, so that the table is full as well. For
progress there are as many handles as tasks, so that `accept()` never fails for want of one.
`MaxCalls` bounds the retries of `AddTask`; it is the only bound in a guard, the other
constants are limits of the system.

For `HeaderReader`: lengths of one byte and of two, on both sides of the border, with a
zero byte, and with check values that differ in one byte only; a first frame and
one later frame, since later ones start like the second. An `unsigned int` has 3 bytes rather than 4,
for TLC's own integers have 31 bits; every operation on it is modulo `Power[Width]` (`Base` to that power); the theorem `FirstHeader` is about four bytes. `FirstHeaderHolds`
is about messages that small: from 130304 bytes on (16841984 with four bytes) there are
headers with another reading of the same check value, when the lowest bytes of the length arrive alone.

For `ConnectProtocol`: 127 and 128 are the last length with one byte of varint and the first with
two; a parameter that holds either is longer than 127 itself, so that its own length is on the other side, and the codes sit on the borders of one, three and
five bytes. `MaxParameters` bounds the calls of `add_parametergroup` and is the only bound in a guard; a map of two pairs
fills it with the empty parameter in front. Messages go back and forth without end, each
object is reused as often as it can be.

For `Facade`: three threads, so that two can pass the test of `GetInstance` together and a third can be handed
NULL; two ports, so that a second `Init` can take another; two calls of `Init` (`MaxInits`, the only bound in a guard), so that one that
fails at any of its exits comes before or after one that succeeds, with `Start` before, between and after them. The proofs need none of these bounds.

Fairness of `TaskPool`: weak fairness of `accept` (the loop of `Start`), of the pool's
start of a work item when a thread is idle, and of the steps that end a loop after a callback
has closed the socket. A loop that serves its connection need never end, so `Served`
has that as its premise: if every loop ends at some time, every submitted task gets a thread. The model
has finitely many tasks; for an endless stream of connections that takes a pool which does not pass over a work item for ever.
`AcceptNeverWaits` has no such premise.

Fairness of `Connection` (`FairSpec`): weak fairness of each callback of each loop and of the
pool's start of a work item. It stands for the scheduler of Windows and for
`event_base_dispatch`, which serves every event that stays ready; the pool is
assumed to have a thread for the task. Nothing obliges the network to fail, the
application to return a particular value, or the read timer to run out while bytes keep
arriving (its fairness holds only while nothing is on its way).

What the runs show. No interleaving of two Bosncc ends loses track of the stream:
fields, flag and turns stay in step, and no header is rejected, as long as TCP does not cut a field. The
missing assignment of `DataOperationStatus` does no harm, because the write
callback runs at most once in a message. The price is that a message which the
server's socket does not take as a whole is never continued: it stays half sent
until the read timer closes the connection, and for ever with `SetTimeout(0)`.
A hangup always reaches the other end's task. What reaches the business function is the message that was serialised,
for the size and the bytes are computed alike and no field survives a clear.
Setters called before `SetRunoModel` are ignored without a word, and tasks then get members nobody set. A `Start` without an
`Init` that succeeded, or a second one without another `Init`, dispatches a base that is not there. An `Init` that fails behind `bind` leaves its port taken, and so
does a loop of `Start` that has returned: a retry on the same port gives -5, on
another port it works, and `Start` then has the new base.

Where code and documentation disagree (findings):

* `ThreadTask.h:24`: argument 100 means sent. An empty message is reported as sent even when
  every `send()` of its header failed, for instance on a socket the error callback closed.
* `ThreadTask.h:28`: 11 keeps receiving. It closes the connection.
* `ThreadTask.h:27`: 1 keeps the connection. In `doc_one` another task's second close
  takes its socket away while its loop runs. `LostOnlyToReuse` and
  `OwnSocketWhenFresh` show that the second close of a recycled handle value is the only cause.
* A code bug rather than a disagreement: the step that the label in line 329 calls the verification of the header accepts
  one that was not sent. In `doc_verified` a task has answered its first message with an empty one; of the next header, of a message
  of 256 bytes, the first byte, 0, arrives alone, then the second, 1, alone. The rest of both fields is what the answer left
  there, the check value agrees, and the message is taken for an empty one.

Beyond the runs: `ThreadTask.h:29` says that 2 closes the connection, and `On_Write_CallBack` (438) drops what the
business function returns for a sent message, whatever it is. `README.md:20` has the client announce encryption first, in four bytes; the code
sends the length first and then a one-byte flag (`Connection`'s `Header` follows the code).

## 4. Proofs

`ConnectionProofs` proves, for every set of messages, every size below half the
range of `unsigned int`, every socket buffer of at least a header, any return values of
the documented three, timers on or off, and any number of rounds:

| theorem | says |
|---|---|
| `Invariance` | `Spec => []IInv` |
| `TypeCorrect`, `BuffersConserved`, `NothingIsResent`, `TurnsTaken`, `StreamInStep`, `WholeHeadersAccepted` | `Spec => []P` for the invariants `TypeOK`, `BufferConserved`, `NothingResent`, `TurnTaking`, `FieldsInStep`, `HeadersAccepted` |

Assumptions: the named `ASSUME`s of `Connection`, and what its definitions take from TCP: header fields arrive whole.
`StreamInStep` and `WholeHeadersAccepted` are about every other way to cut the stream; a header cut inside a field
is outside these theorems and usually rejected. `SizeAssumption` is what `ByteSize()` returning an `int` gives.

The argument. None of the invariants is inductive alone, not even `TypeOK`: that
`DataLenth_Remaining` does not underflow while reading depends on the body being
no longer than announced. `IInv` therefore says what is on the wire:

* `ReceiverInv`: for a receiver, the stream `net[e]` is a prefix of what its task
  has still to read (`Due`, `DueLen`: length, flag if not yet done, check value, the
  rest of the body) of one message, the one the other end is sending or sent last (`Msg`);
  and what it has read so far is right (`HeaderRight`, `BodyRight`).
* `SenderInv`: while one end sends, the other receives and nothing flows towards the sender; before
  it starts, the other end waits for a new frame; when it has stopped half way, the
  frame on its way is not whole, so the receiver cannot complete it.
* `OneDirection`: when both receive, at most one of them has a frame coming.
* `FlagInv`: the flag has left the client before the server has read it, and has been read before
  anything goes the other way. This is what lets both ends drop it from later
  frames at the same time.
* `EventInv`: a pending write event of a sender finds its task at the start of a frame.

`ReadInStep` shows that reading any prefix of an aligned stream leaves task and rest
aligned (one lemma per `bufferevent_read`), `FrameInStep` that any prefix of a frame is
aligned with a receiver at a frame boundary. `ReadStep`, `WriteStep` and `OtherSteps`
are the preservation by each action. TLC checked `IInv` on the instance of
`Connection.cfg` before it was proved.

`TaskPoolProofs` proves, for any tasks, handles, number of threads, backlog and calls
(the named `ASSUME`s of `TaskPool`):

| theorem | says |
|---|---|
| `Invariance` | `Spec => []PoolInv` |
| `TypeCorrect`, `SocketsReleased`, `PoolHasTaskOnce` | `Spec => []P` for `TypeOK`, `NoSocketLeaks`, `SubmittedOnce` |
| `OnlyReuseTakesSockets` | `Spec => []LostOnlyToReuse` |
| `OwnSocketWhenFresh` | `~Recycled => (Spec => []OwnSocket)`: a task the pool has is on its own connection, if handle values are not recycled |

`PoolInv` is the conjunction of the three invariants, which is inductive: that a handle refers to
a task only while the task needs it (`NoSocketLeaks`) is kept by every close, of one's
own socket or of another's, because a close only ever makes a handle free; that a
handle is free when it is given out keeps the rest. For `OwnSocket` this is not
enough: `FreshInv` adds that two tasks never have the same handle value, which holds
because a value in any `ConnectSocket` has been used.

For `LostOnlyToReuse` the clause itself is inductive on top of `PoolInv`: a handle that a task needs is made
free only by a `closesocket` of another task with the same value, which is then closed or deleted for good; a failing `AddTask` can be
that task only if its own socket was lost before, and then the task that closed it before stands for both.

`ExchangeProofs` builds on `IInv`:

| theorem | says |
|---|---|
| `StallsNeedFullBuffer` | `Spec => []StallsOnlyWhenFull` |
| `ImplementsExchange` | `Spec => Exchanges`: initial states map to initial states, every step to a step or a stutter of `Exchange` |

For the second, `WordInv` says by the four counters where an exchange stands: a task that sends has the word, its business function having
been handed all that was sent; while both receive, one message is on its way to one of them, or one has ended the
connection instead of answering. That a read which completes a frame has completed this very message is what `IInv` already says.

`TaskPoolProofs` also proves `ImplementsService == Spec => Serves` for any limits. From `PoolInv`, and `SubmittedOnce` in it, a task with a work item is not
also in the backlog or on a thread, so a task is in one of the three places of `Service` at most (`Places`). The rest is how the three sets change,
once for each action.

`FacadeProofs` proves, for any threads, ports, settings and number of calls of `Init` (`ThreadsAssumption`, `UnsetAssumption`):

| theorem | says |
|---|---|
| `Invariance` | `Spec => []FacadeInv` |
| `TypeCorrect`, `SocketsCovered`, `ListenerThere` | `Spec => []P` for `TypeOK`, `WsaCoversSockets`, `LoopHasListener`: the last for any sequence of `Init` and `Start` |
| `TasksConfigured`, `NullIsPassing` | `Spec => TaskConfigured`, `Spec => NullOnlyInCreation` |

`FacadeInv` adds to these `Creation` (an object that is still to be assigned to `m_Instance` is nobody's yet, so that a late
assignment can only replace `Main`'s object by another, which is what the premise of `TaskConfigured` excludes), `MainKeeps`, `BaseKnown` (`Main_Base` is
a base of an `Init`, and it is live with a listening socket exactly while `ready`, before, in and after `Start`) and `Settled` (a setter that was called
in the right mode has had its effect, one that was not has had none). `WsaCoversSockets` needs the cardinality of the open sockets to grow by at most
one with each `Init`, from the library's facts on finite sets.

`ConnectProtocolProofs` proves, for any strings and sizes, codes, maps and added parameters (the named `ASSUME`s of
`ConnectProtocol`):

| theorem | says |
|---|---|
| `VarintSizeIsLength` | `VarintSize32(n)`, the formula with the highest bit, is the number of bytes `Varint` writes, for every 32-bit `n` |
| `VarintRoundTrip` | reading the bytes of a varint gives the number back |
| `SerializedSize` | `ByteSizeLong(m)` is the number of bytes in `SerializeToArray(m)`, for every message |
| `ParsedAsSerialized` | parsing what was serialised into a cleared message gives that message, if all its strings are UTF-8, and fails otherwise |
| `Invariance` | `Spec => []IInv` |
| `Filled`, `Arrival`, `Refusal`, `LastGroup` | `Spec => []P` for `BufferFilled`, `ArrivesAsSent`, `RefusedForItsStrings`, `LastGroupOnly` |

`StringsAssumption` says that strings have a size, 0 for the empty one only, which is UTF-8; `CodesAssumption` that
`StateCode` is a `uint32`; `GroupsAssumption` that a map has a key once. `SizesAssumption` says that a parameter's size fits an `int`:
messages of 2 GB and more are outside the model, and protobuf refuses to serialise them.

`IInv` is `TypeInv`, `FrameInv` (a frame on its way is exactly what the serialiser makes of `sent`), `TurnInv` (an end that has the message
in its hands excludes a frame and a busy other end), `ArrivalInv` (what became of the frame: the same message, or a refusal and a string that is
not UTF-8) and `GroupInv` (the last map begins the message wherever that is, behind the empty parameter). None of the four properties is
inductive alone: that the received message is the one sent needs that the frame was not made from an older `sent`, which
is `FrameInv`, and that nobody overwrites `sent` or the object meanwhile, which is `TurnInv`. The rest is about data: the size and the bytes
agree by induction over the parameters, and the parser, a fold over the fields, is followed along the prefixes of the serialised message
(`ParsedStatus`, `ParsedText`, `ParsedParameters`), with the same argument one level down for a parameter (`ParameterArrives`).

`HeaderReaderProofs` proves (`SizesAssumption` of `HeaderReader`: a length is below half the range of the integers):

| theorem | says |
|---|---|
| `BytesRoundTrip` | `Bytes(n)` has `Width` bytes, and `Value` gives `n` back, for every `n < Power[Width]` |
| `Invariance` | `Spec => []IInv` |
| `WholeFields` | `Spec => []WholeFieldsSuffice`, for every `Base`, `Width`, set of lengths and number of frames |
| `FirstHeader` | `Small => (Spec => []FirstHeaderHolds)` |

`IInv` says (`WholeInv`) that as long as no field of the header was cut, the stream is exactly the fields still unread, in order, what was
read is right, and nothing was rejected; `VerdictInv` ties the verdict to the marks.

`Small` is the build: bytes of 256 values, integers of 4 bytes, and messages of at most 16841983 bytes. The bound on messages is
tight: 16841984 is 2^24 + 64768, and a header of that length has a cut under which another length is accepted. For this theorem `FirstInv` says
how the fields and the stream lie after any cuts: some `k1`, `k2` and `k3` bytes were read into the three fields, each run where the one
before ended, and the rest of each field is 0. The proof is then arithmetic, by `k1`: with four bytes read the length is right, and the flag and check value
decide the rest (`FourBytes`); with fewer, the flag is read from the length and the check value begins inside the header too early. Then one byte
is never accepted (`CutAfterOne`), two and three only if they are the whole length and the flag read is the one sent (`CutAfterTwo`, `CutAfterThree`). For later headers the fields are not 0, and
the statement is false: `doc_verified`.

TLC checked both invariants on the instances of `ConnectProtocol.cfg` and `HeaderReader.cfg` before they were proved.

Induction over data. The induction rules of the library take an operator as a parameter, which the provers at hand cannot
instantiate. `Recursion` states them over sets instead (`Induction`, `StrongInduction`: a set closed under the step holds every number), from the
library's theorem that `<` on the naturals is well founded, and proves that a recursive function satisfies its
equation (`RecursiveFunction`), from finite approximations that agree. `PowerEquation`, `ValueEquation`, `VarintEquation`, `Log2Equation`
are its instances. `Folding` takes the operator of a fold as a constant and proves what one element more does (`FoldStep`); it is instantiated once for
each fold of the model.

Model-checked only: progress (`AcceptNeverWaits`, `Served`, `HangupPropagates`, `SentArrives`, `StallsEnd`), because liveness under fairness is
out of the prover's reach, and of course the four statements the code violates. Every invariant and every refinement that a passing run checks is proved.

## 5. Not modelled, and what is left

Not modelled by choice:

* The third-party sources. They are 99 % of the lines below `src/`: protobuf with its compiler and its tests, the headers of
  OpenSSL and libevent. Bosncc itself is some 850 lines in `Bosnnc.cpp`, `Bosncc.h`, `ThreadTask.cpp` and `ThreadTask.h`, the two .cpp files are covered
  by more than four fifths; of protobuf, the functions that decide how a message looks on the wire. A share of all lines says little here:
  modelling `descriptor.cc` or the JavaScript generator would say nothing about this program, which never calls them.
* In the generated class: unknown fields, other wire formats of a field, `MergeFrom`, `CopyFrom`, `Swap`, reflection. No Bosncc end produces or calls them.
* `SetEncrypt` and the getters: a server's flag is overwritten by the one received before it is used (`HeadersAccepted`), and
  `Connection` starts from any.
* Modes 101 and 301: `ThreadTask.h` documents them, no code sets or handles them. With 100 and 300 the `default` branches are never reached.
* The GBK conversion (called nowhere), the two example programs (their calls are among the sequences of `Facade`), `ThreadTask`'s empty operations, log output.
* A peer that is not Bosncc, and a business function that never returns.
* The event base of each task and the `PTP_WORK`, which nobody releases: there is no rule for them a step could break.

What could be added: `Connection` composed with the thread limit of `TaskPool` (two clients that share one thread), and
`ConnectProtocol` with varints of 64 bits once a field needs them.

# RemoteCL in TLA+

RemoteCL forwards OpenCL calls over a TCP connection: a client library with the
OpenCL API (`client/`), a server that calls a real driver (`server/`) and what
they share (`common/`). This directory models that program, checks the models
with TLC on small instances and proves properties of them with TLAPS.
`PROJECT.json` maps every definition to the lines it models.

## 1. The system

| Part | State | Operations | Hard part |
|---|---|---|---|
| `SocketStream`, `Socket` | a write buffer with its offset, a read buffer with offset and count, a blocking socket | `write`, `read`, `flush`, `peek` | two paths each (buffered, direct), loss of the connection anywhere |
| `PacketStream` | the stream below | `read<T>`, `write<T>`, `flush`, `nextPacketTy` | both sides must expect the same packet; errors come in place of replies |
| `Connection`, `LockedConnection` | the API stream, its mutex, the object table, the callbacks with their mutex, the event stream | `get`, `registerID`, `getOrInsertObject`, `registerCallback`, start and exit | one stream for all threads |
| API functions | none of their own | 63 exported functions: a conversation of packets under the lock | conversations with questions back, early returns, different `catch` clauses |
| `ServerInstance` | the API stream, the object list, the event stream with its mutex | `run`, `handleNextPacket`, one handler per request | failures in the middle of a request; one thread |
| Event stream | second connection, callback list | `createEventStream`, `triggerEventCallback`, callback thread | three threads, two mutexes, shutdown |
| Object tables | server: pointer list; client: wrapper per ID | `getIDFor`, `getObj`, `registerID`, `getOrInsertObject` | reuse of addresses, 16-bit IDs |
| Mappings | list of host copies per memory object | map, unmap | built from several calls, between which other threads run |
| Server process | listening socket, children | accept, fork or thread | failures between accept and run |
| Packet bodies, version | length fields, compression, feature flags | `<<`, `>>`, `isCompatibleWith` | widths |

They interact only like this: an application thread takes the connection's lock,
writes a request, flushes, and reads replies until its conversation is over. The
server peeks at the next packet type, runs that handler to its end and flushes.
The event stream runs beside it, from driver threads of the server to one
callback thread of the client.

What makes the parts correct: the stream delivers what was written, in order,
and comes back from every call; both sides agree on every packet; nothing of one
call is left for the next; a result is that of the caller's own command; a lost
connection ends everything and is reported; a handle keeps meaning the object it
was given for, and references balance; a callback runs once and with its own
status; a client's failure is not that of another. `hazards` in `PROJECT.json` lists,
line by line, where that is at risk.

## 2. Modules

    BytePipe            what one direction of a connection promises
    SocketStream        common/socketstream.*, common/socket.cpp; implements BytePipe
    MCSocketStream      for TLC
    SocketStreamProofs  proofs about SocketStream
    SequenceFacts       what the proofs need to know of sequences

    Packets             common/packets/*.h, streamserialise.h: members to bytes and back
    PacketsProofs       proofs about Packets

    Script              steps: write, read, flush, driver call
    ClientCalls         client/*.cpp: the conversation of each API function
    ServerHandlers      server/*.cpp: the conversation of each handler
    ApiProtocol         threads, lock, streams and server that run them
    RemoteCall          what forwarding promises; implemented by ApiProtocol
    MCApiProtocol       sets of calls for TLC
    MCApiThreads        the same, and what the proofs assume of the calls
    ApiProtocolProofs   proofs about ApiProtocol

    Session             server/main.cpp, version.*, Connection::Connection, createEventStream
    MCSession           builds for TLC
    SessionProofs       proofs about Session
    EventStream         callbacks: client/connection.cpp, client and server event.cpp, program.cpp
    MCEventStream       applications for TLC
    EventStreamProofs   proofs about EventStream
    ObjectTable         server/instance.h, client/connection.h, refcount.cpp: IDs and wrappers
    MCObjectTable       driver objects for TLC
    ObjectTableProofs   proofs about ObjectTable
    Mapping             client/memory.cpp, client/objects.h: map, unmap and transfers
    MCMapping           symmetry for TLC
    MappingProofs       proofs about Mapping

The modules share no state. Each takes from the one below what that one
establishes: SocketStream is a pipe of bytes; over a pipe of bytes Packets makes
typed packets, provided that both ends expect the same type and were built with the
same compression; the first is TypesAgree of ApiProtocol, the second CompatibleOnly of
Session. EventStream begins where Session ends (EventsAgree). ObjectTable and
Mapping take a call as ApiProtocol delivers it: at most once, with its own result, or
not at all.

**SocketStream** keeps the C++ names. A byte is named by its position in the
stream, so a wrong copy shows as a wrong name. The sender and the receiver are
in different processes and meet only at the socket, so one step is one loop
iteration, or what the kernel does of one socket call at a time. The kernels hold
`SocketRoom` bytes; a `send` passes its bytes to them piece by piece and blocks
while there is no room (`FlushWriteBuffer`, `WriteDirect`). After a loss it fails or
appears to work; if it had already passed on a part, it returns a smaller number than
it was given, and the assertion of `socket.cpp` line 144 ends the process
(`"aborted"`). `recv` gives any part of what is there. A loss drops some suffix of what
was on its way and is seen as end of stream or as one error and then end of
stream.

**Packets** lists for each packet its members with their types, the order in
which `operator<<` puts them and the order in which `operator>>` takes them, and
interprets the lists. The number of values of a byte (256 in the code), the length
of a fill pattern (128) and the size from which data is compressed (1 MB) are constants.
TLC takes 3, 5 and 10: one-byte lengths then end at 2 and two-byte lengths at 8, and TLC
reaches both limits and goes beyond. Numbers, lists and strings are coded by
recursive functions, not operators, so that they can be proved about. zlib is
a stand-in that makes some data shorter and some longer, or fails.

**ClientCalls and ServerHandlers** give for each function the sequence of packets
it writes and reads, where it flushes and where it calls the driver. Arguments
that change the conversation are options (`"wait"`: there is an event list, and
so on); other data is left out. A payload is named with its encoding, because
both sides have to agree on that too. The records also say what a function
returns for an error reply, for a loss, and without a connection: these differ
in the code.

**ApiProtocol** runs them. `Invoke`, `Reject`, `Acquire`, the four holder steps
and `Return` are a call of an application thread; `ServerPeek`, `ServerRead`,
`ServerWrite`, `ServerFlush` and `ServerCall` are the server's loop. A write
goes to the buffer and any part of the buffer may reach the socket, which covers
all packet sizes against `BufferSize`. The socket takes `Capacity` packets per
direction and blocks beyond that. `Cut` and `Exit` may happen at any time
(`Exit` when no call is under way). A failed assertion ends the process: the
default build type keeps assertions. `Conversation` says what it is for a call and
the handler of its request to agree; the proofs rest on it. A packet is present or absent as a whole. A
read that gets a payload of another encoding counts as a failed assertion; in the
code it misreads bytes. Driver calls whose result a handler ignores are no steps.
A loss makes a read throw; a read of a large payload may also go round for ever
(`ClientSpins`, `ServerSpins`), as SocketStream shows: its size can arrive without its
data. Only `Payload`s with two- and four-byte lengths are read in pieces of
`BufferSize` or more.

**Session** has the parent process (`ParentListen`, `ParentAccept`, `ParentFork`,
`ParentClose`), a child per client (`ChildStart` to `ChildAccept`) and the clients.
It follows every copy of a socket: `fork` duplicates what the parent has open, and a
connection is closed when the last copy is. `Failures` names what may go wrong.
After the handshake a client makes calls of one request and one reply.

**EventStream** has four kinds of threads: the application's, the callback thread,
the server's own, and the driver's, which may also call back inside
`clSetEventCallback`. All three mutexes are there. An application is a record: which
calls its threads make, which its callbacks make, how many callbacks it registers.
A callback runs in the callback thread with `mCallbackMutex` held, or, where
`clCompileProgram` and `clLinkProgram` run it themselves, in their thread with `mMutex`
held (`Notify`).
The unset pointer in a program callback (`server/program.cpp` line 88) leads to
the instance or to a crash. A program callback is written and not flushed.

**ObjectTable** has the driver's objects with their reference counts, the server's
`mObjects`, the client's wrappers and the handles that the application holds. The
driver may destroy what nobody references and use the address again. Loops over the
objects of a reply take one step per object, under the connection's lock.
`faults` collects the kinds of objects whose ID led to an empty slot, which
the code dereferences.

**Mapping** has one buffer with one value, the driver's in-order queue, the mappings
and threads that map, unmap, read and write. A map and an unmap are the calls they
consist of. A command in the queue knows whether the memory that its handler gave
it still exists.

## 3. Runs

| Run | What it shows | Result |
|---|---|---|
| SocketStream | buffers of 2 bytes, 5 bytes written in pieces of 1, 2, 3, 5, read in pieces of 1 to 3, flush, peek, cut, a socket that holds 2 bytes: the type invariant, order, accounting of both buffers, the comment of `write` on line 86, refinement of BytePipe; writes end unless the peer stops reading, flushed bytes reach a waiting reader, a cut ends a buffered read | passes |
| Packets | two packets of any kind behind each other, lists and strings up to and over their limits, payloads with 1, 2 and 4 byte sizes, compressed or not: what is read is what was written, and the stream stays in step | passes |
| ApiAllCalls | one thread, all calls in any order with all options, any driver call may fail: packets agree, also at the server's peek, the two sides never wait for each other, nothing left between calls, refinement of RemoteCall | passes |
| ApiThreads | two threads, the four shapes of conversation, driver failures, cut, no connection at start: no packet of another thread, a call on a dropped connection says so, refinement of RemoteCall | passes |
| ApiLive | `Capacity` 1, two threads, also calls that make an assertion of the client or of the server fail: the holder of the connection releases it, the server of a lost client ends, but for who is reading a large payload | passes |
| Session | two clients of four builds, a server of two, failing `accept`, `fork`, `bind`, clients that die at any point: sockets stay private to parent and child, only compatible builds exchange requests, one answer per question, agreement on the event stream; constructors, calls and the accept loop go on, nothing is left of a client that is gone | passes |
| EventStream | an application thread that makes any calls and registers up to two callbacks, callbacks that make none or any calls, two driver threads, an event socket that takes one packet, loss, exit: callbacks run once, in order and with their own status; calls, signals and driver threads come through, but for the three deadlocks below | passes |
| ObjectTable | two addresses, a platform, two devices, five IDs, four kinds of objects: handles keep meaning their objects and their wrappers fit, counts agree, lookups find something, calls end | passes |
| Mapping | two threads, two mappings, reads and writes, loss at any point: references balance, mappings stay while they are used, blocking transfers carry current data, the driver never has freed memory of a blocking command | passes |
| SocketStreamLargeRead | a read of 1024 bytes or more spins on a closed connection | violated |
| ApiEventCallback | Error and then Success for a refused event callback; the next call takes the Success | violated |
| EventLoss | a lost event stream is not reset, and callbacks go on being accepted that nobody will run | violated |

The three violated runs are the `findings` of `PROJECT.json`.

**Disagreements without a run of their own.** Their inputs are left out of the
passing runs. Each can be seen by changing one line of a `.cfg`:

| Change | Violated | Why |
|---|---|---|
| ApiAllCalls, `Calls <- OddArguments` | TypesAgree | a memory argument of another size than a pointer is sent as payload where an ID is read (`client/kernel.cpp` line 128) |
| ApiAllCalls, `Calls <- ImageLists` | TypesAgree | an image transfer fails before it has read the event list (`server/image.cpp` line 101) |
| ApiThreads, `Calls <- Enqueues` | DroppedMeansNotAvailable | `clEnqueueNDRangeKernel` returns `CL_SUCCESS` on a dropped connection (`client/event.cpp` line 150) |
| ApiAllCalls, `Calls <- Clones`, `TargetCL = 120` | ImplementsRemoteCall | an unsupported request is answered and never read (`server/program.cpp` line 371) |
| ApiAllCalls, `Calls <- DeviceSizes`, `TargetCL = 120` | TypesAgree | four device properties are encoded by the server's version (`server/device.cpp` line 101) |
| ApiLive, `Calls <- UserEvents` | HolderReleases | a wait for a user event keeps the connection from the call that completes it (`server/event.cpp` line 216) |
| Session, `Failures = {"event"}` | ClientsComeBack | the server waits in `accept()` for an event connection that failed (`server/instance.cpp` line 111); `README.md` line 58 promises normal function |
| Session, `Failures = {"reset"}` | ServerKeepsAccepting | `getpeername` is not checked, and an assertion ends the server (`common/socket.cpp` line 164) |

**Deadlocks of callbacks.** A callback that makes an OpenCL call can stop the client.
Run EventStream has such callbacks and reaches all three of these; `Deadlocked` is the
exception that CallsReturn makes, and nothing else:

| Definition | Who waits | Where |
|---|---|---|
| `NotifyMadeCall` | a `pfn_notify` that `clCompileProgram` or `clLinkProgram` runs itself makes a call: it waits for `mMutex`, which its own thread has | `client/program.cpp` lines 201 and 252 |
| `MutexesCrossed` | a thread with `mMutex` registers a callback and waits for `mCallbackMutex`; the callback thread has that one while its callback waits for `mMutex`. A callback that registers a callback itself waits for its own thread | `client/connection.cpp` line 69, `connection.h` line 133 |
| `ReplyBehindSignal` | the server's own thread signals an event that was complete when its callback was registered, and the event socket is full; the callback thread, which would empty it, waits for `mMutex`; who has that waits for the reply, which the server sends after the signal | `server/event.cpp` lines 69 to 73 |

Without a call inside a callback none of them occurs.

Some properties of passing runs name an exception, because the code has it: a side that is
reading a large payload when the connection is lost, in `HolderReleases` and `ServerEnds`
(run SocketStreamLargeRead shows that it spins); a live peer that never reads again, and the
end of the process by an assertion, in `WriteEnds`; the deadlocks above in `CallsReturn`, and
a callback that never comes back from a call in `SignalsArrive` and `DriverReturns`; memory
objects in `HandlesMeanObjects`; devices and NULL in `WrapperFound`, and the last ID
there and in `CallsEnd`; non-blocking writes and image reads in the properties of Mapping; the child that
waits for the event connection of a dead client in `NothingLeftBehind`; oversized
payloads in `RoundTrip` and, with zlib, in `InStep`.

**Bounds.** Buffers: two bytes give sizes below, at and above `BufferSize`, two
iterations of the loop and every offset; five bytes fill the buffer more than
twice. A socket of two bytes takes a large write in pieces, so that `send` blocks in its
middle, and can be lost there. Packets: the number of packets
is two because an error of the first shows in the second or in what is left behind
it. Threads: two are the least that can take each other's reply or interleave
two maps; only one holds the connection. `Capacity` 2 lets a conversation run
ahead or block; 1 makes both sides block as early as they can. Calls: ApiAllCalls
has them all; ApiThreads takes one of each shape (request and reply; several
packets with lists and an event; a question back; a list of payloads), since the
threads differ only in the shape of what they leave in the streams; ApiLive has a question
back with a large payload, a large payload in the reply, and two conversations that end in an
assertion. Session: two
clients are the least whose sockets can leak into each other's child; two tries
give a first, a last and no port. EventStream: two callbacks and two driver threads
can overtake each other; a socket of one packet blocks a signal between its two
packets; the applications are the least and the most that callbacks can do. ObjectTable: two addresses are reused in both orders, and five IDs are
used up. Mapping: two pointers, two queued commands, two values besides the
undefined one; threads and values are symmetric. No proof depends on any of these
numbers.

**Fairness.** A process inside `read` or `write` goes on (WF). A thread that
holds the connection goes on, the server goes on, and a driver call returns (WF),
except the wait for a user event. A user callback returns. An `accept()` to which nobody connects need not return. Nobody has to
call, to signal, to connect, to cut or to exit. No mutex is assumed to be fair,
because `std::mutex` is not: a property that a call returns says that whoever
holds the lock gives it back. A peer need not read: `WriteEnds` says what follows from
that. Deadlock is checked in every run but Packets, which
sends `MaxPackets` packets and stops, and EventStream, where the code has the deadlocks
above; there the three liveness properties say that nobody else waits for ever.

## 4. Proofs

Every theorem is proved for all values of the constants that satisfy the `ASSUME` of its
module, and for behaviours of any length. What a theorem assumes beyond that is in its
statement and below. Each proof has an inductive invariant `IInv` (for Mapping also
`RetainsBalance` on top of it, for Packets it is `WireInv`), one lemma per action, and a
last step by PTL.

### SocketStreamProofs

For every `BufferSize` and `SocketRoom` above 0, every set of sizes and every number of bytes.

| Theorem | Says |
|---|---|
| TypeCorrect | all offsets stay inside their buffers |
| StreamIntegrity | what is read is what was written, in order |
| NothingIsLost | each buffer holds exactly the bytes between its two ends |
| TwoIterations | the loop of `write` runs at most twice |
| SpaceForTheNextWrite | a live stream is never left with a full buffer |
| StreamIsAPipe | SocketStream implements BytePipe |

`IInv == TypeOK /\ StreamInv /\ CallInv /\ LoopInv`. Order of the
output is not inductive by itself: it rests on the contents of the read buffer,
those on the wire, and those on the write buffer (`StreamInv`). What a `send` under way
has passed on already is never more than it was given, and only a `send` can have passed on
anything (`CallInv`). The wire is
cut by a loss while writing may go on, so the writer's accounting holds only
while the connection is open, and `Len(wire) <= written` is what remains. The
bound on the iterations needs to know where the loop stands (`LoopInv`): a
second iteration starts with an empty buffer that is larger than what is left.
The refinement maps each step that copies
bytes to the caller to `Deliver`, and the call of `write` to `Accept`.

### PacketsProofs

For a byte of any number of values, any `PatternBytes`, all lengths of lists and strings, all
sizes of payloads, every `Threshold` that a two-byte length cannot say, with and without zlib.

| Theorem | Says | Assumes |
|---|---|---|
| PacketsSurvive | each of the packets that are lists of members is read as it was written, with nothing left of it, whatever bytes follow; for all values of the members, not only those that `Filled` gives | the values pass the code's assertions (`IsPacket`) |
| PayloadsSurvive | the same for payloads: from `Payload` or `PayloadPtr`, compressed or not, whether or not zlib fails | the size fits its `SizeT` |
| RoundTripHolds | RoundTrip: over any number of packets, written and read in any interleaving, what is read is what was written | `Guarded` |
| InStepHolds | InStep: no byte is left when all is read, and the reader finds all the bytes it waits for | `Guarded` |

`Guarded` says that the assertions are compiled in, as in the default build, or that
every length is one that its field can say. Without it the sender cuts a length and
sends all elements (`streamserialise.h` line 42), and the next packet begins in the wrong
place.

The argument goes up the code. Numbers first: writing gives the digits of a number and
reading their sum, so that a number that is too large comes back modulo `Base^w`
(`ValueOfBytes`). Then pieces in a row, each taken off the front of what the ones
before it left (`Flattened`, `TakenOff`): lists, strings and lists of strings survive.
Then members: the order of `put` is that of `get`, no member is put twice, and an
optional member comes after the one that says whether it is there (`Agrees`, which
`StructsAgree` establishes for every packet's lists); so each member survives, because it
finds the members before it already read (`MemberStep`). A recursive function is
first shown equal to a closed form, by induction over the sets of numbers for
which they agree (`Induction`, from the well-foundedness of the naturals), as no theorem with
an operator for parameter can be used.

RoundTrip is not inductive: it says nothing of the bytes on the wire. `WireInv` adds that
there are suffixes of the wire, one per packet that is not yet read, each of which
is the bytes of its packet followed by the next suffix (`Tails`), where the bytes of
a packet are any that give it back whatever follows (`Arrives`). A write appends
one packet to all suffixes, and a read goes to the next one.

The proofs take of zlib what the stand-in does: `uncompress` gives back what
`compress` took, or `compress` fails. That is its contract and not ours to prove.

### ApiProtocolProofs

For any number of threads, every capacity of the socket, and with all failures.

| Theorem | Says |
|---|---|
| ProtocolTypes | ranges; the server is in a handler exactly while it has steps left |
| PacketsHaveExpectedTypes | whoever reads finds what it expects or an ErrorPacket; between requests the server finds requests |
| CallsLeaveNothingBehind | streams and server are empty between two calls |
| ConnectionIsExclusive | everything on its way belongs to the holder of the lock |
| NeverBothWait | while the connection is up the two sides never both wait, for a packet or for room in the socket, however little the socket takes |
| LostConnectionIsReported | a call that begins on a lost connection returns `CL_DEVICE_NOT_AVAILABLE` or refuses its arguments |
| CallsAreForwarded | ApiProtocol implements RemoteCall: a command is carried out at most once per call, and the call returns what became of it |
| SuccessIsTrue | `CL_SUCCESS` only for a command that the driver carried out (run ApiEventCallback has a call for which this fails) |

They assume `CallsAreConversations`: each call of `Calls` and the handler of its
request fit together when one looks at this one call alone (`Conversation` in
ApiProtocol). `WellFormed`: it opens with a request and ends with a read, the
handler calls the driver, and no ErrorPacket is a reply.
`SameTypes`: the n-th packet that one side writes is of the type of the n-th that
the other reads. `TakeTurns`: when a reply is written, everything that the client
writes before it reads that reply has been read; when a driver call may
fail, nothing is left unread that the client wrote before its next reply.
That is a fact about the two tables and not about behaviours, and MCApiThreads
makes TLC evaluate it: it holds for all calls of the passing runs (built for OpenCL 2.1 or
later). It fails for `clSetKernelArg({"I"})` and `clEnqueueReadImage({"wait"})`
(section 3, the first two disagreements without a run) and for `clSetEventCallback` (run
ApiEventCallback), on which the code disagrees with itself. The theorems lift it to interleavings: threads that wait, buffers that
spill at any time, a full socket, failing commands, and losses at any point.
NeverBothWait also assumes `CallsAreUnblocked` (see below). LostConnectionIsReported
also assumes `CallsReportLoss`; TLC evaluates in MCApiThreads which calls do not
(`Silent`). CallsAreForwarded and SuccessIsTrue assume in addition
`CallsReportFailure`: an ErrorPacket makes the call return an error; TLC evaluates
that for all calls. `Silent` and `clSetEventCallback` are also where the code does not
implement RemoteCall.

`IInv == Types /\ LockInv /\ UpInv /\ CutInv /\ RanInv` (ProtocolTypes also has `SpinnersOnly`). None of the properties is inductive
alone: that a packet has the right type depends on how far both sides are. While
the connection is up, `UpInv` says so: there are a step `i` of the client and a step
`j` of the handler such that buffer and wire together hold, in order, the packets that the client has
written up to `i` and the server has not read up to `j`, and the same in the other direction
(`Talk`). The conversation is in one of four states: not begun, under way, a command has
failed, that was reported. In the last two nothing is on its way to the server,
which is what `TakeTurns` is for: otherwise the rest of a failed request would be
taken for the next one. After a loss the two sides drift apart, so `CutInv` has two
independent halves, of the server (`CutServer`: what arrived is the beginning of
what was sent) and of the client (`CutTalk`), in which a call that began too late
finds nothing to read.

NeverBothWait excludes the states in which a conversation is stuck: both sides at a
read with nothing on its way, because a packet was left in a write buffer or will not
be written; both at a write or a flush without room; or one of each.
`CallsAreUnblocked` (`Unblocked` in ApiProtocol) says for each call and its handler,
again of the tables alone, that each write is followed by a flush before its writer
reads (`Flushes`), that the two never come to a read at the same point of the
conversation (`NeverBothRead`), and that a handler writes all replies unless it
refuses (`Answers`). TLC evaluates that in MCApiThreads for all calls of the passing
runs. On top of `IInv` the proof has `DueInv`: what is in a write buffer has its flush
among the steps that its writer has left before a read, and a handler that refuses has
not carried its command out, so that its ErrorPacket is the reply that it owes. That
the two sides do not fill both directions of the socket follows from `TakeTurns`:
nothing is on its way to the server while a reply is. A server that waits in the
driver is not counted as waiting here; with a user event that is the deadlock of
section 3.

For the refinement the invariant also follows the command: `Talk` says how it has ended
in each of the four states, `CutTalk` that the replies left tell the truth about it
(`Told`), and `RanInv` for whom the server works after a loss (`Awaited`): only for a
thread that still waits and whose command has not ended, or for one that has given up.
Without that a late driver call could count for the next call of the same
thread. `Finish` maps to `Return`, the driver call that ends a command to `Execute`, and
everything else of a call is a stutter.

### SessionProofs

For every set of clients, all build options, any number of ports tried.

| Theorem | Says | Assumes |
|---|---|---|
| SocketsArePrivate | a client's socket is open in its child and, until it has forked, the parent | |
| OnlyCompatibleBuildsTalk | no request travels between incompatible builds | |
| EveryQuestionHasOneAnswer | the packet that waits is the one that is read next | `"event" \notin Failures` |
| EndsAgreeOnEvents | both ends agree on whether there is an event stream | `"event" \notin Failures` |

`IInv` says who has which socket open (`SocketInv`), that a client has one child and
one place in the backlog (`FreshInv`), that an incompatible client has sent nothing but
Terminate (`CompatibleInv`), and for each state of a client where its child is
and what is between them (`PhaseInv`). The assumption leaves out the failure for which
the code is wrong (section 3).

### EventStreamProofs

For any number of threads of the application and of the driver and every capacity,
assuming `FewCallbacks`: no application registers more callbacks than `IDType` has
numbers. (The code does not check that; a number used twice would run another
callback.)

| Theorem | Says |
|---|---|
| SignalsKeepTheirOrder | callbacks run once, in the order of `mEventMutex`, with their own status |
| EventStreamStaysInStep | the callback thread knows each trigger and reads the packet it expects |

A signal of an event is two packets and one of a program is one, so what is on
its way is described as a path from place to place (`Leads`), from what the callback
thread reads next to what the server writes next. Besides, the numbers in
calls, requests, driver and signals are those of callbacks in the list, of the right
kind (`CallInv`, `NamesInv`), and who writes holds `mEventMutex` (`MutexInv`).

### ObjectTableProofs

For every set of addresses, platforms, devices and IDs, and any number of references.

| Theorem | Says |
|---|---|
| Types | neither table grows past the IDs, nor the client's past the server's |
| HandlesKeepTheirObject | a handle means its object as long as the object lives |
| CountsStayEqual | retains and releases reach the object they are meant for |
| WrappersAreFound | the client finds the wrapper of each ID of an address or a platform, until the IDs run out |

The invariant needs that the server's table has no repeated entries (`TableInv`),
that the objects of a reply in progress are kept by the driver and their IDs are
those of the table (`CallInv`), that an object without a handle is being created
(`HeldInv`), and that each slot has a wrapper or will get it from the reply in progress (`SlotInv`).

### MappingProofs

For every finite set of threads and pointers, all values and flags, and every length of
the driver's queue.

| Theorem | Says |
|---|---|
| ReferencesBalance | one reference for the application and one per mapping that was returned and not released |
| MappingsAreNotPulledAway | a mapping stays while a thread uses it, and no two threads have the same |
| CurrentTransfers | blocking transfers, maps and unmaps carry values that the buffer had meanwhile |
| HandlerMemory | only unblocked writes and image reads outlive the memory of their handler |

The invariant needs where each thread is in its call (`ControlInv`), that it owns its
mapping (`OwnerInv`), that of the queue only the last command can belong to the handler
that runs (`QueueInv`), and what that handler's memory holds (`MemoryInv`). The
balance counts sets of threads and pointers, which is why these are finite.

### Only model-checked

- All liveness properties: TLAPS does not do fairness.
- That no run deadlocks: that is about `ENABLED`. (For the conversations NeverBothWait proves it
  as a property of states.)

## 5. Plan

All parts that keep protocol state are modelled, and both refinements and all invariants of
the runs are proved. What is left is out of the provers' reach
(section 4, only model-checked), or waits for the code: the calls and failures of
section 3 would have to be corrected before theorems can include them.

## 6. Not modelled

The dispatch table (`client/icd.cpp`, `exports.def`) is constant data. zlib, the
OpenCL driver and TCP are external and appear as what the code sees of them. The
build files choose constants. The parsing of `REMOTECL` and of the command line and
log output hold no protocol state. Left out on purpose, each with what it costs:

- the build with threads instead of `fork` (`server/main.cpp` lines 88 to 95) and
  Windows: another program structure, in which sockets are not copied;
- failing allocations in the middle of a packet or of a conversation: they would take a step per
  member; `hazards` names the two places where they matter;
- what calls store through output pointers other than handles, and the values that
  handlers translate: data without control; a few hazards are about them;
- signals: SIGPIPE, and a `send` that a signal interrupts (the program handles none);
- what a process does while it exits, beyond sending Terminate.

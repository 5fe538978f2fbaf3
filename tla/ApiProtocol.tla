----------------------------- MODULE ApiProtocol -----------------------------
(***************************************************************************)
(* The forwarding of OpenCL calls: the threads of the application in the   *)
(* client library, one LockedConnection between them, the two streams of   *)
(* packets and the ServerInstance that serves them.                        *)
(*                                                                         *)
(* Each side runs the steps that ClientCalls and ServerHandlers give it.   *)
(* A stream is a write buffer and the packets on the wire.  A packet is    *)
(* here or not here as a whole: a reader waits for the rest of a packet as *)
(* it waits for the packet.  When the connection is lost a read throws, or *)
(* it goes round for ever, if a payload is what is missing (SocketStream). *)
(***************************************************************************)
EXTENDS ClientCalls, ServerHandlers, FiniteSets

CONSTANTS Threads,    \* the threads of the application
          NoThread,   \* not a thread
          Calls,      \* the calls they may make
          Failures,   \* what may go wrong: "driver", "cut", "nostream"
          Capacity    \* bound: how many packets the socket takes per direction

ASSUME ProtocolAssumption ==
  /\ NoThread \notin Threads
  /\ \A c \in Calls : c \in CallType
  /\ Failures \subseteq {"driver", "cut", "nostream"}
  /\ Capacity \in Nat \ {0}

VARIABLES
  \* The client.
  haveStream,  \* Connection::mStream is set
  lock,        \* the holder of Connection::mMutex
  phase,       \* phase[t]: "idle", "called" (before get()) or "locked"
  call,        \* call[t]: the call thread t is in
  todo,        \* todo[t]: the steps of that call that are left
  result,      \* result[t]: what t's last call returned
  client,      \* "running", "exited" or "aborted" (an assertion failed)
  \* The streams.
  link,        \* "up" or "cut"
  cbuf, c2s,   \* client to server: write buffer and wire
  sbuf, s2c,   \* server to client: write buffer and wire
  \* The server.
  server,      \* "idle", "handling", "ended" or "aborted"
  job,         \* the steps of the handler that are left
  request,     \* the packet the handler serves
  userEvent,   \* "pending" or "complete": a user event of the application
  \* The reads that have no end.
  spinning,    \* the sides, "client" and "server", that are in such a read
  \* History, for the properties.
  ran,         \* ran[t]: "no", or how the command of t's call ended
  orphans,     \* threads that gave up a call because the connection failed
  late         \* late[t]: t's call began without a connection

clientVars == <<haveStream, lock, phase, call, todo, result, client, orphans, late>>
streamVars == <<link, cbuf, c2s, sbuf, s2c>>
serverVars == <<server, job, request, userEvent>>
vars == <<clientVars, streamVars, serverVars, spinning, ran>>

NoCall == Call("none", {}, << >>)
Packet(ty, opts, by) == [ty |-> ty, opts |-> opts, by |-> by]
NoPacket == Packet("none", {}, NoThread)

Init ==
  /\ haveStream \in IF "nostream" \in Failures THEN BOOLEAN ELSE {TRUE}
  /\ lock = NoThread
  /\ phase = [t \in Threads |-> "idle"]
  /\ call = [t \in Threads |-> NoCall]
  /\ todo = [t \in Threads |-> << >>]
  /\ result = [t \in Threads |-> "none"]
  /\ client = "running"
  /\ link = IF haveStream THEN "up" ELSE "cut"
  /\ cbuf = << >> /\ c2s = << >> /\ sbuf = << >> /\ s2c = << >>
  /\ server = "idle" /\ job = << >> /\ request = NoPacket
  /\ userEvent = "pending"
  /\ spinning = {}
  /\ ran = [t \in Threads |-> "no"]
  /\ orphans = {}
  /\ late = [t \in Threads |-> FALSE]

Front(s, k) == SubSeq(s, 1, k)
Rest(s, k)  == SubSeq(s, k + 1, Len(s))

\* SocketStream::read of BufferSize bytes or more (socketstream.cpp lines 30-36):
\* at the end of the stream it receives nothing, again and again.  Of all packets
\* only these payloads are read in pieces of that size.
LargeReads == {"Pay16", "Pay32"}

-----------------------------------------------------------------------------
(* The connection is lost: packets on their way may be lost, from some one  *)
(* on.  What is in a write buffer, or is written later, reaches nobody; it  *)
(* matters only whether there is something, because flush() of an empty     *)
(* buffer does not touch the socket.                                        *)

Lose ==
  /\ link' = "cut"
  /\ \E n \in 0 .. Len(c2s) : c2s' = Front(c2s, n)
  /\ \E n \in 0 .. Len(s2c) : s2c' = Front(s2c, n)
  /\ UNCHANGED <<cbuf, sbuf>>

Cut ==
  /\ "cut" \in Failures /\ link = "up"
  /\ Lose
  /\ UNCHANGED <<clientVars, serverVars, ran>>

-----------------------------------------------------------------------------
(* A thread of the application. *)

\* The application calls c.
Invoke(t, c) ==
  /\ client = "running" /\ phase[t] = "idle"
  /\ phase' = [phase EXCEPT ![t] = "called"]
  /\ call' = [call EXCEPT ![t] = c]
  /\ todo' = [todo EXCEPT ![t] = c.steps]
  /\ result' = [result EXCEPT ![t] = "none"]
  /\ ran' = [ran EXCEPT ![t] = "no"]
  /\ late' = [late EXCEPT ![t] = link = "cut"]
  /\ UNCHANGED <<haveStream, lock, client, orphans, streamVars, serverVars>>

\* The call of t ends with result r; the LockedConnection is destroyed.
Finish(t, r) ==
  /\ phase' = [phase EXCEPT ![t] = "idle"]
  /\ call' = [call EXCEPT ![t] = NoCall]
  /\ todo' = [todo EXCEPT ![t] = << >>]
  /\ result' = [result EXCEPT ![t] = r]
  /\ lock' = IF lock = t THEN NoThread ELSE lock
  /\ UNCHANGED <<haveStream, client, late>>

\* The arguments are refused before the connection is used.
Reject(t) ==
  /\ client = "running" /\ phase[t] = "called"
  /\ Finish(t, "INVALID")
  /\ UNCHANGED <<orphans, streamVars, serverVars, ran>>

\* Mutated form: the connection is handed out without its lock.
AcquireAnyway(t) ==
  /\ client = "running" /\ phase[t] = "called"
  /\ \/ /\ haveStream
        /\ lock' = t
        /\ phase' = [phase EXCEPT ![t] = "locked"]
        /\ UNCHANGED <<haveStream, call, todo, result, client, orphans, late>>
     \/ /\ ~haveStream
        /\ Finish(t, call[t].nostream)
        /\ UNCHANGED orphans
  /\ UNCHANGED <<streamVars, serverVars, ran>>

\* gConnection.get(): the lock is taken; without a stream it throws, which
\* gives the lock back.
Acquire(t) ==
  /\ client = "running" /\ phase[t] = "called" /\ lock = NoThread
  /\ \/ /\ haveStream
        /\ lock' = t
        /\ phase' = [phase EXCEPT ![t] = "locked"]
        /\ UNCHANGED <<haveStream, call, todo, result, client, orphans, late>>
     \/ /\ ~haveStream
        /\ Finish(t, call[t].nostream)
        /\ UNCHANGED orphans
  /\ UNCHANGED <<streamVars, serverVars, ran>>

At(t, do) ==
  /\ client = "running" /\ phase[t] = "locked"
  /\ todo[t] # << >> /\ Head(todo[t]).do = do

Proceed(t) ==
  /\ todo' = [todo EXCEPT ![t] = Tail(@)]
  /\ UNCHANGED <<haveStream, lock, phase, call, result, client, orphans, late>>

\* Mutated form: the error of the socket is taken for the end of the data.
ThrowsNot(t) == Proceed(t)

\* Socket::Error reaches the catch clauses of the call.
Throws(t) ==
  /\ Finish(t, call[t].loss)
  /\ orphans' = orphans \cup {t}

\* write(): the packet is buffered, and the buffer may spill to the socket.
ClientWrite(t) ==
  LET packet == Packet(Head(todo[t]).ty, call[t].opts, t)
      all    == Append(cbuf, packet)
  IN  /\ At(t, "write")
      /\ \/ /\ link = "up"
            /\ \E k \in 0 .. Len(all) :
                 /\ Len(c2s) + k <= Capacity \/ k = 0
                 /\ c2s' = c2s \o Front(all, k)
                 /\ cbuf' = Rest(all, k)
            /\ Proceed(t)
         \/ link = "cut" /\ cbuf' \in {<< >>, <<packet>>} /\ Proceed(t) /\ UNCHANGED c2s
         \/ link = "cut" /\ cbuf' = <<packet>> /\ Throws(t) /\ UNCHANGED c2s
      /\ UNCHANGED <<link, sbuf, s2c, serverVars, ran>>

\* flush(): send() blocks until the socket has taken everything.
ClientFlush(t) ==
  /\ At(t, "flush")
  /\ \/ cbuf = << >> /\ Proceed(t) /\ UNCHANGED <<cbuf, c2s>>
     \/ /\ link = "up"
        /\ \E k \in 1 .. Len(cbuf) :
             /\ Len(c2s) + k <= Capacity
             /\ c2s' = c2s \o Front(cbuf, k)
             /\ cbuf' = Rest(cbuf, k)
             /\ IF k = Len(cbuf) THEN Proceed(t) ELSE UNCHANGED clientVars
     \/ link = "cut" /\ cbuf # << >> /\ cbuf' = << >> /\ Proceed(t) /\ UNCHANGED c2s
     \/ link = "cut" /\ cbuf # << >> /\ Throws(t) /\ UNCHANGED <<cbuf, c2s>>
  /\ UNCHANGED <<link, sbuf, s2c, serverVars, ran>>

\* read<ty>(): the next packet is the expected one, or an ErrorPacket, which
\* is thrown; a lost connection throws.  A packet of another type fails the
\* assertion, which ends the process.  (Two payloads of different encodings
\* pass it and are misread; what that leads to is not modelled, and the
\* process counts as aborted.)
ClientRead(t) ==
  /\ At(t, "read") /\ "client" \notin spinning
  /\ \/ /\ s2c # << >> /\ Head(s2c).ty = Head(todo[t]).ty
        /\ s2c' = Tail(s2c)
        /\ Proceed(t)
        /\ UNCHANGED <<link, cbuf, c2s, sbuf>>
     \/ /\ s2c # << >> /\ Head(s2c).ty = "Error"
        /\ s2c' = Tail(s2c)
        /\ Finish(t, call[t].error)
        /\ UNCHANGED <<link, cbuf, c2s, sbuf, orphans>>
     \/ /\ s2c = << >> /\ link = "cut"
        /\ Throws(t)
        /\ UNCHANGED streamVars
     \/ /\ s2c # << >> /\ Head(s2c).ty \notin {Head(todo[t]).ty, "Error"}
        /\ client' = "aborted"
        /\ Lose
        /\ UNCHANGED <<haveStream, lock, phase, call, todo, result, orphans, late>>
  /\ UNCHANGED <<serverVars, ran>>

\* The same read, of a large payload whose size arrived and whose data did not.
ClientSpins(t) ==
  /\ At(t, "read") /\ Head(todo[t]).ty \in LargeReads
  /\ s2c = << >> /\ link = "cut"
  /\ spinning' = spinning \cup {"client"}
  /\ UNCHANGED <<clientVars, streamVars, serverVars, ran>>

\* The last step was taken: the call returns CL_SUCCESS.
Return(t) ==
  /\ client = "running" /\ phase[t] = "locked" /\ todo[t] = << >>
  /\ Finish(t, "SUCCESS")
  /\ UNCHANGED <<orphans, streamVars, serverVars, ran>>

\* Mutated form: the process ends without closing the connection.
ExitOpen ==
  /\ client = "running" /\ \A t \in Threads : phase[t] = "idle"
  /\ client' = "exited"
  /\ UNCHANGED <<haveStream, lock, phase, call, todo, result, orphans, late,
                 streamVars, serverVars, ran>>

\* ~Connection: the process ends.  Terminate is sent if that works, and the
\* socket is closed.
Exit ==
  /\ client = "running" /\ \A t \in Threads : phase[t] = "idle"
  /\ client' = "exited"
  /\ link' = "cut"
  /\ c2s' = IF haveStream /\ link = "up" THEN c2s \o cbuf \o <<Packet("Terminate", {}, NoThread)>>
                                         ELSE c2s
  /\ cbuf' = << >> /\ sbuf' = << >> /\ s2c' = << >>
  /\ UNCHANGED <<haveStream, lock, phase, call, todo, result, orphans, late, serverVars, ran>>

-----------------------------------------------------------------------------
(* The server. *)

\* run() ends, and with it the process: the socket is closed.
ServerStops(how) ==
  /\ server' = how
  /\ job' = << >> /\ request' = NoPacket
  /\ link' = "cut"
  /\ c2s' = << >> /\ sbuf' = << >>
  /\ \E n \in 0 .. Len(s2c) : s2c' = Front(s2c, n)
  /\ UNCHANGED <<userEvent, cbuf>>

\* handleNextPacket(): the type of the next packet chooses the handler.  run()
\* flushes the stream after every packet.  Terminate, no more data and a type
\* the client should not send end run(); a stray payload fails an assertion.
ServerPeek ==
  /\ server = "idle"
  /\ \/ /\ c2s # << >> /\ Head(c2s).ty \in Requests
        /\ server' = "handling"
        /\ request' = Head(c2s)
        /\ job' = Append(Handlers(Head(c2s).opts)[Head(c2s).ty], F)
        /\ UNCHANGED <<userEvent, streamVars>>
     \/ /\ c2s # << >> /\ Head(c2s).ty \notin Requests
        /\ ServerStops(IF Head(c2s).ty \in Payloads THEN "aborted" ELSE "ended")
     \/ /\ c2s = << >> /\ link = "cut"
        /\ ServerStops("ended")
  /\ UNCHANGED <<clientVars, ran>>

Doing(do) == server = "handling" /\ job # << >> /\ Head(job).do = do

ServerGoesOn(steps) ==
  /\ job' = steps
  /\ IF steps = << >> THEN server' = "idle" /\ request' = NoPacket
                      ELSE server' = "handling" /\ UNCHANGED request

\* read<ty>(): Terminate, or no more data, throws Socket::Error, which ends
\* run(); any other unexpected packet fails the assertion.
ServerRead ==
  /\ Doing("read") /\ "server" \notin spinning
  /\ \/ /\ c2s # << >> /\ Head(c2s).ty = Head(job).ty
        /\ c2s' = Tail(c2s)
        /\ ServerGoesOn(Tail(job))
        /\ UNCHANGED <<link, cbuf, sbuf, s2c, userEvent>>
     \/ /\ IF c2s = << >> THEN link = "cut" ELSE Head(c2s).ty = "Terminate"
        /\ ServerStops("ended")
     \/ /\ c2s # << >> /\ Head(c2s).ty \notin {Head(job).ty, "Terminate"}
        /\ ServerStops("aborted")
  /\ UNCHANGED <<clientVars, ran>>

\* The same read, of a large payload whose size arrived and whose data did not:
\* run() does not come back, and the process stays.
ServerSpins ==
  /\ Doing("read") /\ Head(job).ty \in LargeReads
  /\ c2s = << >> /\ link = "cut"
  /\ spinning' = spinning \cup {"server"}
  /\ UNCHANGED <<clientVars, streamVars, serverVars, ran>>

ServerWrite ==
  LET packet == Packet(Head(job).ty, {}, request.by)
      all    == Append(sbuf, packet)
  IN  /\ Doing("write")
      /\ \/ /\ link = "up"
            /\ \E k \in 0 .. Len(all) :
                 /\ Len(s2c) + k <= Capacity \/ k = 0
                 /\ s2c' = s2c \o Front(all, k)
                 /\ sbuf' = Rest(all, k)
            /\ ServerGoesOn(Tail(job))
            /\ UNCHANGED <<link, cbuf, c2s, userEvent>>
         \/ /\ link = "cut"
            /\ sbuf' \in {<< >>, <<packet>>}
            /\ ServerGoesOn(Tail(job))
            /\ UNCHANGED <<link, cbuf, c2s, s2c, userEvent>>
         \/ link = "cut" /\ ServerStops("ended")
      /\ UNCHANGED <<clientVars, ran>>

ServerFlush ==
  /\ Doing("flush")
  /\ \/ sbuf = << >> /\ ServerGoesOn(Tail(job)) /\ UNCHANGED <<streamVars, userEvent>>
     \/ /\ link = "up"
        /\ \E k \in 1 .. Len(sbuf) :
             /\ Len(s2c) + k <= Capacity
             /\ s2c' = s2c \o Front(sbuf, k)
             /\ sbuf' = Rest(sbuf, k)
             /\ ServerGoesOn(IF k = Len(sbuf) THEN Tail(job) ELSE job)
        /\ UNCHANGED <<link, cbuf, c2s, userEvent>>
     \/ /\ link = "cut" /\ sbuf # << >> /\ sbuf' = << >>
        /\ ServerGoesOn(Tail(job))
        /\ UNCHANGED <<link, cbuf, c2s, s2c, userEvent>>
     \/ link = "cut" /\ sbuf # << >> /\ ServerStops("ended")
  /\ UNCHANGED <<clientVars, ran>>

\* The command of the request ended; the thread that waits for it may have
\* given up.
Ended(outcome) ==
  ran' = IF request.by \in orphans THEN ran ELSE [ran EXCEPT ![request.by] = outcome]

\* Mutated form: a failure is answered like a success.
FailureNot(step, rest) == rest

\* What is left to do when a command fails: the handler writes the ErrorPacket
\* and returns to run(), which flushes; after a "report" or a "refuse" it goes
\* on.
Failure(step, rest) ==
  <<W("Error")>> \o IF step.do \in {"report", "refuse"} THEN rest ELSE <<F>>

\* The driver is called and answers.
ServerCall ==
  LET step == Head(job)
      rest == Tail(job)
  IN  /\ \E do \in Commands : Doing(do)
      /\ step.do = "await" => userEvent = "complete"
      /\ \/ /\ step.do # "refuse"
            /\ ServerGoesOn(rest)
            /\ userEvent' = IF step.do = "complete" THEN "complete" ELSE userEvent
            /\ IF NoCommand(rest) THEN Ended("ok") ELSE UNCHANGED ran
         \/ /\ "driver" \in Failures \/ step.do = "refuse"
            /\ ServerGoesOn(Failure(step, rest))
            /\ Ended("failed")
            /\ UNCHANGED userEvent
      /\ UNCHANGED <<clientVars, streamVars>>

-----------------------------------------------------------------------------
HolderStep(t) ==
  ClientWrite(t) \/ ClientFlush(t) \/ ClientRead(t) \/ Return(t)

ServerStep ==
  ServerPeek \/ ServerRead \/ ServerWrite \/ ServerFlush \/ ServerCall

\* What goes on, and does not get stuck in a read.
Step ==
  \/ \E t \in Threads : \/ \E c \in Calls : Invoke(t, c)
                        \/ Reject(t) \/ Acquire(t) \/ HolderStep(t)
  \/ ServerStep
  \/ Cut \/ Exit

\* Both processes are gone.
Over == client # "running" /\ server \in {"ended", "aborted"} /\ UNCHANGED vars

Next ==
  \/ Step /\ UNCHANGED spinning
  \/ \E t \in Threads : ClientSpins(t)
  \/ ServerSpins
  \/ Over

Spec == Init /\ [][Next]_vars

\* A thread that has the connection goes on with its call, and so does the
\* server; a driver call returns.  Nobody has to call, to exit or to cut.
Fairness ==
  /\ \A t \in Threads : WF_vars((HolderStep(t) /\ UNCHANGED spinning) \/ ClientSpins(t))
  /\ WF_vars((ServerStep /\ UNCHANGED spinning) \/ ServerSpins)

FairSpec == Spec /\ Fairness

-----------------------------------------------------------------------------
(* Calls on which the two sides agree.  The client and the handler of its   *)
(* request count what they write and read: the n-th packet that one writes  *)
(* is the n-th that the other reads.                                        *)

\* The steps of the handler of call c, and of run() after it.
Handler(c) == Append(Handlers(c.opts)[c.steps[1].ty], F)

\* How many of the first i steps of s are of this kind.
HowMany(s, do, i) == Cardinality({k \in 1 .. i : s[k].do = do})

\* What the client has written (Out) and read (In) after i steps of its call,
\* and the server (Got, Put) after j steps of its handler.
Out(c, i) == HowMany(c.steps, "write", i)
In(c, i)  == HowMany(c.steps, "read", i)
Got(c, j) == HowMany(Handler(c), "read", j)
Put(c, j) == HowMany(Handler(c), "write", j)

\* A call opens with its request and ends with a reply, and the driver is called
\* for it; an ErrorPacket is never what it waits for, nor a reply.
WellFormed(c) ==
  /\ c.steps # << >> /\ c.steps[1].do = "write" /\ c.steps[1].ty \in Requests
  /\ c.steps[Len(c.steps)].do = "read"
  /\ \A i \in 1 .. Len(c.steps) :
       c.steps[i].do \in {"write", "flush", "read"} /\ c.steps[i].ty # "Error"
  /\ Handlers(c.opts)[c.steps[1].ty] \in Seq(Steps)
  /\ \E j \in 1 .. Len(Handler(c)) : Handler(c)[j].do \in Commands
  /\ \A j \in 1 .. Len(Handler(c)) :
       /\ Handler(c)[j].do # "report" /\ Handler(c)[j].ty # "Error"
       /\ Handler(c)[j].do = "refuse" => j = Len(Handler(c)) - 1

\* The n-th packet written and the n-th read are of one type; there are as many
\* of these as of those, but for a handler that refuses, which leaves a reply out.
SameTypes(c) ==
  /\ \A i \in 1 .. Len(c.steps), j \in 1 .. Len(Handler(c)) :
       /\ c.steps[i].do = "write" /\ Handler(c)[j].do = "read" /\ Out(c, i) = Got(c, j) =>
            c.steps[i].ty = Handler(c)[j].ty
       /\ c.steps[i].do = "read" /\ Handler(c)[j].do = "write" /\ In(c, i) = Put(c, j) =>
            c.steps[i].ty = Handler(c)[j].ty
  /\ Out(c, Len(c.steps)) = Got(c, Len(Handler(c)))
  /\ Put(c, Len(Handler(c))) <= In(c, Len(c.steps))

\* The sides take turns.  A reply is written when the server has read all that
\* the client writes before it reads that reply; at a driver call, which may
\* fail, nothing is left unread that the client wrote before its next reply;
\* and whatever else a handler does is followed by a reply.
TakeTurns(c) ==
  \A j \in 1 .. Len(Handler(c)) :
    /\ Handler(c)[j].do = "write" =>
         \A i \in 1 .. Len(c.steps) :
           c.steps[i].do \in {"write", "flush"} /\ Put(c, j) > In(c, i) => Got(c, j) >= Out(c, i)
    /\ Handler(c)[j].do \in Commands =>
         \A i \in 1 .. Len(c.steps) :
           c.steps[i].do = "write" /\ Out(c, i) > Got(c, j) => In(c, i) > Put(c, j)
    /\ j < Len(Handler(c)) /\ Handler(c)[j].do # "write" => Put(c, j) < In(c, Len(c.steps))

Conversation(c) == WellFormed(c) /\ SameTypes(c) /\ TakeTurns(c)

\* In steps s a flush comes, and before it no read.
FlushDue(s) ==
  \E q \in 1 .. Len(s) : s[q].do = "flush" /\ \A k \in 1 .. q : s[k].do # "read"

\* What is written is flushed before its writer reads again, and is flushed at all.
Flushes(s) ==
  \A i \in 1 .. Len(s) : s[i].do = "write" => FlushDue(SubSeq(s, i + 1, Len(s)))

\* The two sides do not come to a read while everything written before is read.
NeverBothRead(c) ==
  \A i \in 1 .. Len(c.steps), j \in 1 .. Len(Handler(c)) :
    c.steps[i].do = "read" /\ Handler(c)[j].do = "read" =>
      In(c, i) # Put(c, j) + 1 \/ Got(c, j) # Out(c, i) + 1

\* The handler of c refuses.
Refuses(c) == \E j \in 1 .. Len(Handler(c)) : Handler(c)[j].do = "refuse"

\* A handler that does not refuse writes every reply that the client waits for.
Answers(c) == Refuses(c) \/ Put(c, Len(Handler(c))) = In(c, Len(c.steps))

\* A call and a handler that do not leave each other waiting.
Unblocked(c) == Flushes(c.steps) /\ Flushes(Handler(c)) /\ NeverBothRead(c) /\ Answers(c)

\* A call that tells the application that the connection is lost.
ReportsLoss(c) == c.loss = "NOT_AVAILABLE" /\ c.nostream = "NOT_AVAILABLE"

\* A call that tells the application that its command failed.
ReportsFailure(c) == c.error \in {"ERROR", "NOT_AVAILABLE"}

-----------------------------------------------------------------------------
(* Properties. *)

\* The variables keep their ranges, and the server is inside a handler exactly
\* while that handler has steps left (run, handleNextPacket).
TypeOK ==
  /\ haveStream \in BOOLEAN /\ lock \in Threads \cup {NoThread}
  /\ phase \in [Threads -> {"idle", "called", "locked"}]
  /\ \A t \in Threads : call[t] \in Calls \cup {NoCall}
  /\ result \in [Threads -> Results \cup {"none"}]
  /\ client \in {"running", "exited", "aborted"}
  /\ link \in {"up", "cut"}
  /\ server \in {"idle", "handling", "ended", "aborted"}
  /\ server = "handling" <=> job # << >>
  /\ userEvent \in {"pending", "complete"}
  /\ spinning \subseteq {"client", "server"}
  /\ ran \in [Threads -> {"no", "ok", "failed"}]
  /\ orphans \subseteq Threads /\ late \in [Threads -> BOOLEAN]

\* "assert(ty == packet.mType)" (PacketStream::read, packetstream.h line 44),
\* with the body encoding included: whoever reads finds the packet it expects,
\* or an ErrorPacket in place of a reply.  "The client shouldn't send these
\* packet types" (handleNextPacket, instance.cpp line 308): between two requests
\* the server finds nothing but the beginning of the next one.
TypesAgree ==
  /\ \A t \in Threads : At(t, "read") /\ s2c # << >> =>
       Head(s2c).ty \in {Head(todo[t]).ty, "Error"}
  /\ Doing("read") /\ c2s # << >> => Head(c2s).ty \in {Head(job).ty, "Terminate"}
  /\ server = "idle" /\ c2s # << >> => Head(c2s).ty \in Requests \cup {"Terminate"}

\* While a thread has the connection, nothing that another thread sent, or
\* that was sent to another thread, is in the streams or in the server: a
\* reply is never taken by the wrong caller (connection.h lines 82-93).
OwnPackets ==
  lock # NoThread /\ link = "up" =>
    /\ \A s \in {cbuf, c2s, sbuf, s2c} : \A i \in 1 .. Len(s) : s[i].by = lock
    /\ server = "handling" /\ ~NoCommand(job) => request.by = lock

\* When no thread has the connection, both streams are empty and the server
\* has nothing left to do but the flush that ends run()'s loop: no call leaves
\* anything behind for the next one.
QuietBetweenCalls ==
  lock = NoThread /\ link = "up" =>
    /\ cbuf = << >> /\ c2s = << >> /\ sbuf = << >> /\ s2c = << >>
    /\ job \in {<< >>, <<F>>}

\* Thread t waits: for a packet, or for room in the socket.  (A write may have to
\* spill the whole buffer.)
ClientWaits(t) ==
  \/ At(t, "read") /\ s2c = << >>
  \/ At(t, "write") /\ Len(c2s) >= Capacity
  \/ At(t, "flush") /\ cbuf # << >> /\ Len(c2s) >= Capacity

\* And so does the server.
ServerWaits ==
  \/ (server = "idle" \/ Doing("read")) /\ c2s = << >>
  \/ Doing("write") /\ Len(s2c) >= Capacity
  \/ Doing("flush") /\ sbuf # << >> /\ Len(s2c) >= Capacity

\* Never do both sides wait for each other, however little the socket takes:
\* with a read on each side, because a question or a reply was left in a write
\* buffer (setKernelArg, program.cpp line 396; run, instance.cpp line 328) or
\* was never written; or with a full socket in each direction.
SomeoneGoesOn ==
  link = "up" => \A t \in Threads : ~(ClientWaits(t) /\ ServerWaits)

\* "The command was completed successfully" (PacketType::Success, packet.h line
\* 36): CL_SUCCESS is returned for a command that the driver carried out.
SuccessMeansExecuted ==
  \A t \in Threads : result[t] = "SUCCESS" => ran[t] = "ok"

\* "If, for some reason, the connection is dropped or cut, the OpenCL calls
\* will start returning CL_DEVICE_NOT_AVAILABLE" (README.md line 41): every
\* call that begins after that does, unless its arguments are refused.
DroppedMeansNotAvailable ==
  \A t \in Threads : late[t] => result[t] \in {"none", "NOT_AVAILABLE", "INVALID"}

Remote == INSTANCE RemoteCall WITH active <- [t \in Threads |-> phase[t] # "idle"]

\* Locking, streams, handlers and the reporting of errors together forward
\* calls: each command is carried out at most once, and its result is the one
\* that its caller gets.
ImplementsRemoteCall == Remote!Spec

\* A thread that took the connection gives it back, whatever the driver
\* answers and whenever the connection is lost, unless its process ends by a
\* failed assertion: neither side ever waits for a packet that the other still
\* has in its write buffer or will not send (setKernelArg, program.cpp line
\* 396; run, instance.cpp line 328).  The one exception is the read of a large
\* payload on a lost connection (socketstream.cpp line 32).
HolderReleases ==
  \A t \in Threads : lock = t ~> (lock # t \/ client = "aborted" \/ "client" \in spinning)

\* A server whose client is gone ends, even in the middle of a request (run,
\* instance.cpp line 328), unless it is reading a large payload: then it stays
\* for ever, and uses all the time of a processor (socketstream.cpp line 32).
ServerEnds ==
  (link = "cut" \/ client # "running") ~>
    (server \in {"ended", "aborted"} \/ "server" \in spinning)
=============================================================================

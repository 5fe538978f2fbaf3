----------------------------- MODULE EventStream -----------------------------
(***************************************************************************)
(* Callbacks.  The client registers a callback and names it in a request;  *)
(* a thread of the server's driver writes a trigger to the event stream;   *)
(* the client's callback thread reads it and runs the callback.            *)
(*                                                                         *)
(* Three mutexes meet here: mMutex, the lock of the connection;            *)
(* mCallbackMutex, which guards the list of callbacks; and mEventMutex of   *)
(* the server, which guards the event stream.  The model begins with the   *)
(* event stream established, or without one (see Session).  A conversation *)
(* on the API stream is a request and its reply (see ApiProtocol).         *)
(***************************************************************************)
EXTENDS Integers, Sequences, FiniteSets

CONSTANTS Threads,    \* threads of the application
          Callback,   \* the client's callback thread
          Drivers,    \* threads of the server's driver
          Main,       \* the server's own thread, when the driver calls back in it
          Nobody,     \* holds a free mutex
          Apps,       \* what applications do, see App
          Codes,      \* execution status an event may end with (cl_int)
          Capacity,   \* bound: packets the event socket takes
          Failures    \* what may go wrong: "cut", "noevents"

Callers == Threads \cup {Callback}
Signallers == Drivers \cup {Main}
Ops == {"plain", "set", "compile", "link"}

\* An application: what its threads call, what its callbacks call, and (a
\* bound) how many callbacks it registers.
App == [ops : SUBSET Ops, inside : SUBSET Ops, max : Nat]

ASSUME EventAssumption ==
  /\ IsFiniteSet(Threads) /\ Callback \notin Threads /\ Main \notin Drivers
  /\ Nobody \notin Callers \cup Signallers
  /\ Apps \subseteq App /\ Codes \subseteq Int
  /\ Capacity \in Nat \ {0} /\ Failures \subseteq {"cut", "noevents"}

IDLimit == 65536   \* IDType is uint16_t

VARIABLES
  app,            \* the application
  client,         \* "running", "exited" or "aborted"
  mMutex, mCallbackMutex, mEventMutex,
  op,             \* op[t]: the call that t is in, or "none"
  stage,          \* stage[t]: where t is in it
  cbid,           \* cbid[t]: the callback that t's call registered, or -1
  mCallbacks,     \* Connection::mCallbacks: the kind of each callback
  hasEvents,      \* Connection::mEventStream is set
  handler,        \* where the callback thread is
  index,          \* the trigger it works on
  request, reply, \* the API stream
  server,         \* "idle", "signalling", "ended" or "crashed"
  armed,          \* callbacks the driver will call
  signal,         \* signal[d]: the callback d is delivering
  mEventStream,   \* ServerInstance::mEventStream is set
  link,           \* the event connection: "up" or "cut"
  ebuf, ewire,    \* its write buffer and the packets under way
  fired, ran      \* history: callbacks that were signalled and that were run

callVars   == <<op, stage, cbid, mMutex>>
handlerVars == <<handler, index, hasEvents>>
serverVars == <<server, armed, signal, mEventMutex, mEventStream>>
wireVars   == <<link, ebuf, ewire>>
vars == <<app, client, mCallbackMutex, mCallbacks, callVars, handlerVars, request, reply,
          serverVars, wireVars, fired, ran>>

None == [op |-> "none", id |-> -1, by |-> Nobody]
NoSignal == [at |-> "none", id |-> -1, kind |-> "none", code |-> 0]

Init ==
  /\ app \in Apps /\ client = "running"
  /\ mMutex = Nobody /\ mCallbackMutex = Nobody /\ mEventMutex = Nobody
  /\ op = [t \in Callers |-> "none"]
  /\ stage = [t \in Callers |-> "idle"]
  /\ cbid = [t \in Callers |-> -1]
  /\ mCallbacks = << >>
  /\ hasEvents \in IF "noevents" \in Failures THEN BOOLEAN ELSE {TRUE}
  /\ handler = IF hasEvents THEN "wait" ELSE "ended"
  /\ index = -1
  /\ request = None /\ reply = Nobody
  /\ server = "idle" /\ armed = {}
  /\ signal = [d \in Signallers |-> NoSignal]
  /\ mEventStream = hasEvents
  /\ link = IF hasEvents THEN "up" ELSE "cut"
  /\ ebuf = << >> /\ ewire = << >>
  /\ fired = << >> /\ ran = << >>

Alive == client = "running"
Serving == server \in {"idle", "signalling"}

-----------------------------------------------------------------------------
(* A call, by a thread of the application or inside a callback. *)

\* How many callbacks there are or will be.
Registrations ==
  Len(mCallbacks) + Cardinality({t \in Callers : op[t] \in {"set", "compile"} /\
                                                 stage[t] \in {"get", "register"}})

\* clSetEventCallback asks for the event stream before it takes the lock.
Enter(t, o) ==
  /\ Alive /\ stage[t] = "idle"
  /\ o \in {"set", "compile"} => Registrations < app.max
  /\ o = "set" => hasEvents
  /\ op' = [op EXCEPT ![t] = o]
  /\ stage' = [stage EXCEPT ![t] = "get"]
  /\ cbid' = [cbid EXCEPT ![t] = -1]

Start(t, o) ==
  /\ t \in Threads /\ o \in app.ops
  /\ Enter(t, o)
  /\ UNCHANGED <<app, client, mMutex, mCallbackMutex, mCallbacks, handlerVars, request, reply,
                 serverVars, wireVars, fired, ran>>

\* gConnection.get().  clCompileProgram asks for the event stream now.
Lock(t) ==
  /\ Alive /\ stage[t] = "get" /\ mMutex = Nobody
  /\ mMutex' = t
  /\ stage' = [stage EXCEPT ![t] =
       IF op[t] = "set" \/ (op[t] = "compile" /\ hasEvents) THEN "register" ELSE "send"]
  /\ UNCHANGED <<app, client, op, cbid, mCallbackMutex, mCallbacks, handlerVars, request, reply,
                 serverVars, wireVars, fired, ran>>

\* Mutated form: size() where size()-1 is meant.
RegisterSize(t) ==
  /\ Alive /\ stage[t] = "register" /\ mCallbackMutex = Nobody
  /\ cbid' = [cbid EXCEPT ![t] = Len(mCallbacks) + 1]
  /\ mCallbacks' = Append(mCallbacks, IF op[t] = "set" THEN "event" ELSE "program")
  /\ stage' = [stage EXCEPT ![t] = "send"]
  /\ UNCHANGED <<app, client, op, mMutex, mCallbackMutex, handlerVars, request, reply,
                 serverVars, wireVars, fired, ran>>

\* registerCallback(): under mCallbackMutex, while the connection is held.
Register(t) ==
  /\ Alive /\ stage[t] = "register" /\ mCallbackMutex = Nobody
  /\ cbid' = [cbid EXCEPT ![t] = Len(mCallbacks)]
  /\ mCallbacks' = Append(mCallbacks, IF op[t] = "set" THEN "event" ELSE "program")
  /\ stage' = [stage EXCEPT ![t] = "send"]
  /\ UNCHANGED <<app, client, op, mMutex, mCallbackMutex, handlerVars, request, reply,
                 serverVars, wireVars, fired, ran>>

\* The request, with the callback's number (if any) in 16 bits.
Send(t) ==
  /\ Alive /\ stage[t] = "send"
  /\ stage' = [stage EXCEPT ![t] = "await"]
  /\ request' = IF Serving THEN [op |-> op[t], by |-> t,
                                 id |-> IF cbid[t] = -1 THEN -1 ELSE cbid[t] % IDLimit]
                           ELSE None
  /\ UNCHANGED <<app, client, op, cbid, mMutex, mCallbackMutex, mCallbacks, handlerVars, reply,
                 serverVars, wireVars, fired, ran>>

\* Whether pfn_notify is called here and now, with the connection still held.
NotifiesHere(t) == op[t] = "link" \/ (op[t] = "compile" /\ cbid[t] = -1)

\* The call returns and gives the lock back.
Leave(t) ==
  /\ op' = [op EXCEPT ![t] = "none"]
  /\ stage' = [stage EXCEPT ![t] = "idle"]
  /\ cbid' = [cbid EXCEPT ![t] = -1]
  /\ mMutex' = Nobody

\* Mutated form: a lost connection is tried again.
ReceiveRetries(t) ==
  /\ Alive /\ stage[t] = "await"
  /\ \/ reply = t /\ reply' = Nobody /\ Leave(t)
     \/ /\ ~Serving /\ reply # t
        /\ stage' = [stage EXCEPT ![t] = "send"] /\ UNCHANGED <<op, cbid, mMutex, reply>>
  /\ UNCHANGED <<app, client, mCallbackMutex, mCallbacks, handlerVars, request,
                 serverVars, wireVars, fired, ran>>

\* The reply, or the loss of the connection.
Receive(t) ==
  /\ Alive /\ stage[t] = "await"
  /\ \/ /\ reply = t /\ reply' = Nobody
        /\ IF NotifiesHere(t)
           THEN stage' = [stage EXCEPT ![t] = "notify"] /\ UNCHANGED <<op, cbid, mMutex>>
           ELSE Leave(t)
     \/ /\ ~Serving /\ reply # t      \* CL_DEVICE_NOT_AVAILABLE
        /\ Leave(t) /\ UNCHANGED reply
  /\ UNCHANGED <<app, client, mCallbackMutex, mCallbacks, handlerVars, request,
                 serverVars, wireVars, fired, ran>>

\* pfn_notify runs.  A call that it makes waits for the lock of its own thread.
Notify(t) ==
  /\ Alive /\ stage[t] = "notify"
  /\ \/ Leave(t)
     \/ /\ \E o \in app.inside : o = "set" => hasEvents
        /\ stage' = [stage EXCEPT ![t] = "stuck"] /\ UNCHANGED <<op, cbid, mMutex>>
  /\ UNCHANGED <<app, client, mCallbackMutex, mCallbacks, handlerVars, request, reply,
                 serverVars, wireVars, fired, ran>>

HolderStep(t) == Register(t) \/ Send(t) \/ Receive(t) \/ Notify(t)

-----------------------------------------------------------------------------
(* The server. *)

\* The process ends: the API stream and the event stream are closed.
ServerStops(how) ==
  /\ server' = how
  /\ armed' = {} /\ signal' = [d \in Signallers |-> NoSignal]
  /\ mEventMutex' = Nobody /\ mEventStream' = FALSE
  /\ link' = "cut" /\ ebuf' = << >>
  /\ \E n \in 0 .. Len(ewire) : ewire' = SubSeq(ewire, 1, n)

\* handleNextPacket().  A callback is handed to the driver, which may call it
\* at once, before clSetEventCallback returns; the reply is then sent later.
Serve ==
  /\ server = "idle" /\ request # None
  /\ \/ /\ armed' = IF request.id = -1 THEN armed
                    ELSE armed \cup {[id |-> request.id,
                                     kind |-> IF request.op = "set" THEN "event" ELSE "program"]}
        /\ request' = None /\ reply' = request.by
        /\ UNCHANGED <<server, signal>>
     \/ /\ request.op = "set"
        /\ \E code \in Codes : signal' = [signal EXCEPT ![Main] =
             [at |-> "enter", id |-> request.id, kind |-> "event", code |-> code]]
        /\ server' = "signalling"
        /\ UNCHANGED <<armed, request, reply>>
  /\ UNCHANGED <<app, client, mCallbackMutex, mCallbacks, callVars, handlerVars, mEventMutex,
                 mEventStream, wireVars, fired, ran>>

\* A thread of the driver calls EventCallback or ProgramCallback.
Fire(d) ==
  /\ Serving /\ signal[d] = NoSignal
  /\ \E cb \in armed : \E code \in IF cb.kind = "event" THEN Codes ELSE {0} :
       /\ armed' = armed \ {cb}
       /\ signal' = [signal EXCEPT ![d] =
            [at |-> "enter", id |-> cb.id, kind |-> cb.kind, code |-> code]]
  /\ UNCHANGED <<app, client, mCallbackMutex, mCallbacks, callVars, handlerVars, request, reply,
                 server, mEventMutex, mEventStream, wireVars, fired, ran>>

\* The callback returns to the driver; in the server's own thread the driver
\* returns to the handler, which replies.
SignalDone(d) ==
  /\ signal' = [signal EXCEPT ![d] = NoSignal]
  /\ IF d = Main THEN server' = "idle" /\ request' = None /\ reply' = request.by
                 ELSE UNCHANGED <<server, request, reply>>

At(d, at) == Serving /\ signal[d].at = at

\* Mutated form: without mEventMutex.
EnterAnyway(d) ==
  /\ At(d, "enter") /\ mEventStream
  /\ signal' = [signal EXCEPT ![d].at = "trigger"]
  /\ mEventMutex' = d
  /\ fired' = Append(fired, signal[d])
  /\ UNCHANGED <<app, client, mCallbackMutex, mCallbacks, callVars, handlerVars, server, armed,
                 request, reply, mEventStream, wireVars, ran>>

\* triggerEventCallback and triggerProgramCallback take mEventMutex; without a
\* stream they return.  The block of a program callback does not hold the
\* instance: what is there instead leads to the instance or to a crash.
EnterTrigger(d) ==
  /\ At(d, "enter")
  /\ \/ /\ mEventMutex = Nobody /\ mEventStream
        /\ signal' = [signal EXCEPT ![d].at = "trigger"]
        /\ mEventMutex' = d
        /\ fired' = Append(fired, signal[d])
        /\ UNCHANGED <<server, armed, request, reply, mEventStream, wireVars>>
     \/ /\ mEventMutex = Nobody /\ ~mEventStream
        /\ SignalDone(d)
        /\ UNCHANGED <<armed, mEventMutex, mEventStream, wireVars, fired>>
     \/ /\ signal[d].kind = "program"
        /\ ServerStops("crashed")
        /\ UNCHANGED <<request, reply, fired>>
  /\ UNCHANGED <<app, client, mCallbackMutex, mCallbacks, callVars, handlerVars, ran>>

\* The CallbackTriggerPacket goes to the buffer.  A program callback is done
\* with that: nothing flushes it.
WriteTrigger(d) ==
  /\ At(d, "trigger")
  /\ ebuf' = Append(ebuf, [ty |-> "trigger", data |-> signal[d].id])
  /\ IF signal[d].kind = "event"
     THEN /\ signal' = [signal EXCEPT ![d].at = "code"]
          /\ UNCHANGED <<server, request, reply, mEventMutex>>
     ELSE SignalDone(d) /\ mEventMutex' = Nobody
  /\ UNCHANGED <<app, client, mCallbackMutex, mCallbacks, callVars, handlerVars, armed,
                 mEventStream, link, ewire, fired, ran>>

\* Mutated form: the signal is not flushed.
WriteCodeOnly(d) ==
  /\ At(d, "code")
  /\ ebuf' = Append(ebuf, [ty |-> "code", data |-> signal[d].code % IDLimit])
  /\ SignalDone(d) /\ mEventMutex' = Nobody
  /\ UNCHANGED <<app, client, mCallbackMutex, mCallbacks, callVars, handlerVars,
                 armed, mEventStream, link, ewire, fired, ran>>

\* The status follows in a TriggerEventCallback, in 16 bits.
WriteCode(d) ==
  /\ At(d, "code")
  /\ ebuf' = Append(ebuf, [ty |-> "code", data |-> signal[d].code % IDLimit])
  /\ signal' = [signal EXCEPT ![d].at = "flush"]
  /\ UNCHANGED <<app, client, mCallbackMutex, mCallbacks, callVars, handlerVars, request, reply,
                 server, armed, mEventMutex, mEventStream, link, ewire, fired, ran>>

\* flush() blocks while the socket is full.  On a lost connection it may seem
\* to work, or throw, which ends the process: the function is noexcept.
FlushSignal(d) ==
  /\ At(d, "flush")
  /\ \/ /\ link = "up"
        /\ \E k \in 1 .. Len(ebuf) :
             /\ Len(ewire) + k <= Capacity
             /\ ewire' = ewire \o SubSeq(ebuf, 1, k)
             /\ ebuf' = SubSeq(ebuf, k + 1, Len(ebuf))
             /\ IF k = Len(ebuf) THEN SignalDone(d) /\ mEventMutex' = Nobody
                                ELSE UNCHANGED <<signal, server, request, reply, mEventMutex>>
        /\ UNCHANGED <<armed, mEventStream, link>>
     \/ /\ link = "cut"
        /\ ebuf' = << >> /\ SignalDone(d) /\ mEventMutex' = Nobody
        /\ UNCHANGED <<armed, mEventStream, link, ewire>>
     \/ link = "cut" /\ ServerStops("crashed") /\ UNCHANGED <<request, reply>>
  /\ UNCHANGED <<app, client, mCallbackMutex, mCallbacks, callVars, handlerVars, fired, ran>>

SignalStep(d) == EnterTrigger(d) \/ WriteTrigger(d) \/ WriteCode(d) \/ FlushSignal(d)

\* Terminate, or the end of the API stream, ends run().  The Terminate that is
\* written to the event stream is never flushed; the stream is closed without
\* mEventMutex, under the feet of a thread that writes to it.
ServerEnds ==
  /\ server = "idle" /\ ~Alive
  /\ \/ ServerStops("ended")
     \/ \E d \in Drivers : mEventMutex = d /\ ServerStops("crashed")
  /\ UNCHANGED <<app, client, mCallbackMutex, mCallbacks, callVars, handlerVars, request, reply,
                 fired, ran>>

-----------------------------------------------------------------------------
(* The client's callback thread: CallbackThreadMain, HandleCallbacks. *)

Aborts ==
  /\ client' = "aborted" /\ link' = "cut"
  /\ ebuf' = << >> /\ ewire' = << >>

\* nextPacketTy(), and the trigger is read.  The end of the stream looks like
\* Terminate and ends the thread, as does any other packet; only a packet cut
\* in the middle throws, and then mEventStream is reset.
HandleNext ==
  /\ Alive /\ handler = "wait"
  /\ \/ /\ ewire # << >> /\ Head(ewire).ty = "trigger"
        /\ index' = Head(ewire).data /\ ewire' = Tail(ewire)
        /\ handler' = "lock" /\ UNCHANGED hasEvents
     \/ /\ ewire # << >> /\ Head(ewire).ty # "trigger"
        /\ handler' = "ended" /\ UNCHANGED <<index, ewire, hasEvents>>
     \/ /\ ewire = << >> /\ link = "cut"
        /\ handler' = "ended" /\ hasEvents' \in {hasEvents, FALSE}
        /\ UNCHANGED <<index, ewire>>
  /\ UNCHANGED <<app, client, mCallbackMutex, mCallbacks, callVars, request, reply, serverVars,
                 link, ebuf, fired, ran>>

Kind(i) == mCallbacks[i + 1]

Runs(i, code) ==
  /\ handler' = "user"
  /\ ran' = Append(ran, [id |-> i, kind |-> Kind(i), code |-> code])

\* The callback is looked up under mCallbackMutex, which stays locked until it
\* has returned.  An unknown number is ignored.
HandleLock ==
  /\ Alive /\ handler = "lock" /\ mCallbackMutex = Nobody
  /\ \/ /\ index >= Len(mCallbacks)
        /\ handler' = "wait" /\ UNCHANGED <<mCallbackMutex, ran>>
     \/ /\ index < Len(mCallbacks)
        /\ mCallbackMutex' = Callback
        /\ IF Kind(index) = "event" THEN handler' = "code" /\ UNCHANGED ran
                                    ELSE Runs(index, 0)
  /\ UNCHANGED <<app, client, mCallbacks, callVars, index, hasEvents, request, reply,
                 serverVars, wireVars, fired>>

\* EventCallback::trigger reads the status.  It is noexcept: a lost connection
\* ends the process, like a packet of another type.
HandleCode ==
  /\ Alive /\ handler = "code"
  /\ \/ /\ ewire # << >> /\ Head(ewire).ty = "code"
        /\ ewire' = Tail(ewire)
        /\ Runs(index, Head(ewire).data)
        /\ UNCHANGED <<client, link, ebuf>>
     \/ /\ IF ewire = << >> THEN link = "cut" ELSE Head(ewire).ty # "code"
        /\ Aborts /\ UNCHANGED <<handler, ran>>
  /\ UNCHANGED <<app, mCallbackMutex, mCallbacks, callVars, index, hasEvents, request, reply,
                 serverVars, fired>>

\* Mutated form: the thread ends after one callback.
UserReturnsOnce ==
  /\ Alive /\ handler \in {"user", "called"} /\ stage[Callback] = "idle"
  /\ handler' = "ended" /\ mCallbackMutex' = Nobody
  /\ UNCHANGED <<app, client, mCallbacks, callVars, index, hasEvents, request, reply,
                 serverVars, wireVars, fired, ran>>

\* The application's callback returns, or makes a call first.
UserReturns ==
  /\ Alive /\ handler \in {"user", "called"} /\ stage[Callback] = "idle"
  /\ handler' = "wait" /\ mCallbackMutex' = Nobody
  /\ UNCHANGED <<app, client, mCallbacks, callVars, index, hasEvents, request, reply,
                 serverVars, wireVars, fired, ran>>

UserCalls(o) ==
  /\ handler = "user" /\ o \in app.inside
  /\ Enter(Callback, o)
  /\ handler' = "called"
  /\ UNCHANGED <<app, client, mMutex, mCallbackMutex, mCallbacks, index, hasEvents, request,
                 reply, serverVars, wireVars, fired, ran>>

HandlerStep == HandleNext \/ HandleLock \/ HandleCode \/ UserReturns

-----------------------------------------------------------------------------
\* The event connection is lost.
Cut ==
  /\ "cut" \in Failures /\ link = "up"
  /\ link' = "cut"
  /\ \E n \in 0 .. Len(ewire) : ewire' = SubSeq(ewire, 1, n)
  /\ UNCHANGED <<app, client, mCallbackMutex, mCallbacks, callVars, handlerVars, request, reply,
                 serverVars, ebuf, fired, ran>>

\* The application ends.
Exit ==
  /\ Alive /\ \A t \in Threads : stage[t] = "idle"
  /\ client' = "exited" /\ link' = "cut" /\ ewire' = << >>
  /\ UNCHANGED <<app, mCallbackMutex, mCallbacks, callVars, handlerVars, request, reply,
                 serverVars, ebuf, fired, ran>>

\* Both processes are gone.
Over == ~Alive /\ ~Serving /\ UNCHANGED vars

Next ==
  \/ \E t \in Threads, o \in Ops : Start(t, o)
  \/ \E o \in Ops : UserCalls(o)
  \/ \E t \in Callers : Lock(t) \/ HolderStep(t)
  \/ Serve \/ ServerEnds
  \/ \E d \in Drivers : Fire(d)
  \/ \E d \in Signallers : SignalStep(d)
  \/ HandlerStep
  \/ Cut \/ Exit \/ Over

Spec == Init /\ [][Next]_vars

\* Everybody who is in the middle of something goes on; a callback of the
\* application returns.  The application need not call, and the driver need
\* not call back.  No mutex is assumed to be fair.
Fairness ==
  /\ \A t \in Callers : WF_vars(HolderStep(t)) /\ WF_vars(Lock(t))
  /\ WF_vars(Serve) /\ WF_vars(ServerEnds) /\ WF_vars(HandlerStep)
  /\ \A d \in Signallers : WF_vars(SignalStep(d))

FairSpec == Spec /\ Fairness
-----------------------------------------------------------------------------
(* Properties. *)

\* What is signalled is delivered in that order, each callback with its own
\* status and at most once ("callbacks shouldn't be run twice, right?",
\* connection.cpp line 70), although many threads of the driver signal
\* (mEventMutex, "Used to serialise event signals", instance.h line 110).  The
\* status arrives in 16 bits: an error status, below 0, does not arrive as it was.
DeliveredInOrder ==
  /\ Len(ran) <= Len(fired)
  /\ \A i \in 1 .. Len(ran) :
       /\ ran[i].id = fired[i].id /\ ran[i].kind = fired[i].kind
       /\ ran[i].code = fired[i].code % 65536

\* The callback thread never meets a trigger it does not know, nor a packet it
\* does not expect ("Invalid server-side event trigger", "Unexpected packet in
\* event stream", connection.cpp lines 66 and 76): the callback is in the list
\* before the server can signal it.
StreamInStep ==
  /\ handler = "lock" => index < Len(mCallbacks)
  /\ handler = "wait" /\ ewire # << >> => Head(ewire).ty = "trigger"
  /\ handler = "code" /\ ewire # << >> => Head(ewire).ty = "code"

\* A pfn_notify that clCompileProgram or clLinkProgram runs itself, with mMutex
\* held (client/program.cpp lines 201 and 252), made a call: its thread waits for
\* a mutex that it has.
NotifyMadeCall(t) == stage[t] = "stuck"

\* A thread with mMutex waits for mCallbackMutex to register a callback
\* (connection.h line 133), while the callback thread, which has that mutex as
\* long as a callback runs (connection.cpp line 69), waits for mMutex; or the
\* callback itself registers one.
MutexesCrossed(t) ==
  /\ stage[t] = "register" /\ mCallbackMutex = Callback
  /\ t = Callback \/ stage[Callback] = "get"

\* The server's own thread signals an event that is complete when its callback
\* is registered (server/event.cpp line 69), and the socket is full: the callback
\* thread, which should read from it, waits for mMutex, and the thread that has
\* mMutex waits for the reply, which comes after the signal (lines 70 to 73).
ReplyBehindSignal(t) ==
  /\ stage[t] = "await" /\ server = "signalling"
  /\ stage[Callback] = "get" /\ Len(ewire) = Capacity

\* The deadlocks that the code has.
Deadlocked(t) == NotifyMadeCall(t) \/ MutexesCrossed(t) \/ ReplyBehindSignal(t)

\* A thread that has the connection gives it back, whatever callbacks run, fire
\* and are registered meanwhile, unless it is in one of these deadlocks.
CallsReturn == \A t \in Callers :
  mMutex = t ~> (mMutex # t \/ ~Alive \/ []Deadlocked(t))

\* The callback thread is in a call that the application's callback made.
CallbackCalls == stage[Callback] # "idle"

\* An event that is signalled reaches the application, unless a connection or
\* a process is lost or a callback that makes a call never comes back from it:
\* it is in one of the deadlocks, or the connection always goes to others.
SignalsArrive ==
  \A n \in 1 .. 2 : Len(fired) >= n /\ fired[n].kind = "event" ~>
    (Len(ran) >= n \/ link = "cut" \/ ~Alive \/ []CallbackCalls)

\* A thread of the driver that signals comes back from the server's callback,
\* unless the socket is full and the client's callback thread never comes back
\* from a call to empty it.
DriverReturns == \A d \in Signallers :
  signal[d] # NoSignal ~>
    (signal[d] = NoSignal \/ [](CallbackCalls /\ Len(ewire) = Capacity))

\* "Ensure that the stream itself is reset, so that the host application has
\* the appropriate errors returned" (connection.cpp lines 91 and 92): when
\* nobody runs callbacks any more, clSetEventCallback does not accept them.
LossIsReported == handler = "ended" => ~hasEvents
=============================================================================

------------------------------- MODULE Session -------------------------------
(***************************************************************************)
(* The start and the end of a session: the server process that accepts     *)
(* connections and forks a child for each, the version handshake, and the  *)
(* negotiation of the second connection, the event stream.                 *)
(*                                                                         *)
(* A client process and the child that serves it have the same name.  The  *)
(* streams carry whole packets; what follows the negotiation is one kind   *)
(* of request with one reply (ApiProtocol has the real conversations).     *)
(***************************************************************************)
EXTENDS Integers, Sequences, FiniteSets

CONSTANTS Clients,       \* the processes that use the library
          Parent,        \* the server process that accepts
          ServerBuilds,  \* build options the server may have
          ClientBuilds,  \* build options a client may have
          Tries,         \* how many ports the server tries (16)
          Backlog,       \* how many connections wait for accept() (5)
          Failures       \* what may go wrong, see FailureKinds

\* A software version (with the size of an object ID) and the features.
Build == [sw : Nat, features : SUBSET {"z", "e"}]

FailureKinds ==
  {"accept",   \* accept() fails, of the main or of the event socket
   "fork",     \* fork() fails
   "bind",     \* a port is taken
   "kill",     \* a client dies at any point
   "reset",    \* a waiting connection is reset before the server looks at it
   "event"}    \* the event connection fails: the client's connect(), which may
               \* come before listen(), or the server's accept()

ASSUME SessionAssumption ==
  /\ Parent \notin Clients
  /\ ServerBuilds \subseteq Build /\ ClientBuilds \subseteq Build
  /\ Tries \in 1 .. 255 /\ Backlog \in Nat \ {0}
  /\ Failures \subseteq FailureKinds

VARIABLES
  server,     \* the build of the server
  parent,     \* "start", "accept", "fork", "close" or "down"
  incoming,   \* the client whose connection the parent has just accepted
  listeners,  \* the processes that have the listening socket open
  listening,  \* listen() was called on it
  backlog,    \* connections that wait for accept()
  holders,    \* holders[c]: server processes that have c's connection open
  build,      \* build[c]: the build of client c
  client,     \* client[c]: where client c is
  mStream,    \* mStream[c]: Connection::mStream is set: the client has its end open
  events,     \* events[c]: Connection::mEventStream is set
  toServer, toClient,  \* the packets under way
  child,      \* child[c]: where the child that serves c is
  triesLeft,  \* triesLeft[c]: of createEventStream
  port,       \* port[c]: the event socket: "none", "bound", "listening", "connected"
  mEventStream \* mEventStream[c]: the child's event stream is set

parentVars == <<parent, incoming, listeners, listening, backlog, holders>>
clientVars == <<client, mStream, events>>
childVars  == <<child, triesLeft, mEventStream>>
vars == <<server, build, parentVars, clientVars, childVars, toServer, toClient, port>>

Init ==
  /\ server \in ServerBuilds
  /\ build \in [Clients -> ClientBuilds]
  /\ parent = "start" /\ incoming = Parent
  /\ listeners = {Parent} /\ listening = FALSE /\ backlog = << >>
  /\ holders = [c \in Clients |-> {}]
  /\ client = [c \in Clients |-> "off"]
  /\ mStream = [c \in Clients |-> FALSE]
  /\ events = [c \in Clients |-> FALSE]
  /\ toServer = [c \in Clients |-> << >>]
  /\ toClient = [c \in Clients |-> << >>]
  /\ child = [c \in Clients |-> "none"]
  /\ triesLeft = [c \in Clients |-> 0]
  /\ port = [c \in Clients |-> "none"]
  /\ mEventStream = [c \in Clients |-> FALSE]

\* A waiting connection has its server end open too.
ServerEnd(c) ==
  holders[c] # {} \/ (listeners # {} /\ \E i \in 1 .. Len(backlog) : backlog[i] = c)

-----------------------------------------------------------------------------
(* The version packet. *)

eventEnabled(v) == "e" \in v.features
compressionEnabled(v) == "z" \in v.features

\* Mutated form: the features are not compared.
SameSoftware(mine, v) == mine.sw = v.sw

isCompatibleWith(mine, v) ==
  mine.sw = v.sw /\ compressionEnabled(v) = compressionEnabled(mine)

-----------------------------------------------------------------------------
(* The server process: main(). *)

\* The first accept() calls listen(); until then a client is refused.
ParentListen ==
  /\ parent = "start"
  /\ parent' = "accept" /\ listening' = TRUE
  /\ UNCHANGED <<server, build, incoming, listeners, backlog, holders, clientVars, childVars,
                 toServer, toClient, port>>

\* Mutated form: an error of accept() ends the server.
ParentAcceptFatal ==
  /\ parent = "accept" /\ backlog # << >>
  /\ \/ /\ incoming' = Head(backlog) /\ parent' = "fork"
        /\ holders' = [holders EXCEPT ![Head(backlog)] = {Parent}]
     \/ /\ "accept" \in Failures
        /\ parent' = "down" /\ UNCHANGED <<incoming, holders>>
  /\ backlog' = Tail(backlog)
  /\ listeners' = IF parent' = "down" THEN listeners \ {Parent} ELSE listeners
  /\ UNCHANGED <<server, build, listening, clientVars, childVars, toServer, toClient, port>>

\* accept(), and getPeerName() for the log.
ParentAccept ==
  /\ parent = "accept" /\ backlog # << >>
  /\ LET c == Head(backlog)
     IN  \/ /\ incoming' = c /\ parent' = "fork"
            /\ holders' = [holders EXCEPT ![c] = {Parent}]
         \/ /\ "accept" \in Failures    \* Socket::Error is logged
            /\ UNCHANGED <<incoming, parent, holders>>
         \/ /\ "reset" \in Failures     \* getpeername() fails, assert(false)
            /\ parent' = "down" /\ UNCHANGED <<incoming, holders>>
  /\ backlog' = Tail(backlog)
  /\ listeners' = IF parent' = "down" THEN listeners \ {Parent} ELSE listeners
  /\ UNCHANGED <<server, build, listening, clientVars, childVars, toServer, toClient, port>>

\* fork(): the child gets a copy of every open socket.
ParentFork ==
  /\ parent = "fork"
  /\ parent' = "close"
  /\ \/ /\ child' = [child EXCEPT ![incoming] = "start"]
        /\ listeners' = listeners \cup {incoming}
        /\ holders' = [c \in Clients |->
             IF Parent \in holders[c] THEN holders[c] \cup {incoming} ELSE holders[c]]
     \/ "fork" \in Failures /\ UNCHANGED <<child, listeners, holders>>
  /\ UNCHANGED <<server, build, incoming, listening, backlog, clientVars, triesLeft,
                 mEventStream, toServer, toClient, port>>

\* Mutated form: the parent keeps its copy of the client's socket.
ParentKeeps ==
  /\ parent = "close"
  /\ parent' = "accept" /\ incoming' = Parent
  /\ UNCHANGED <<server, build, listeners, listening, backlog, holders, clientVars, childVars,
                 toServer, toClient, port>>

\* The end of the scope closes the parent's copy of the client's socket.
ParentClose ==
  /\ parent = "close"
  /\ parent' = "accept" /\ incoming' = Parent
  /\ holders' = [holders EXCEPT ![incoming] = @ \ {Parent}]
  /\ UNCHANGED <<server, build, listeners, listening, backlog, clientVars, childVars,
                 toServer, toClient, port>>

ParentStep == ParentListen \/ ParentAccept \/ ParentFork \/ ParentClose

-----------------------------------------------------------------------------
(* The child: ServerInstance. *)

\* The child ends: its sockets are closed.  What was sent may be lost.
ChildEnds(c) ==
  /\ child' = [child EXCEPT ![c] = "ended"]
  /\ holders' = [d \in Clients |-> holders[d] \ {c}]
  /\ listeners' = listeners \ {c}
  /\ mEventStream' = [mEventStream EXCEPT ![c] = FALSE]
  /\ port' = [port EXCEPT ![c] = "none"]
  /\ UNCHANGED <<server, build, parent, incoming, listening, backlog, clientVars, triesLeft,
                 toServer, toClient>>

\* server.close(), and the constructor, which sends the version.
ChildStart(c) ==
  /\ child[c] = "start"
  /\ \/ /\ child' = [child EXCEPT ![c] = "idle"]
        /\ listeners' = listeners \ {c}
        /\ toClient' = [toClient EXCEPT ![c] = IF mStream[c] THEN Append(@, "version") ELSE @]
        /\ UNCHANGED <<server, build, parent, incoming, listening, backlog, holders, clientVars,
                       triesLeft, mEventStream, toServer, port>>
     \/ ~mStream[c] /\ ChildEnds(c)

\* handleNextPacket() and the flush of run().
ChildServe(c) ==
  /\ child[c] = "idle"
  /\ \/ /\ toServer[c] # << >> /\ Head(toServer[c]) = "open"
        /\ child' = [child EXCEPT ![c] = "bind"]
        /\ triesLeft' = [triesLeft EXCEPT ![c] = Tries]
        /\ toServer' = [toServer EXCEPT ![c] = Tail(@)]
        /\ UNCHANGED <<server, build, parentVars, clientVars, mEventStream, toClient, port>>
     \/ /\ toServer[c] # << >> /\ Head(toServer[c]) = "request"
        /\ toServer' = [toServer EXCEPT ![c] = Tail(@)]
        /\ toClient' = [toClient EXCEPT ![c] = IF mStream[c] THEN Append(@, "reply") ELSE @]
        /\ UNCHANGED <<server, build, parentVars, clientVars, childVars, port>>
     \/ /\ IF toServer[c] = << >> THEN ~mStream[c] ELSE Head(toServer[c]) = "terminate"
        /\ ChildEnds(c)

\* Mutated form: no answer.
GiveUpSilently(c) ==
  /\ child' = [child EXCEPT ![c] = "idle"]
  /\ port' = [port EXCEPT ![c] = "none"]
  /\ UNCHANGED toClient

\* Answer 0: the client goes on without an event stream.
GiveUp(c) ==
  /\ child' = [child EXCEPT ![c] = "idle"]
  /\ toClient' = [toClient EXCEPT ![c] = IF mStream[c] THEN Append(@, "zero") ELSE @]
  /\ port' = [port EXCEPT ![c] = "none"]

\* createEventStream(): a random port is tried; when it can be bound the
\* client is told.
ChildBind(c) ==
  /\ child[c] = "bind"
  /\ \/ /\ triesLeft' = [triesLeft EXCEPT ![c] = 0]
        /\ child' = [child EXCEPT ![c] = "bound"]
        /\ port' = [port EXCEPT ![c] = "bound"]
        /\ toClient' = [toClient EXCEPT ![c] = IF mStream[c] THEN Append(@, "port") ELSE @]
     \/ /\ ~mStream[c]               \* the flush throws: no further try
        /\ triesLeft' = [triesLeft EXCEPT ![c] = 0]
        /\ GiveUp(c)
     \/ /\ "bind" \in Failures
        /\ triesLeft' = [triesLeft EXCEPT ![c] = @ - 1]
        /\ IF triesLeft[c] = 1 THEN GiveUp(c) ELSE UNCHANGED <<child, toClient, port>>
  /\ UNCHANGED <<server, build, parentVars, clientVars, mEventStream, toServer>>

\* accept() of the event socket begins with listen().
ChildListen(c) ==
  /\ child[c] = "bound"
  /\ child' = [child EXCEPT ![c] = "accepting"]
  /\ port' = [port EXCEPT ![c] = "listening"]
  /\ UNCHANGED <<server, build, parentVars, clientVars, triesLeft, mEventStream, toServer, toClient>>

\* Mutated form: createEventStream goes on to its last line.
ChildAcceptNoReturn(c) ==
  /\ child[c] = "accepting"
  /\ port[c] = "connected"
  /\ child' = [child EXCEPT ![c] = "idle"]
  /\ mEventStream' = [mEventStream EXCEPT ![c] = TRUE]
  /\ toClient' = [toClient EXCEPT ![c] = Append(@, "zero")]
  /\ UNCHANGED <<server, build, parentVars, clientVars, triesLeft, toServer, port>>

\* Mutated form: the stream is dropped instead of kept.
ChildAcceptDrops(c) ==
  /\ child[c] = "accepting"
  /\ port[c] = "connected"
  /\ child' = [child EXCEPT ![c] = "idle"]
  /\ UNCHANGED <<server, build, parentVars, clientVars, triesLeft, mEventStream,
                 toServer, toClient, port>>

\* accept() returns the client's connection.  When it fails, the loop is over
\* (triesLeft is 0) and a second answer follows the port.
ChildAccept(c) ==
  /\ child[c] = "accepting"
  /\ \/ /\ port[c] = "connected"
        /\ child' = [child EXCEPT ![c] = "idle"]
        /\ mEventStream' = [mEventStream EXCEPT ![c] = TRUE]
        /\ UNCHANGED <<toClient, port>>
     \/ "event" \in Failures /\ GiveUp(c) /\ UNCHANGED mEventStream
  /\ UNCHANGED <<server, build, parentVars, clientVars, triesLeft, toServer>>

ChildStep(c) ==
  ChildStart(c) \/ ChildServe(c) \/ ChildBind(c) \/ ChildListen(c) \/ ChildAccept(c)

-----------------------------------------------------------------------------
(* A client: the constructor of Connection, a call, the destructor. *)

\* The connection is opened.  Nobody listens: mStream stays null.
Connect(c) ==
  /\ client[c] = "off"
  /\ \/ /\ listening /\ listeners # {} /\ Len(backlog) < Backlog
        /\ client' = [client EXCEPT ![c] = "version"]
        /\ mStream' = [mStream EXCEPT ![c] = TRUE]
        /\ backlog' = Append(backlog, c)
     \/ /\ ~listening \/ listeners = {}
        /\ client' = [client EXCEPT ![c] = "nostream"]
        /\ UNCHANGED <<mStream, backlog>>
  /\ UNCHANGED <<server, build, parent, incoming, listeners, listening, holders, events, childVars,
                 toServer, toClient, port>>

\* read() finds the connection closed: Socket::Error.
NoAnswer(c) == toClient[c] = << >> /\ ~ServerEnd(c)

\* The version of the server decides: disconnect, ask for a port, or go on.
\* An exception leaves mStream as it is.
ReadVersion(c) ==
  /\ client[c] = "version"
  /\ \/ /\ toClient[c] # << >>
        /\ toClient' = [toClient EXCEPT ![c] = Tail(@)]
        /\ \/ /\ ~isCompatibleWith(build[c], server)
              /\ client' = [client EXCEPT ![c] = "nostream"]
              /\ mStream' = [mStream EXCEPT ![c] = FALSE]
              /\ UNCHANGED toServer
           \/ /\ isCompatibleWith(build[c], server)
              /\ "e" \in build[c].features /\ eventEnabled(server)
              /\ client' = [client EXCEPT ![c] = "asked"]
              /\ toServer' = [toServer EXCEPT ![c] = Append(@, "open")]
              /\ UNCHANGED mStream
           \/ /\ isCompatibleWith(build[c], server)
              /\ "e" \notin build[c].features \/ ~eventEnabled(server)
              /\ client' = [client EXCEPT ![c] = "ready"]
              /\ UNCHANGED <<toServer, mStream>>
     \/ /\ NoAnswer(c)
        /\ client' = [client EXCEPT ![c] = "ready"]
        /\ UNCHANGED <<toServer, toClient, mStream>>
  /\ UNCHANGED <<server, build, parentVars, events, childVars, port>>

ReadPort(c) ==
  /\ client[c] = "asked"
  /\ \/ /\ toClient[c] # << >>
        /\ toClient' = [toClient EXCEPT ![c] = Tail(@)]
        /\ client' = [client EXCEPT ![c] = IF Head(toClient[c]) = "port" THEN "port" ELSE "ready"]
     \/ /\ NoAnswer(c)
        /\ client' = [client EXCEPT ![c] = "ready"]
        /\ UNCHANGED toClient
  /\ UNCHANGED <<server, build, parentVars, mStream, events, childVars, toServer, port>>

\* The event connection is opened and the callback thread started.  A refusal
\* is logged.
ConnectEvents(c) ==
  /\ client[c] = "port"
  /\ client' = [client EXCEPT ![c] = "ready"]
  /\ \/ /\ port[c] = "listening"
        /\ port' = [port EXCEPT ![c] = "connected"]
        /\ events' = [events EXCEPT ![c] = TRUE]
     \/ "event" \in Failures /\ UNCHANGED <<port, events>>
  /\ UNCHANGED <<server, build, parentVars, mStream, childVars, toServer, toClient>>

Request(c) ==
  /\ client[c] = "ready"
  /\ client' = [client EXCEPT ![c] = "waiting"]
  /\ toServer' = [toServer EXCEPT ![c] = IF ServerEnd(c) THEN Append(@, "request") ELSE @]
  /\ UNCHANGED <<server, build, parentVars, mStream, events, childVars, toClient, port>>

\* The reply, a lost connection (CL_DEVICE_NOT_AVAILABLE), or a packet of
\* another type, which fails the assertion of PacketStream::read.
ReadReply(c) ==
  /\ client[c] = "waiting"
  /\ \/ /\ toClient[c] # << >> /\ Head(toClient[c]) = "reply"
        /\ toClient' = [toClient EXCEPT ![c] = Tail(@)]
        /\ client' = [client EXCEPT ![c] = "ready"]
        /\ UNCHANGED mStream
     \/ /\ NoAnswer(c)
        /\ client' = [client EXCEPT ![c] = "ready"]
        /\ UNCHANGED <<toClient, mStream>>
     \/ /\ toClient[c] # << >> /\ Head(toClient[c]) # "reply"
        /\ client' = [client EXCEPT ![c] = "gone"]
        /\ mStream' = [mStream EXCEPT ![c] = FALSE]
        /\ UNCHANGED toClient
  /\ UNCHANGED <<server, build, parentVars, events, childVars, toServer, port>>

\* ~Connection() sends Terminate; a killed process sends nothing.
Leave(c) ==
  /\ \/ /\ client[c] \in {"ready", "nostream"}
        /\ toServer' = [toServer EXCEPT ![c] =
             IF mStream[c] /\ ServerEnd(c) THEN Append(@, "terminate") ELSE @]
     \/ /\ "kill" \in Failures /\ client[c] \notin {"off", "gone"}
        /\ \E n \in 0 .. Len(toServer[c]) : toServer' = [toServer EXCEPT ![c] = SubSeq(@, 1, n)]
  /\ client' = [client EXCEPT ![c] = "gone"]
  /\ mStream' = [mStream EXCEPT ![c] = FALSE]
  /\ events' = [events EXCEPT ![c] = FALSE]
  /\ toClient' = [toClient EXCEPT ![c] = << >>]
  /\ UNCHANGED <<server, build, parentVars, childVars, port>>

ClientStep(c) == ReadVersion(c) \/ ReadPort(c) \/ ConnectEvents(c) \/ ReadReply(c)

\* The server waits for the next client, or is down; of the clients there were,
\* nothing is left but children that still wait for an event connection.
Over ==
  /\ parent = "down" \/ (parent = "accept" /\ backlog = << >>)
  /\ \A c \in Clients : client[c] = "gone" /\ child[c] \in {"none", "ended", "accepting"}
  /\ UNCHANGED vars

Next ==
  \/ ParentStep \/ Over
  \/ \E c \in Clients : ChildStep(c) \/ ClientStep(c) \/ Connect(c) \/ Request(c) \/ Leave(c)

Spec == Init /\ [][Next]_vars

\* An accept() that nobody connects to need not return, nor fail.
ChildGoesOn(c) ==
  /\ child[c] = "accepting" => port[c] = "connected"
  /\ ChildStep(c)

\* The server's processes run, and a client that is in its constructor or in a
\* call goes on.  Nobody has to connect, to call or to leave.
Fairness ==
  /\ WF_vars(ParentStep)
  /\ \A c \in Clients : WF_vars(ChildGoesOn(c)) /\ WF_vars(ClientStep(c))

FairSpec == Spec /\ Fairness
-----------------------------------------------------------------------------
(* Properties. *)

\* "The child must close the server socket" (main.cpp line 98) and "The client
\* socket will be RAII-closed here" (line 113): however forks, failures and
\* ends interleave, a connection is open in no process but its own child and,
\* for a moment, the parent, and a child that serves does not keep the port.
PrivateSockets ==
  /\ \A c \in Clients : holders[c] \subseteq {Parent, c}
  /\ \A c \in Clients : Parent \in holders[c] => incoming = c
  /\ \A c \in Clients : c \in listeners => child[c] = "start"

\* "A server and client with different zlib configurations will not connect"
\* (README.md line 56), nor will two versions: no request travels between
\* builds that read each other's packets differently.
CompatibleOnly ==
  \A c \in Clients : \A i \in 1 .. Len(toServer[c]) :
    toServer[c][i] # "terminate" =>
      build[c].sw = server.sw /\ ("z" \in build[c].features <=> "z" \in server.features)

\* "The server replies with an opened port number, or 0" (connection.cpp line
\* 152): each question has one answer, and no packet waits for a client that
\* expects another one.
OneAnswer ==
  \A c \in Clients : toClient[c] # << >> =>
    /\ Len(toClient[c]) = 1
    /\ CASE client[c] = "version" -> toClient[c][1] = "version"
         [] client[c] = "asked"   -> toClient[c][1] \in {"port", "zero"}
         [] client[c] = "waiting" -> toClient[c][1] = "reply"
         [] OTHER -> FALSE

\* Once the constructor is done and the server is back in its loop, both sides
\* agree on whether there is an event stream, whatever their build options
\* ("server/clients can connect when the support option mismatches", README.md
\* line 59) and however many ports were taken.
EventsAgree ==
  \A c \in Clients : client[c] \in {"ready", "waiting"} /\ child[c] = "idle" =>
    (events[c] <=> mEventStream[c])

\* The constructor of Connection, which runs before main() of the application,
\* comes back with or without a connection, and so does a call: "If no port is
\* available, features required by this socket will not be supported, but the
\* other features will still function normally" (README.md line 58).
ClientsComeBack ==
  \A c \in Clients :
    /\ client[c] \in {"version", "asked", "port"} ~>
         client[c] \notin {"version", "asked", "port"}
    /\ client[c] = "waiting" ~> client[c] # "waiting"

\* One client's failure never keeps the server from the next accept(): lost
\* connections and failed forks are logged and the loop goes on (main.cpp lines
\* 107 to 123).
ServerKeepsAccepting == []<>(parent = "accept")

\* When a client is gone, its child ends and every copy of its socket is closed,
\* for good; except that a child that waits for the event connection of a
\* client that died before it could connect does not notice (instance.cpp line
\* 111).
NothingLeftBehind ==
  \A c \in Clients : client[c] = "gone" ~>
    [](child[c] = "accepting" \/ (holders[c] = {} /\ child[c] \in {"none", "ended"}))
=============================================================================

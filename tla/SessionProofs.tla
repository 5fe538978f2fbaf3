---------------------------- MODULE SessionProofs ----------------------------
(***************************************************************************)
(* Proofs about Session, for every set of clients, every choice of build   *)
(* options, any number of ports tried and any length of the backlog.       *)
(***************************************************************************)
EXTENDS Session, SequenceTheorems, TLAPS

-----------------------------------------------------------------------------
(* The inductive invariant. *)

Types ==
  /\ parent \in {"start", "accept", "fork", "close", "down"}
  /\ incoming \in Clients \cup {Parent}
  /\ listeners \subseteq Clients \cup {Parent}
  /\ backlog \in Seq(Clients)
  /\ holders \in [Clients -> SUBSET (Clients \cup {Parent})]
  /\ client \in [Clients -> {"off", "version", "asked", "port", "ready", "waiting", "nostream", "gone"}]
  /\ mStream \in [Clients -> BOOLEAN] /\ events \in [Clients -> BOOLEAN]
  /\ toServer \in [Clients -> Seq({"open", "request", "terminate"})]
  /\ toClient \in [Clients -> Seq({"version", "port", "zero", "reply"})]
  /\ child \in [Clients -> {"none", "start", "idle", "bind", "bound", "accepting", "ended"}]
  /\ port \in [Clients -> {"none", "bound", "listening", "connected"}]
  /\ mEventStream \in [Clients -> BOOLEAN]

\* Who has which socket open.
SocketInv ==
  /\ parent # "down" => Parent \in listeners
  /\ incoming \in Clients <=> parent \in {"fork", "close"}
  /\ parent = "fork" => Parent \in holders[incoming]
  /\ \A c \in Clients : holders[c] \subseteq {Parent, c}
  /\ \A c \in Clients : Parent \in holders[c] => incoming = c
  /\ \A c \in Clients : c \in holders[c] <=> child[c] \notin {"none", "ended"}
  /\ \A c \in Clients : c \in listeners => child[c] = "start"

\* A client connects once, and has at most one child.
FreshInv ==
  /\ parent = "fork" => child[incoming] = "none"
  /\ \A i \in DOMAIN backlog : /\ child[backlog[i]] = "none" /\ client[backlog[i]] # "off"
                               /\ backlog[i] # incoming
  /\ \A i, j \in DOMAIN backlog : backlog[i] = backlog[j] => i = j
  /\ \A c \in Clients : client[c] = "off" => child[c] = "none" /\ c # incoming

\* An incompatible client goes on only when the connection is lost.
Compatible(c) == isCompatibleWith(build[c], server)
Stopped(c) ==
  /\ client[c] \notin {"asked", "port"}
  /\ client[c] \in {"ready", "waiting"} => ~ServerEnd(c)
  /\ \A i \in DOMAIN toServer[c] : toServer[c][i] = "terminate"
CompatibleInv == \A c \in Clients : Compatible(c) \/ Stopped(c)

\* Where the two ends of a conversation are, when event connections do not fail.
Quiet(c)    == toServer[c] = << >> /\ toClient[c] = << >>
NoEvents(c) == ~events[c] /\ ~mEventStream[c]
Lost(c)     == child[c] = "none" /\ ~ServerEnd(c) /\ Quiet(c) /\ NoEvents(c)
Serving(c)  ==
  \/ child[c] = "idle" /\ (events[c] <=> mEventStream[c])
  \/ child[c] = "accepting" /\ port[c] = "connected" /\ events[c] /\ ~mEventStream[c]

Off(c)     == child[c] = "none" /\ Quiet(c) /\ NoEvents(c)
Version(c) ==
  /\ toServer[c] = << >> /\ NoEvents(c)
  /\ \/ child[c] \in {"none", "start"} /\ toClient[c] = << >>
     \/ child[c] = "idle" /\ toClient[c] = <<"version">>
Asked(c)   ==
  /\ NoEvents(c)
  /\ \/ child[c] = "idle" /\ toServer[c] = <<"open">> /\ toClient[c] = << >>
     \/ child[c] = "bind" /\ Quiet(c)
     \/ child[c] = "bound" /\ port[c] = "bound" /\ toServer[c] = << >> /\ toClient[c] = <<"port">>
     \/ child[c] = "accepting" /\ port[c] = "listening" /\ toServer[c] = << >> /\ toClient[c] = <<"port">>
     \/ child[c] = "idle" /\ toServer[c] = << >> /\ toClient[c] = <<"zero">>
ToConnect(c) ==
  /\ NoEvents(c) /\ Quiet(c)
  /\ \/ child[c] = "bound" /\ port[c] = "bound"
     \/ child[c] = "accepting" /\ port[c] = "listening"
Ready(c)   == Lost(c) \/ (Serving(c) /\ Quiet(c))
Waiting(c) ==
  \/ Lost(c)
  \/ Serving(c) /\ toServer[c] = <<"request">> /\ toClient[c] = << >>
  \/ Serving(c) /\ child[c] = "idle" /\ toServer[c] = << >> /\ toClient[c] = <<"reply">>

Phase(c) ==
  /\ mStream[c] <=> client[c] \in {"version", "asked", "port", "ready", "waiting"}
  /\ ~mStream[c] => toClient[c] = << >>
  /\ client[c] = "off" => Off(c)
  /\ client[c] = "version" => Version(c)
  /\ client[c] = "asked" => Asked(c)
  /\ client[c] = "port" => ToConnect(c)
  /\ client[c] = "ready" => Ready(c)
  /\ client[c] = "waiting" => Waiting(c)
PhaseInv == "event" \notin Failures => \A c \in Clients : Phase(c)

IInv == Types /\ SocketInv /\ FreshInv /\ CompatibleInv /\ PhaseInv
-----------------------------------------------------------------------------
(* What is common to all steps. *)

\* Sequences of one element.
LEMMA Single ==
  ASSUME NEW x
  PROVE  /\ Tail(<<x>>) = << >> /\ Head(<<x>>) = x /\ <<x>> # << >> /\ Len(<<x>>) = 1
         /\ <<x>>[1] = x /\ Append(<< >>, x) = <<x>>
<1>1. Head(<<x>>) = x /\ <<x>> # << >> /\ Len(<<x>>) = 1 /\ <<x>>[1] = x
  OBVIOUS
<1>2. Tail(<<x>>) = << >>
  OBVIOUS
<1>3. Append(<< >>, x) = <<x>>
  OBVIOUS
<1> QED BY <1>1, <1>2, <1>3

\* Nothing is known yet of any client.
LEMMA InitIInv == Init => IInv
<1> SUFFICES ASSUME Init PROVE IInv
  OBVIOUS
<1> USE SessionAssumption DEF Init, SessionAssumption
<1>1. Types
  BY DEF Types
<1>2. SocketInv
  BY DEF SocketInv
<1>3. FreshInv
  BY DEF FreshInv
<1>4. CompatibleInv
  BY DEF CompatibleInv, Stopped
<1>5. PhaseInv
  BY DEF PhaseInv, Phase, Off, Quiet, NoEvents
<1> QED BY <1>1, <1>2, <1>3, <1>4, <1>5 DEF IInv

\* A step that leaves client d and its child alone.
Same(d) == UNCHANGED <<client[d], mStream[d], events[d], toServer[d], toClient[d],
                       child[d], port[d], mEventStream[d]>>

\* The others keep their part of the invariant, as long as a closed connection
\* is not opened again.
LEMMA OthersKeep ==
  ASSUME IInv, NEW d \in Clients, Same(d), UNCHANGED <<server, build>>, ServerEnd(d)' => ServerEnd(d)
  PROVE  /\ (Compatible(d) \/ Stopped(d))'
         /\ "event" \notin Failures => Phase(d)'
<1>1. (Compatible(d) \/ Stopped(d))'
  BY DEF IInv, CompatibleInv, Compatible, Stopped, Same, isCompatibleWith, compressionEnabled
<1>2. ASSUME "event" \notin Failures
      PROVE  Phase(d)'
  <2>1. Phase(d)
    BY <1>2 DEF IInv, PhaseInv
  <2>2. /\ Quiet(d)' = Quiet(d) /\ NoEvents(d)' = NoEvents(d) /\ Serving(d)' = Serving(d)
        /\ Off(d)' = Off(d) /\ Version(d)' = Version(d) /\ Asked(d)' = Asked(d)
        /\ ToConnect(d)' = ToConnect(d)
    BY DEF Same, Quiet, NoEvents, Serving, Off, Version, Asked, ToConnect
  <2>3. Lost(d) => Lost(d)'
    BY <2>2 DEF Lost, Same
  <2>4. Ready(d) => Ready(d)'
    BY <2>2, <2>3 DEF Ready
  <2>5. Waiting(d) => Waiting(d)'
    BY <2>2, <2>3 DEF Waiting, Same
  <2> QED BY <2>1, <2>2, <2>4, <2>5 DEF Phase, Same
<1> QED BY <1>1, <1>2

\* A step of client c or of its child.
LEMMA OneKeeps ==
  ASSUME IInv, NEW c \in Clients, UNCHANGED <<server, build>>,
         \A d \in Clients : d # c => Same(d) /\ (ServerEnd(d)' => ServerEnd(d)),
         Types', SocketInv', FreshInv', (Compatible(c) \/ Stopped(c))',
         "event" \notin Failures => Phase(c)'
  PROVE  IInv'
<1>1. \A d \in Clients : (Compatible(d) \/ Stopped(d))' /\ ("event" \notin Failures => Phase(d)')
  BY OthersKeep
<1> QED BY <1>1 DEF IInv, CompatibleInv, PhaseInv

-----------------------------------------------------------------------------
(* The server process. *)

\* No step of the parent opens a connection that was closed.
LEMMA ParentOpensNothing ==
  ASSUME IInv, ParentStep, NEW d \in Clients, ServerEnd(d)'
  PROVE  ServerEnd(d)
<1> USE DEF IInv, Types, SocketInv
<1>1. CASE ParentListen
  BY <1>1 DEF ParentListen, ServerEnd
<1>2. CASE ParentAccept
  <2>1. /\ backlog # << >> /\ Parent \in listeners /\ backlog' = Tail(backlog)
        /\ holders' = holders \/ holders' = [holders EXCEPT ![Head(backlog)] = {Parent}]
        /\ listeners' \subseteq listeners
    BY <1>2 DEF ParentAccept
  <2>2. \A i \in 1 .. Len(backlog') : i + 1 \in 1 .. Len(backlog) /\ backlog'[i] = backlog[i + 1]
    BY <2>1
  <2>3. 1 \in 1 .. Len(backlog) /\ Head(backlog) = backlog[1]
    BY <2>1
  <2> QED BY <2>1, <2>2, <2>3 DEF ServerEnd
<1>3. CASE ParentFork
  BY <1>3 DEF ParentFork, ServerEnd
<1>4. CASE ParentClose
  BY <1>4 DEF ParentClose, ServerEnd
<1> QED BY <1>1, <1>2, <1>3, <1>4 DEF ParentStep

\* The parent accepts, forks and closes its copy.
LEMMA ParentStepKeeps ==
  ASSUME IInv, ParentStep
  PROVE  IInv'
<1>1. /\ UNCHANGED <<server, build, client, mStream, events, toServer, toClient, port, mEventStream>>
      /\ ParentFork \/ child' = child
  BY DEF ParentStep, ParentListen, ParentAccept, ParentFork, ParentClose, clientVars, childVars
<1>2. Types' /\ SocketInv' /\ FreshInv'
  <2> USE SessionAssumption DEF IInv, SessionAssumption
  <2>1. CASE ParentListen
    BY <1>1, <2>1 DEF ParentListen, childVars, Types, SocketInv, FreshInv
  <2>2. CASE ParentAccept
    <3>1. /\ parent = "accept" /\ backlog # << >> /\ backlog' = Tail(backlog) /\ child' = child
          /\ \/ /\ incoming' = Head(backlog) /\ parent' = "fork" /\ listeners' = listeners
                /\ holders' = [holders EXCEPT ![Head(backlog)] = {Parent}]
             \/ UNCHANGED <<incoming, parent, holders, listeners>>
             \/ parent' = "down" /\ UNCHANGED <<incoming, holders>> /\ listeners' = listeners \ {Parent}
      BY <2>2 DEF ParentAccept, childVars
    <3>2. /\ backlog \in Seq(Clients) /\ backlog' \in Seq(Clients)
          /\ Head(backlog) \in Clients /\ Head(backlog) = backlog[1] /\ 1 \in DOMAIN backlog
      BY <3>1 DEF Types
    <3>3. \A i \in DOMAIN backlog' : i + 1 \in DOMAIN backlog /\ i + 1 # 1 /\ backlog'[i] = backlog[i + 1]
                                     /\ i \in Nat
      BY <3>1, <3>2
    <3>4. Types'
      <4>1. holders' \in [Clients -> SUBSET (Clients \cup {Parent})]
        BY <3>1, <3>2 DEF Types
      <4> QED BY <1>1, <3>1, <3>2, <4>1 DEF Types
    <3>5. \A c \in Clients : holders'[c] = holders[c] \/ (c = Head(backlog) /\ holders'[c] = {Parent} /\ incoming' = c)
      BY <3>1, <3>2 DEF Types
    <3>6. child[Head(backlog)] = "none" /\ incoming \notin Clients
      BY <3>1, <3>2 DEF FreshInv, SocketInv
    <3>7. \A c \in Clients : Parent \notin holders[c]
      BY <3>6 DEF SocketInv
    <3>8. SocketInv'
      <4>1. CASE incoming' = Head(backlog) /\ parent' = "fork" /\ listeners' = listeners
                /\ holders' = [holders EXCEPT ![Head(backlog)] = {Parent}]
        <5>1. holders'[Head(backlog)] = {Parent} /\ \A c \in Clients : c # Head(backlog) => holders'[c] = holders[c]
          BY <3>2, <4>1 DEF Types
        <5> QED BY <3>1, <3>2, <3>6, <3>7, <4>1, <5>1 DEF SocketInv
      <4>2. CASE UNCHANGED <<incoming, parent, holders, listeners>>
        BY <3>1, <4>2 DEF SocketInv
      <4>3. CASE parent' = "down" /\ UNCHANGED <<incoming, holders>> /\ listeners' = listeners \ {Parent}
        BY <3>1, <3>6, <4>3 DEF SocketInv
      <4> QED BY <3>1, <4>1, <4>2, <4>3
    <3>9. FreshInv'
      <4>1. \A i, j \in DOMAIN backlog' : backlog'[i] = backlog'[j] => i = j
        BY <3>3 DEF FreshInv
      <4>2. \A i \in DOMAIN backlog' : backlog'[i] # Head(backlog)
        BY <3>2, <3>3 DEF FreshInv
      <4>3. \A i \in DOMAIN backlog' : /\ child'[backlog'[i]] = "none" /\ client'[backlog'[i]] # "off"
                                       /\ backlog'[i] # incoming'
        BY <1>1, <3>1, <3>3, <4>2 DEF FreshInv
      <4>4. \A c \in Clients : client'[c] = "off" => child'[c] = "none" /\ c # incoming'
        BY <1>1, <3>1, <3>2 DEF FreshInv
      <4>5. parent' = "fork" => child'[incoming'] = "none"
        BY <3>1, <3>6
      <4> QED BY <4>1, <4>3, <4>4, <4>5 DEF FreshInv
    <3> QED BY <3>4, <3>8, <3>9
  <2>3. CASE ParentFork
    <3>1. /\ parent = "fork" /\ parent' = "close" /\ UNCHANGED <<incoming, backlog>>
          /\ \/ /\ child' = [child EXCEPT ![incoming] = "start"]
                /\ listeners' = listeners \cup {incoming}
                /\ holders' = [c \in Clients |->
                     IF Parent \in holders[c] THEN holders[c] \cup {incoming} ELSE holders[c]]
             \/ UNCHANGED <<child, listeners, holders>>
      BY <2>3 DEF ParentFork
    <3>2. incoming \in Clients /\ incoming # Parent /\ child[incoming] = "none"
      BY <3>1 DEF SocketInv, FreshInv
    <3>3. CASE UNCHANGED <<child, listeners, holders>>
      BY <1>1, <3>1, <3>2, <3>3 DEF Types, SocketInv, FreshInv
    <3>4. CASE /\ child' = [child EXCEPT ![incoming] = "start"]
               /\ listeners' = listeners \cup {incoming}
               /\ holders' = [c \in Clients |->
                     IF Parent \in holders[c] THEN holders[c] \cup {incoming} ELSE holders[c]]
      <4>1. child'[incoming] = "start" /\ \A c \in Clients : c # incoming => child'[c] = child[c]
        BY <3>2, <3>4 DEF Types
      <4>2. /\ \A c \in Clients : c # incoming => holders'[c] = holders[c]
            /\ holders'[incoming] = holders[incoming] \cup {incoming} /\ Parent \in holders[incoming]
        BY <3>1, <3>2, <3>4 DEF SocketInv
      <4>3. Types'
        <5>1. child' \in [Clients -> {"none", "start", "idle", "bind", "bound", "accepting", "ended"}]
          BY <3>4 DEF Types
        <5>2. holders' \in [Clients -> SUBSET (Clients \cup {Parent})]
          BY <3>2, <3>4 DEF Types
        <5> QED BY <1>1, <3>1, <3>2, <3>4, <5>1, <5>2 DEF Types
      <4>4. SocketInv'
        BY <3>1, <3>2, <3>4, <4>1, <4>2 DEF SocketInv
      <4>5. FreshInv'
        BY <1>1, <3>1, <3>2, <4>1 DEF FreshInv, Types
      <4> QED BY <4>3, <4>4, <4>5
    <3> QED BY <3>1, <3>3, <3>4
  <2>4. CASE ParentClose
    <3>1. /\ parent = "close" /\ parent' = "accept" /\ incoming' = Parent /\ incoming \in Clients
          /\ UNCHANGED <<listeners, backlog, child>>
          /\ holders' = [holders EXCEPT ![incoming] = @ \ {Parent}]
      BY <2>4 DEF ParentClose, childVars, SocketInv
    <3>2. /\ holders'[incoming] = holders[incoming] \ {Parent}
          /\ \A c \in Clients : c # incoming => holders'[c] = holders[c]
      BY <3>1 DEF Types
    <3>3. Types'
      <4>1. holders' \in [Clients -> SUBSET (Clients \cup {Parent})]
        BY <3>1 DEF Types
      <4> QED BY <1>1, <3>1, <4>1 DEF Types
    <3>4. SocketInv'
      BY <3>1, <3>2 DEF SocketInv
    <3>5. FreshInv'
      BY <1>1, <3>1 DEF FreshInv, Types
    <3> QED BY <3>3, <3>4, <3>5
  <2> QED BY <2>1, <2>2, <2>3, <2>4 DEF ParentStep
<1>3. ASSUME NEW d \in Clients
      PROVE  (Compatible(d) \/ Stopped(d))' /\ ("event" \notin Failures => Phase(d)')
  <2>1. CASE child'[d] = child[d]
    <3>1. Same(d)
      BY <1>1, <2>1 DEF Same
    <3> QED BY <1>1, <3>1, OthersKeep, ParentOpensNothing
  <2>2. CASE child'[d] # child[d]
    <3>1. ParentFork /\ d = incoming /\ child[d] = "none" /\ child'[d] = "start"
      BY <1>1, <2>2 DEF ParentFork, IInv, Types, FreshInv
    <3>2. ServerEnd(d) /\ client[d] # "off"
      BY <3>1 DEF ParentFork, IInv, SocketInv, FreshInv, ServerEnd
    <3>3. (Compatible(d) \/ Stopped(d))'
      BY <1>1, <3>2, ParentOpensNothing DEF IInv, CompatibleInv, Compatible, Stopped, isCompatibleWith, compressionEnabled
    <3>4. ASSUME "event" \notin Failures
          PROVE  Phase(d)'
      <4>1. Phase(d)
        BY <3>4 DEF IInv, PhaseInv
      <4>2. client[d] \notin {"asked", "port", "ready", "waiting"}
        BY <3>1, <3>2, <4>1 DEF Phase, Asked, ToConnect, Ready, Waiting, Lost, Serving
      <4>3. client[d] = "version" => Version(d)'
        BY <1>1, <3>1, <4>1 DEF Phase, Version, NoEvents
      <4> QED BY <1>1, <3>2, <4>1, <4>2, <4>3 DEF Phase
    <3> QED BY <3>3, <3>4
  <2> QED BY <2>1, <2>2
<1>4. CompatibleInv'
  BY <1>3 DEF CompatibleInv
<1>5. PhaseInv'
  BY <1>3 DEF PhaseInv
<1> QED BY <1>2, <1>4, <1>5 DEF IInv
-----------------------------------------------------------------------------
(* The child. *)

\* A child that ends closes only what is its own.
LEMMA ChildEndsKeeps ==
  ASSUME IInv, NEW c \in Clients, ChildEnds(c), child[c] \in {"start", "idle"},
         ~mStream[c] \/ (toServer[c] # << >> /\ Head(toServer[c]) = "terminate")
  PROVE  IInv'
<1> USE SessionAssumption DEF SessionAssumption
<1>1. /\ UNCHANGED <<server, build, parent, incoming, backlog, client, mStream, events, toServer, toClient>>
      /\ child' = [child EXCEPT ![c] = "ended"]
      /\ holders' = [d \in Clients |-> holders[d] \ {c}]
      /\ listeners' = listeners \ {c}
      /\ mEventStream' = [mEventStream EXCEPT ![c] = FALSE]
      /\ port' = [port EXCEPT ![c] = "none"]
  BY DEF ChildEnds, clientVars
<1>2. \A d \in Clients : d # c => Same(d) /\ child'[d] = child[d]
  BY <1>1 DEF Same, IInv, Types
<1>3. child'[c] = "ended" /\ \A d \in Clients : holders'[d] = holders[d] \ {c}
  BY <1>1 DEF IInv, Types
<1>4. \A d \in Clients : ServerEnd(d)' => ServerEnd(d)
  BY <1>1, <1>3 DEF ServerEnd
<1>5. Types'
  <2>1. /\ child' \in [Clients -> {"none", "start", "idle", "bind", "bound", "accepting", "ended"}]
        /\ mEventStream' \in [Clients -> BOOLEAN]
        /\ port' \in [Clients -> {"none", "bound", "listening", "connected"}]
    BY <1>1 DEF IInv, Types
  <2>2. holders' \in [Clients -> SUBSET (Clients \cup {Parent})] /\ listeners' \subseteq Clients \cup {Parent}
    BY <1>1 DEF IInv, Types
  <2> QED BY <1>1, <2>1, <2>2 DEF IInv, Types
<1>6. SocketInv'
  BY <1>1, <1>2, <1>3 DEF IInv, SocketInv
<1>7. FreshInv'
  BY <1>1, <1>2, <1>3 DEF IInv, FreshInv, Types
<1>8. (Compatible(c) \/ Stopped(c))'
  BY <1>1, <1>4 DEF IInv, CompatibleInv, Compatible, Stopped, isCompatibleWith, compressionEnabled
<1>9. ASSUME "event" \notin Failures
      PROVE  Phase(c)'
  <2>1. Phase(c)
    BY <1>9 DEF IInv, PhaseInv
  <2>2. ~mStream[c] /\ client[c] # "off"
    <3>1. client[c] # "off"
      BY <2>1 DEF Phase, Off
    <3>2. ASSUME mStream[c]
          PROVE  FALSE
      <4>1. toServer[c] # << >> /\ Head(toServer[c]) = "terminate"
        BY <3>2
      <4>2. toServer[c] = <<"open">> \/ toServer[c] = <<"request">>
        BY <2>1, <3>2, <4>1 DEF Phase, Version, Asked, ToConnect, Ready, Waiting, Lost, Quiet
      <4> QED BY <4>1, <4>2
    <3> QED BY <3>1, <3>2
  <2> QED BY <1>1, <2>1, <2>2 DEF Phase
<1> QED BY <1>1, <1>2, <1>4, <1>5, <1>6, <1>7, <1>8, <1>9, OneKeeps

\* A step in which a child goes on, keeps its sockets (but may close the
\* listening one) and answers.
LEMMA ChildGoesOnKeeps ==
  ASSUME IInv, NEW c \in Clients,
         UNCHANGED <<server, build, parent, incoming, backlog, holders, client, mStream, events>>,
         child[c] \notin {"none", "ended"}, child'[c] \notin {"none", "start", "ended"},
         listeners' = listeners \ {c},
         \A d \in Clients : d # c => Same(d),
         Types', \A i \in DOMAIN toServer'[c] : \E j \in DOMAIN toServer[c] : toServer'[c][i] = toServer[c][j],
         "event" \notin Failures => Phase(c)'
  PROVE  IInv'
<1> USE SessionAssumption DEF SessionAssumption
<1>1. \A d \in Clients : d # c => child'[d] = child[d]
  BY DEF Same
<1>2. \A d \in Clients : ServerEnd(d)' => ServerEnd(d)
  BY DEF ServerEnd
<1>3. SocketInv'
  BY <1>1 DEF IInv, SocketInv
<1>4. FreshInv'
  <2>1. client[c] # "off" /\ \A i \in DOMAIN backlog : backlog[i] # c
    BY DEF IInv, FreshInv
  <2>2. parent = "fork" => incoming # c /\ incoming \in Clients
    BY DEF IInv, FreshInv, SocketInv
  <2> QED BY <1>1, <2>1, <2>2 DEF IInv, FreshInv, Types
<1>5. (Compatible(c) \/ Stopped(c))'
  BY <1>2 DEF IInv, CompatibleInv, Compatible, Stopped, isCompatibleWith, compressionEnabled
<1> QED BY <1>2, <1>3, <1>4, <1>5, OneKeeps

\* server.close(), and the version, which the client waits for.
LEMMA ChildStartKeeps ==
  ASSUME IInv, NEW c \in Clients, ChildStart(c)
  PROVE  IInv'
<1>1. CASE ~mStream[c] /\ ChildEnds(c)
  BY <1>1, ChildEndsKeeps DEF ChildStart
<1>2. CASE /\ child' = [child EXCEPT ![c] = "idle"]
           /\ listeners' = listeners \ {c}
           /\ toClient' = [toClient EXCEPT ![c] = IF mStream[c] THEN Append(@, "version") ELSE @]
           /\ UNCHANGED <<server, build, parent, incoming, listening, backlog, holders, clientVars,
                          triesLeft, mEventStream, toServer, port>>
  <2>1. child[c] = "start" /\ UNCHANGED <<client, mStream, events>>
    BY <1>2 DEF ChildStart, clientVars
  <2>2. \A d \in Clients : d # c => Same(d)
    BY <1>2, <2>1 DEF Same, IInv, Types
  <2>3. child'[c] = "idle" /\ toClient'[c] = (IF mStream[c] THEN Append(toClient[c], "version") ELSE toClient[c])
    BY <1>2 DEF IInv, Types
  <2>4. Types'
    <3>1. child' \in [Clients -> {"none", "start", "idle", "bind", "bound", "accepting", "ended"}]
      BY <1>2 DEF IInv, Types
    <3>2. toClient' \in [Clients -> Seq({"version", "port", "zero", "reply"})]
      BY <1>2 DEF IInv, Types
    <3> QED BY <1>2, <2>1, <3>1, <3>2 DEF IInv, Types
  <2>5. ASSUME "event" \notin Failures
        PROVE  Phase(c)'
    <3>1. Phase(c)
      BY <2>5 DEF IInv, PhaseInv
    <3>2. client[c] \notin {"off", "asked", "port", "ready", "waiting"}
      BY <2>1, <3>1 DEF Phase, Off, Asked, ToConnect, Ready, Waiting, Lost, Serving
    <3>3. CASE client[c] = "version"
      <4>1. mStream[c] /\ toClient[c] = << >> /\ toServer[c] = << >> /\ NoEvents(c)
        BY <2>1, <3>1, <3>3 DEF Phase, Version
      <4>2. toClient'[c] = <<"version">>
        BY <2>3, <4>1, Single
      <4>3. Version(c)'
        BY <1>2, <2>1, <2>3, <4>1, <4>2 DEF Version, NoEvents
      <4> QED BY <2>1, <3>3, <4>1, <4>3 DEF Phase
    <3>4. CASE client[c] # "version"
      BY <2>1, <2>3, <3>1, <3>2, <3>4 DEF Phase
    <3> QED BY <3>3, <3>4
  <2> QED BY <1>2, <2>1, <2>2, <2>3, <2>4, <2>5, ChildGoesOnKeeps
<1> QED BY <1>1, <1>2 DEF ChildStart

\* A child that does not have the listening socket leaves the listeners alone.
LEMMA NotListening ==
  ASSUME IInv, NEW c \in Clients, child[c] # "start"
  PROVE  listeners = listeners \ {c}
BY DEF IInv, SocketInv

\* handleNextPacket: the question, a request, or the end.
LEMMA ChildServeKeeps ==
  ASSUME IInv, NEW c \in Clients, ChildServe(c)
  PROVE  IInv'
<1>1. child[c] = "idle" /\ listeners = listeners \ {c}
  BY NotListening DEF ChildServe
<1>2. CASE /\ IF toServer[c] = << >> THEN ~mStream[c] ELSE Head(toServer[c]) = "terminate"
           /\ ChildEnds(c)
  BY <1>1, <1>2, ChildEndsKeeps
<1>3. CASE /\ toServer[c] # << >> /\ Head(toServer[c]) = "open"
           /\ child' = [child EXCEPT ![c] = "bind"]
           /\ toServer' = [toServer EXCEPT ![c] = Tail(@)]
           /\ UNCHANGED <<server, build, parentVars, clientVars, mEventStream, toClient, port>>
  <2>1. UNCHANGED <<server, build, parent, incoming, listeners, backlog, holders, client, mStream, events, toClient>>
    BY <1>3 DEF parentVars, clientVars
  <2>2. \A d \in Clients : d # c => Same(d)
    BY <1>3, <2>1 DEF Same, IInv, Types
  <2>3. child'[c] = "bind" /\ toServer'[c] = Tail(toServer[c])
    BY <1>3 DEF IInv, Types
  <2>4. toServer[c] \in Seq({"open", "request", "terminate"})
    BY DEF IInv, Types
  <2>5. Types'
    <3>1. child' \in [Clients -> {"none", "start", "idle", "bind", "bound", "accepting", "ended"}]
      BY <1>3 DEF IInv, Types
    <3>2. Tail(toServer[c]) \in Seq({"open", "request", "terminate"})
      BY <1>3, <2>4
    <3>3. toServer' \in [Clients -> Seq({"open", "request", "terminate"})]
      BY <1>3, <3>2 DEF IInv, Types
    <3> QED BY <1>3, <2>1, <3>1, <3>3 DEF IInv, Types
  <2>6. \A i \in DOMAIN toServer'[c] : \E j \in DOMAIN toServer[c] : toServer'[c][i] = toServer[c][j]
    <3>1. \A i \in DOMAIN Tail(toServer[c]) : i + 1 \in DOMAIN toServer[c] /\ Tail(toServer[c])[i] = toServer[c][i + 1]
      BY <1>3, <2>4
    <3> QED BY <2>3, <3>1
  <2>7. ASSUME "event" \notin Failures
        PROVE  Phase(c)'
    <3>1. Phase(c)
      BY <2>7 DEF IInv, PhaseInv
    <3>2. client[c] \notin {"off", "version", "port", "ready"}
      BY <1>1, <1>3, <3>1 DEF Phase, Off, Version, ToConnect, Ready, Lost, Quiet
    <3>3. client[c] # "waiting"
      BY <1>1, <1>3, <3>1, Single DEF Phase, Waiting, Lost, Quiet
    <3>4. CASE client[c] = "asked"
      <4>1. mStream[c] /\ toServer[c] = <<"open">> /\ toClient[c] = << >> /\ NoEvents(c)
        BY <1>1, <1>3, <3>1, <3>4 DEF Phase, Asked
      <4>2. toServer'[c] = << >>
        BY <2>3, <4>1, Single
      <4>3. Asked(c)'
        BY <1>3, <2>1, <2>3, <4>1, <4>2 DEF Asked, NoEvents, Quiet
      <4> QED BY <2>1, <3>4, <4>1, <4>3 DEF Phase
    <3>5. CASE client[c] # "asked"
      BY <2>1, <3>1, <3>2, <3>3, <3>5 DEF Phase
    <3> QED BY <3>4, <3>5
  <2> QED BY <1>1, <2>1, <2>2, <2>3, <2>5, <2>6, <2>7, ChildGoesOnKeeps
<1>4. CASE /\ toServer[c] # << >> /\ Head(toServer[c]) = "request"
           /\ toServer' = [toServer EXCEPT ![c] = Tail(@)]
           /\ toClient' = [toClient EXCEPT ![c] = IF mStream[c] THEN Append(@, "reply") ELSE @]
           /\ UNCHANGED <<server, build, parentVars, clientVars, childVars, port>>
  <2>1. UNCHANGED <<server, build, parent, incoming, listeners, backlog, holders, client, mStream, events,
                    child, mEventStream>>
    BY <1>4 DEF parentVars, clientVars, childVars
  <2>2. \A d \in Clients : d # c => Same(d)
    BY <1>4, <2>1 DEF Same, IInv, Types
  <2>3. /\ toServer'[c] = Tail(toServer[c])
        /\ toClient'[c] = (IF mStream[c] THEN Append(toClient[c], "reply") ELSE toClient[c])
    BY <1>4 DEF IInv, Types
  <2>4. toServer[c] \in Seq({"open", "request", "terminate"})
    BY DEF IInv, Types
  <2>5. Types'
    <3>1. Tail(toServer[c]) \in Seq({"open", "request", "terminate"})
      BY <1>4, <2>4
    <3>2. toServer' \in [Clients -> Seq({"open", "request", "terminate"})]
      BY <1>4, <3>1 DEF IInv, Types
    <3>3. toClient' \in [Clients -> Seq({"version", "port", "zero", "reply"})]
      BY <1>4 DEF IInv, Types
    <3> QED BY <1>4, <2>1, <3>2, <3>3 DEF IInv, Types
  <2>6. \A i \in DOMAIN toServer'[c] : \E j \in DOMAIN toServer[c] : toServer'[c][i] = toServer[c][j]
    <3>1. \A i \in DOMAIN Tail(toServer[c]) : i + 1 \in DOMAIN toServer[c] /\ Tail(toServer[c])[i] = toServer[c][i + 1]
      BY <1>4, <2>4
    <3> QED BY <2>3, <3>1
  <2>7. ASSUME "event" \notin Failures
        PROVE  Phase(c)'
    <3>1. Phase(c)
      BY <2>7 DEF IInv, PhaseInv
    <3>2. client[c] \notin {"off", "version", "port", "ready"}
      BY <1>1, <1>4, <3>1 DEF Phase, Off, Version, ToConnect, Ready, Lost, Quiet
    <3>3. client[c] # "asked"
      BY <1>1, <1>4, <3>1, Single DEF Phase, Asked
    <3>4. CASE client[c] = "waiting"
      <4>1. mStream[c] /\ toServer[c] = <<"request">> /\ toClient[c] = << >> /\ Serving(c)
        BY <1>1, <1>4, <3>1, <3>4 DEF Phase, Waiting, Lost, Quiet
      <4>2. toServer'[c] = << >> /\ toClient'[c] = <<"reply">>
        BY <2>3, <4>1, Single
      <4>3. Serving(c)'
        BY <1>4, <2>1, <4>1 DEF Serving
      <4>4. Waiting(c)'
        BY <1>1, <2>1, <4>2, <4>3 DEF Waiting
      <4> QED BY <2>1, <3>4, <4>1, <4>4 DEF Phase
    <3>5. CASE client[c] # "waiting"
      BY <2>1, <2>3, <3>1, <3>2, <3>3, <3>5 DEF Phase
    <3> QED BY <3>4, <3>5
  <2> QED BY <1>1, <2>1, <2>2, <2>5, <2>6, <2>7, ChildGoesOnKeeps
<1> QED BY <1>2, <1>3, <1>4 DEF ChildServe
\* A step of createEventStream.
LEMMA ChildAnswers ==
  ASSUME IInv, NEW c \in Clients, child[c] \in {"bind", "bound", "accepting"},
         NEW k \in {"idle", "bind", "bound", "accepting"}, child' = [child EXCEPT ![c] = k],
         NEW p \in {"none", "bound", "listening", "connected"}, port' = [port EXCEPT ![c] = p],
         NEW m \in BOOLEAN, mEventStream' = [mEventStream EXCEPT ![c] = m],
         NEW a \in {"port", "zero"},
         \/ toClient' = toClient
         \/ toClient' = [toClient EXCEPT ![c] = IF mStream[c] THEN Append(@, a) ELSE @],
         UNCHANGED <<server, build, parentVars, clientVars, toServer>>,
         "event" \notin Failures => Phase(c)'
  PROVE  IInv'
<1>1. UNCHANGED <<server, build, parent, incoming, listeners, backlog, holders, client, mStream, events, toServer>>
  BY DEF parentVars, clientVars
<1>2. listeners' = listeners \ {c}
  BY <1>1, NotListening
<1>3. \A d \in Clients : d # c => Same(d)
  BY <1>1 DEF Same, IInv, Types
<1>4. child'[c] = k
  BY DEF IInv, Types
<1>5. Types'
  <2>1. child' \in [Clients -> {"none", "start", "idle", "bind", "bound", "accepting", "ended"}]
    BY DEF IInv, Types
  <2>2. port' \in [Clients -> {"none", "bound", "listening", "connected"}]
    BY DEF IInv, Types
  <2>3. mEventStream' \in [Clients -> BOOLEAN]
    BY DEF IInv, Types
  <2>4. toClient' \in [Clients -> Seq({"version", "port", "zero", "reply"})]
    <3>1. toClient[c] \in Seq({"version", "port", "zero", "reply"})
      BY DEF IInv, Types
    <3>2. Append(toClient[c], a) \in Seq({"version", "port", "zero", "reply"})
      BY <3>1
    <3> QED BY <3>1, <3>2 DEF IInv, Types
  <2> QED BY <1>1, <2>1, <2>2, <2>3, <2>4 DEF IInv, Types
<1>6. \A i \in DOMAIN toServer'[c] : \E j \in DOMAIN toServer[c] : toServer'[c][i] = toServer[c][j]
  BY <1>1
<1> QED BY <1>1, <1>2, <1>3, <1>4, <1>5, <1>6, ChildGoesOnKeeps

\* The port that was bound, or zero, answers the question of the client.
LEMMA ChildBindKeeps ==
  ASSUME IInv, NEW c \in Clients, ChildBind(c)
  PROVE  IInv'
<1>1. /\ child[c] = "bind" /\ mEventStream' = mEventStream
      /\ UNCHANGED <<server, build, parentVars, clientVars, toServer>>
  BY DEF ChildBind
<1>2. /\ mEventStream = [mEventStream EXCEPT ![c] = mEventStream[c]] /\ mEventStream[c] \in BOOLEAN
      /\ child = [child EXCEPT ![c] = child[c]]
      /\ port = [port EXCEPT ![c] = port[c]] /\ port[c] \in {"none", "bound", "listening", "connected"}
  BY DEF IInv, Types
<1>3. UNCHANGED <<client, mStream, events, toServer, mEventStream>>
  BY <1>1 DEF clientVars
<1>4. ASSUME "event" \notin Failures
      PROVE  /\ Phase(c) /\ client[c] \notin {"off", "version", "port", "ready", "waiting"}
             /\ client[c] = "asked" => mStream[c] /\ NoEvents(c) /\ Quiet(c)
             /\ client[c] # "asked" => ~mStream[c] /\ toClient[c] = << >>
  <2>1. Phase(c)
    BY <1>4 DEF IInv, PhaseInv
  <2>2. client[c] \notin {"off", "version", "port", "ready", "waiting"}
    BY <1>1, <2>1 DEF Phase, Off, Version, ToConnect, Ready, Waiting, Lost, Serving
  <2>3. client[c] = "asked" => mStream[c] /\ NoEvents(c) /\ Quiet(c)
    BY <1>1, <2>1 DEF Phase, Asked
  <2> QED BY <2>1, <2>2, <2>3 DEF Phase
<1>5. CASE /\ child' = [child EXCEPT ![c] = "bound"]
           /\ port' = [port EXCEPT ![c] = "bound"]
           /\ toClient' = [toClient EXCEPT ![c] = IF mStream[c] THEN Append(@, "port") ELSE @]
  <2>1. /\ child'[c] = "bound" /\ port'[c] = "bound"
        /\ toClient'[c] = (IF mStream[c] THEN Append(toClient[c], "port") ELSE toClient[c])
    BY <1>5 DEF IInv, Types
  <2>2. ASSUME "event" \notin Failures
        PROVE  Phase(c)'
    <3>1. CASE client[c] = "asked"
      <4>1. toClient'[c] = <<"port">> /\ toServer'[c] = << >>
        BY <1>3, <1>4, <2>1, <2>2, <3>1, Single DEF Quiet
      <4>2. NoEvents(c)'
        BY <1>3, <1>4, <2>2, <3>1 DEF NoEvents
      <4>3. Asked(c)'
        BY <2>1, <4>1, <4>2 DEF Asked
      <4> QED BY <1>3, <1>4, <2>2, <3>1, <4>3 DEF Phase
    <3>2. CASE client[c] # "asked"
      BY <1>3, <1>4, <2>1, <2>2, <3>2 DEF Phase
    <3> QED BY <3>1, <3>2
  <2> QED BY <1>1, <1>2, <1>5, <2>2, ChildAnswers
<1>6. CASE GiveUp(c)
  <2>1. /\ child' = [child EXCEPT ![c] = "idle"] /\ port' = [port EXCEPT ![c] = "none"]
        /\ toClient' = [toClient EXCEPT ![c] = IF mStream[c] THEN Append(@, "zero") ELSE @]
    BY <1>6 DEF GiveUp
  <2>2. /\ child'[c] = "idle"
        /\ toClient'[c] = (IF mStream[c] THEN Append(toClient[c], "zero") ELSE toClient[c])
    BY <2>1 DEF IInv, Types
  <2>3. ASSUME "event" \notin Failures
        PROVE  Phase(c)'
    <3>1. CASE client[c] = "asked"
      <4>1. toClient'[c] = <<"zero">> /\ toServer'[c] = << >>
        BY <1>3, <1>4, <2>2, <2>3, <3>1, Single DEF Quiet
      <4>2. NoEvents(c)'
        BY <1>3, <1>4, <2>3, <3>1 DEF NoEvents
      <4>3. Asked(c)'
        BY <2>2, <4>1, <4>2 DEF Asked
      <4> QED BY <1>3, <1>4, <2>3, <3>1, <4>3 DEF Phase
    <3>2. CASE client[c] # "asked"
      BY <1>3, <1>4, <2>2, <2>3, <3>2 DEF Phase
    <3> QED BY <3>1, <3>2
  <2> QED BY <1>1, <1>2, <2>1, <2>3, ChildAnswers
<1>7. CASE UNCHANGED <<child, toClient, port>>
  <2>1. ASSUME "event" \notin Failures
        PROVE  Phase(c)'
    <3>1. client[c] = "asked" => Asked(c)'
      BY <1>1, <1>3, <1>4, <1>7, <2>1 DEF Asked, Quiet, NoEvents
    <3> QED BY <1>3, <1>4, <1>7, <2>1, <3>1 DEF Phase
  <2> QED BY <1>1, <1>2, <1>7, <2>1, ChildAnswers
<1> QED BY <1>5, <1>6, <1>7 DEF ChildBind

\* listen(), before or after the client has read the port.
LEMMA ChildListenKeeps ==
  ASSUME IInv, NEW c \in Clients, ChildListen(c)
  PROVE  IInv'
<1>1. /\ child[c] = "bound" /\ UNCHANGED <<mEventStream, toClient>>
      /\ child' = [child EXCEPT ![c] = "accepting"] /\ port' = [port EXCEPT ![c] = "listening"]
      /\ UNCHANGED <<server, build, parentVars, clientVars, toServer>>
  BY DEF ChildListen
<1>2. mEventStream = [mEventStream EXCEPT ![c] = mEventStream[c]] /\ mEventStream[c] \in BOOLEAN
  BY DEF IInv, Types
<1>3. UNCHANGED <<client, mStream, events>>
  BY <1>1 DEF clientVars
<1>4. child'[c] = "accepting" /\ port'[c] = "listening"
  BY <1>1 DEF IInv, Types
<1>5. ASSUME "event" \notin Failures
      PROVE  Phase(c)'
  <2>1. Phase(c)
    BY <1>5 DEF IInv, PhaseInv
  <2>2. client[c] \notin {"off", "version", "ready", "waiting"}
    BY <1>1, <2>1 DEF Phase, Off, Version, Ready, Waiting, Lost, Serving
  <2>3. client[c] = "asked" => Asked(c)'
    BY <1>1, <1>3, <1>4, <2>1 DEF Phase, Asked, NoEvents
  <2>4. client[c] = "port" => ToConnect(c)'
    BY <1>1, <1>3, <1>4, <2>1 DEF Phase, ToConnect, NoEvents, Quiet
  <2> QED BY <1>1, <1>3, <2>1, <2>2, <2>3, <2>4 DEF Phase
<1> QED BY <1>1, <1>2, <1>5, ChildAnswers

\* accept() of the event socket.
LEMMA ChildAcceptKeeps ==
  ASSUME IInv, NEW c \in Clients, ChildAccept(c)
  PROVE  IInv'
<1>1. child[c] = "accepting" /\ UNCHANGED <<server, build, parentVars, clientVars, toServer>>
  BY DEF ChildAccept
<1>2. /\ mEventStream = [mEventStream EXCEPT ![c] = mEventStream[c]] /\ mEventStream[c] \in BOOLEAN
      /\ port = [port EXCEPT ![c] = port[c]] /\ port[c] \in {"none", "bound", "listening", "connected"}
  BY DEF IInv, Types
<1>3. UNCHANGED <<client, mStream, events>>
  BY <1>1 DEF clientVars
<1>4. CASE /\ port[c] = "connected" /\ child' = [child EXCEPT ![c] = "idle"]
           /\ mEventStream' = [mEventStream EXCEPT ![c] = TRUE] /\ UNCHANGED <<toClient, port>>
  <2>1. child'[c] = "idle" /\ mEventStream'[c] = TRUE
    BY <1>4 DEF IInv, Types
  <2>2. ASSUME "event" \notin Failures
        PROVE  Phase(c)'
    <3>1. Phase(c)
      BY <2>2 DEF IInv, PhaseInv
    <3>2. client[c] \notin {"off", "version", "asked", "port"}
      BY <1>1, <1>4, <3>1 DEF Phase, Off, Version, Asked, ToConnect
    <3>3. client[c] \in {"ready", "waiting"} => Serving(c)'
      BY <1>1, <1>3, <2>1, <3>1 DEF Phase, Ready, Waiting, Lost, Serving
    <3>4. client[c] = "ready" => Ready(c)'
      BY <1>1, <1>4, <3>1, <3>3 DEF Phase, Ready, Lost, Quiet
    <3>5. client[c] = "waiting" => Waiting(c)'
      BY <1>1, <1>4, <3>1, <3>3 DEF Phase, Waiting, Lost
    <3> QED BY <1>3, <1>4, <3>1, <3>2, <3>4, <3>5 DEF Phase
  <2> QED BY <1>1, <1>2, <1>4, <2>2, ChildAnswers
<1>5. CASE "event" \in Failures /\ GiveUp(c) /\ UNCHANGED mEventStream
  BY <1>1, <1>2, <1>5, ChildAnswers DEF GiveUp
<1> QED BY <1>4, <1>5 DEF ChildAccept

-----------------------------------------------------------------------------
(* The client. *)

\* A step of a client that has begun.
LEMMA ClientKeeps ==
  ASSUME IInv, NEW c \in Clients,
         UNCHANGED <<server, build, parentVars, childVars>>,
         client[c] # "off", client'[c] # "off",
         \A d \in Clients : d # c => Same(d),
         Types', (Compatible(c) \/ Stopped(c))', "event" \notin Failures => Phase(c)'
  PROVE  IInv'
<1>1. UNCHANGED <<parent, incoming, listeners, backlog, holders, child, mEventStream>>
  BY DEF parentVars, childVars
<1>2. \A d \in Clients : ServerEnd(d)' => ServerEnd(d)
  BY <1>1 DEF ServerEnd
<1>3. SocketInv'
  BY <1>1 DEF IInv, SocketInv
<1>4. FreshInv'
  <2>1. \A d \in Clients : client[d] # "off" => client'[d] # "off"
    BY DEF Same
  <2>2. \A d \in Clients : client'[d] = "off" => client[d] = "off"
    BY DEF Same
  <2>3. \A i \in DOMAIN backlog : backlog[i] \in Clients
    BY DEF IInv, Types
  <2> QED BY <1>1, <2>1, <2>2, <2>3 DEF IInv, FreshInv
<1> QED BY <1>2, <1>3, <1>4, OneKeeps

\* The constructor connects.
LEMMA ConnectKeeps ==
  ASSUME IInv, NEW c \in Clients, Connect(c)
  PROVE  IInv'
<1>1. /\ client[c] = "off"
      /\ UNCHANGED <<server, build, parent, incoming, listeners, holders, events, child, mEventStream,
                     toServer, toClient, port>>
  BY DEF Connect, childVars
<1>2. CASE /\ client' = [client EXCEPT ![c] = "nostream"] /\ UNCHANGED <<mStream, backlog>>
  <2>1. client'[c] = "nostream" /\ \A d \in Clients : d # c => Same(d)
    BY <1>1, <1>2 DEF Same, IInv, Types
  <2>2. Types'
    <3>1. client' \in [Clients -> {"off", "version", "asked", "port", "ready", "waiting", "nostream", "gone"}]
      BY <1>2 DEF IInv, Types
    <3> QED BY <1>1, <1>2, <3>1 DEF IInv, Types
  <2>3. \A d \in Clients : ServerEnd(d)' => ServerEnd(d)
    BY <1>1, <1>2 DEF ServerEnd
  <2>4. SocketInv'
    BY <1>1 DEF IInv, SocketInv
  <2>5. FreshInv'
    <3>1. \A d \in Clients : (client[d] # "off" => client'[d] # "off") /\ (client'[d] = "off" => client[d] = "off")
      BY <2>1 DEF Same
    <3>2. \A i \in DOMAIN backlog : backlog[i] \in Clients
      BY DEF IInv, Types
    <3> QED BY <1>1, <1>2, <3>1, <3>2 DEF IInv, FreshInv
  <2>6. (Compatible(c) \/ Stopped(c))'
    BY <1>1, <2>1, <2>3 DEF IInv, CompatibleInv, Compatible, Stopped, isCompatibleWith, compressionEnabled
  <2>7. "event" \notin Failures => Phase(c)'
    BY <1>1, <1>2, <2>1 DEF IInv, PhaseInv, Phase
  <2> QED BY <1>1, <2>1, <2>2, <2>3, <2>4, <2>5, <2>6, <2>7, OneKeeps
<1>3. CASE /\ client' = [client EXCEPT ![c] = "version"] /\ mStream' = [mStream EXCEPT ![c] = TRUE]
           /\ backlog' = Append(backlog, c)
  <2>1. client'[c] = "version" /\ mStream'[c] = TRUE /\ \A d \in Clients : d # c => Same(d)
    BY <1>1, <1>3 DEF Same, IInv, Types
  <2>2. /\ backlog \in Seq(Clients) /\ Len(backlog) \in Nat /\ DOMAIN backlog = 1 .. Len(backlog)
        /\ backlog' \in Seq(Clients) /\ Len(backlog') = Len(backlog) + 1
        /\ DOMAIN backlog' = 1 .. Len(backlog) + 1
        /\ backlog'[Len(backlog) + 1] = c /\ \A i \in 1 .. Len(backlog) : backlog'[i] = backlog[i]
    BY <1>3 DEF IInv, Types
  <2>3. Types'
    <3>1. client' \in [Clients -> {"off", "version", "asked", "port", "ready", "waiting", "nostream", "gone"}]
      BY <1>3 DEF IInv, Types
    <3>2. mStream' \in [Clients -> BOOLEAN]
      BY <1>3 DEF IInv, Types
    <3> QED BY <1>1, <2>2, <3>1, <3>2 DEF IInv, Types
  <2>4. \A i \in DOMAIN backlog' : (i \in 1 .. Len(backlog) /\ backlog'[i] = backlog[i]) \/ (i = Len(backlog) + 1 /\ backlog'[i] = c)
    BY <2>2
  <2>5. \A d \in Clients : d # c => (ServerEnd(d)' => ServerEnd(d))
    BY <1>1, <2>2, <2>4 DEF ServerEnd
  <2>6. SocketInv'
    BY <1>1 DEF IInv, SocketInv
  <2>7. FreshInv'
    <3>1. \A d \in Clients : (client[d] # "off" => client'[d] # "off") /\ (client'[d] = "off" => client[d] = "off")
      BY <2>1 DEF Same
    <3>2. \A i \in 1 .. Len(backlog) : backlog[i] \in Clients /\ backlog[i] # c
      BY <1>1, <2>2 DEF IInv, FreshInv
    <3>3. child[c] = "none" /\ c # incoming
      BY <1>1 DEF IInv, FreshInv
    <3>4. \A i, j \in DOMAIN backlog' : backlog'[i] = backlog'[j] => i = j
      BY <2>2, <2>4, <3>2 DEF IInv, FreshInv
    <3>5. \A i \in DOMAIN backlog' : /\ child'[backlog'[i]] = "none" /\ client'[backlog'[i]] # "off"
                                     /\ backlog'[i] # incoming'
      BY <1>1, <2>1, <2>2, <2>4, <3>1, <3>2, <3>3 DEF IInv, FreshInv
    <3> QED BY <1>1, <3>1, <3>4, <3>5 DEF IInv, FreshInv
  <2>8. (Compatible(c) \/ Stopped(c))'
    BY <1>1, <2>1 DEF IInv, CompatibleInv, Compatible, Stopped, isCompatibleWith, compressionEnabled
  <2>9. ASSUME "event" \notin Failures
        PROVE  Phase(c)'
    <3>1. Off(c)
      BY <1>1, <2>9 DEF IInv, PhaseInv, Phase
    <3>2. Version(c)'
      BY <1>1, <3>1 DEF Off, Version, Quiet, NoEvents
    <3> QED BY <2>1, <3>2 DEF Phase
  <2> QED BY <1>1, <2>1, <2>3, <2>5, <2>6, <2>7, <2>8, <2>9, OneKeeps
<1> QED BY <1>2, <1>3 DEF Connect
\* A running child has the connection open.
LEMMA ChildHolds ==
  ASSUME IInv, NEW c \in Clients, ~ServerEnd(c)
  PROVE  child[c] \in {"none", "ended"}
BY DEF IInv, SocketInv, ServerEnd

\* The types of what the client reads and writes.
LEMMA StreamTypes ==
  ASSUME IInv, NEW c \in Clients
  PROVE  /\ toServer[c] \in Seq({"open", "request", "terminate"})
         /\ toClient[c] \in Seq({"version", "port", "zero", "reply"})
         /\ toClient[c] # << >> => Tail(toClient[c]) \in Seq({"version", "port", "zero", "reply"})
         /\ \A x \in {"open", "request", "terminate"} :
              /\ Append(toServer[c], x) \in Seq({"open", "request", "terminate"})
              /\ \A i \in DOMAIN Append(toServer[c], x) :
                   Append(toServer[c], x)[i] = x \/ (i \in DOMAIN toServer[c] /\ Append(toServer[c], x)[i] = toServer[c][i])
<1>1. /\ toServer[c] \in Seq({"open", "request", "terminate"})
      /\ toClient[c] \in Seq({"version", "port", "zero", "reply"})
  BY DEF IInv, Types
<1>2. toClient[c] # << >> => Tail(toClient[c]) \in Seq({"version", "port", "zero", "reply"})
  BY <1>1
<1>3. ASSUME NEW x \in {"open", "request", "terminate"}
      PROVE  /\ Append(toServer[c], x) \in Seq({"open", "request", "terminate"})
             /\ \A i \in DOMAIN Append(toServer[c], x) :
                  Append(toServer[c], x)[i] = x \/ (i \in DOMAIN toServer[c] /\ Append(toServer[c], x)[i] = toServer[c][i])
  BY <1>1
<1> QED BY <1>1, <1>2, <1>3

\* The version decides how the client goes on.
LEMMA ReadVersionKeeps ==
  ASSUME IInv, NEW c \in Clients, ReadVersion(c)
  PROVE  IInv'
<1>1. /\ client[c] = "version" /\ UNCHANGED <<server, build, parentVars, childVars, events, port>>
  BY DEF ReadVersion
<1>2. /\ Compatible(c)' = Compatible(c)
      /\ Compatible(c) \/ Stopped(c)
  BY <1>1 DEF IInv, CompatibleInv, Compatible, isCompatibleWith, compressionEnabled
<1>3. "event" \notin Failures => Phase(c) /\ Version(c) /\ mStream[c]
  BY <1>1 DEF IInv, PhaseInv, Phase
<1>4. CASE toClient[c] # << >> /\ toClient' = [toClient EXCEPT ![c] = Tail(@)]
  <2>1. "event" \notin Failures => Tail(toClient[c]) = << >> /\ toServer[c] = << >> /\ NoEvents(c) /\ child[c] = "idle"
    BY <1>3, <1>4, Single DEF Version
  <2>2. CASE /\ client' = [client EXCEPT ![c] = "nostream"]
             /\ mStream' = [mStream EXCEPT ![c] = FALSE]
             /\ UNCHANGED toServer
    <3>1. /\ Types' /\ \A d \in Clients : d # c => Same(d)
          /\ client'[c] = "nostream" /\ mStream'[c] = FALSE /\ toServer'[c] = toServer[c]
          /\ toClient'[c] = Tail(toClient[c])
      <4>1. Types'
        BY <1>1, <1>4, <2>2, StreamTypes DEF IInv, Types, parentVars, childVars, clientVars
      <4>2. \A d \in Clients : d # c => Same(d)
        BY <1>1, <1>4, <2>2 DEF IInv, Types, parentVars, childVars, clientVars, Same
      <4>3. /\ client'[c] = "nostream"
            /\ mStream'[c] = FALSE
            /\ toServer'[c] = toServer[c]
            /\ toClient'[c] = Tail(toClient[c])
        BY <1>1, <1>4, <2>2 DEF IInv, Types, parentVars, childVars, clientVars
      <4> QED BY <4>1, <4>2, <4>3
    <3>2. (Compatible(c) \/ Stopped(c))'
      BY <1>2, <3>1 DEF Stopped
    <3>3. "event" \notin Failures => Phase(c)'
      BY <2>1, <3>1 DEF Phase
    <3> QED BY <1>1, <3>1, <3>2, <3>3, ClientKeeps
  <2>3. CASE /\ isCompatibleWith(build[c], server)
             /\ client' = [client EXCEPT ![c] = "asked"]
             /\ toServer' = [toServer EXCEPT ![c] = Append(@, "open")]
             /\ UNCHANGED mStream
    <3>1. /\ Types' /\ \A d \in Clients : d # c => Same(d)
          /\ client'[c] = "asked" /\ mStream'[c] = mStream[c] /\ toServer'[c] = Append(toServer[c], "open")
          /\ toClient'[c] = Tail(toClient[c]) /\ child'[c] = child[c]
          /\ events'[c] = events[c] /\ mEventStream'[c] = mEventStream[c]
      <4>1. Types'
        BY <1>1, <1>4, <2>3, StreamTypes DEF IInv, Types, parentVars, childVars, clientVars
      <4>2. \A d \in Clients : d # c => Same(d)
        BY <1>1, <1>4, <2>3 DEF IInv, Types, parentVars, childVars, clientVars, Same
      <4>3. /\ client'[c] = "asked"
            /\ mStream'[c] = mStream[c]
            /\ toServer'[c] = Append(toServer[c], "open")
            /\ toClient'[c] = Tail(toClient[c])
            /\ child'[c] = child[c]
            /\ events'[c] = events[c]
            /\ mEventStream'[c] = mEventStream[c]
        BY <1>1, <1>4, <2>3 DEF IInv, Types, parentVars, childVars, clientVars
      <4> QED BY <4>1, <4>2, <4>3
    <3>2. (Compatible(c) \/ Stopped(c))'
      BY <1>2, <2>3 DEF Compatible
    <3>3. ASSUME "event" \notin Failures
          PROVE  Phase(c)'
      <4>1. toServer'[c] = <<"open">>
        BY <2>1, <3>1, <3>3, Single
      <4>2. Asked(c)'
        BY <2>1, <3>1, <3>3, <4>1 DEF Asked, NoEvents
      <4> QED BY <1>3, <3>1, <3>3, <4>2 DEF Phase
    <3> QED BY <1>1, <3>1, <3>2, <3>3, ClientKeeps
  <2>4. CASE /\ isCompatibleWith(build[c], server)
             /\ client' = [client EXCEPT ![c] = "ready"]
             /\ UNCHANGED <<toServer, mStream>>
    <3>1. /\ Types' /\ \A d \in Clients : d # c => Same(d)
          /\ client'[c] = "ready" /\ mStream'[c] = mStream[c] /\ toServer'[c] = toServer[c]
          /\ toClient'[c] = Tail(toClient[c]) /\ child'[c] = child[c]
          /\ events'[c] = events[c] /\ mEventStream'[c] = mEventStream[c]
      <4>1. Types'
        BY <1>1, <1>4, <2>4, StreamTypes DEF IInv, Types, parentVars, childVars, clientVars
      <4>2. \A d \in Clients : d # c => Same(d)
        BY <1>1, <1>4, <2>4 DEF IInv, Types, parentVars, childVars, clientVars, Same
      <4>3. /\ client'[c] = "ready"
            /\ mStream'[c] = mStream[c]
            /\ toServer'[c] = toServer[c]
            /\ toClient'[c] = Tail(toClient[c])
            /\ child'[c] = child[c]
            /\ events'[c] = events[c]
            /\ mEventStream'[c] = mEventStream[c]
        BY <1>1, <1>4, <2>4 DEF IInv, Types, parentVars, childVars, clientVars
      <4> QED BY <4>1, <4>2, <4>3
    <3>2. (Compatible(c) \/ Stopped(c))'
      BY <1>2, <2>4 DEF Compatible
    <3>3. ASSUME "event" \notin Failures
          PROVE  Phase(c)'
      <4>1. Ready(c)'
        BY <2>1, <3>1, <3>3 DEF Ready, Serving, NoEvents, Quiet
      <4> QED BY <1>3, <3>1, <3>3, <4>1 DEF Phase
    <3> QED BY <1>1, <3>1, <3>2, <3>3, ClientKeeps
  <2> QED BY <1>4, <2>2, <2>3, <2>4 DEF ReadVersion, NoAnswer
<1>5. CASE /\ NoAnswer(c) /\ client' = [client EXCEPT ![c] = "ready"]
           /\ UNCHANGED <<toServer, toClient, mStream>>
  <2>1. /\ Types' /\ \A d \in Clients : d # c => Same(d)
        /\ client'[c] = "ready" /\ mStream'[c] = mStream[c] /\ toServer'[c] = toServer[c]
        /\ toClient'[c] = toClient[c] /\ child'[c] = child[c] /\ ServerEnd(c)' = ServerEnd(c)
        /\ events'[c] = events[c] /\ mEventStream'[c] = mEventStream[c]
    <3>1. Types'
      BY <1>1, <1>5, StreamTypes DEF IInv, Types, parentVars, childVars, clientVars
    <3>2. \A d \in Clients : d # c => Same(d)
      BY <1>1, <1>5 DEF IInv, Types, parentVars, childVars, clientVars, Same
    <3>3. /\ client'[c] = "ready"
          /\ mStream'[c] = mStream[c]
          /\ toServer'[c] = toServer[c]
          /\ toClient'[c] = toClient[c]
          /\ child'[c] = child[c]
          /\ events'[c] = events[c]
          /\ mEventStream'[c] = mEventStream[c]
      BY <1>1, <1>5 DEF IInv, Types, parentVars, childVars, clientVars
    <3>4. ServerEnd(c)' = ServerEnd(c)
      BY <1>1, <1>5 DEF parentVars, ServerEnd
    <3> QED BY <3>1, <3>2, <3>3, <3>4
  <2>2. toClient[c] = << >> /\ ~ServerEnd(c) /\ child[c] \in {"none", "ended"}
    BY <1>5, ChildHolds DEF NoAnswer
  <2>3. (Compatible(c) \/ Stopped(c))'
    BY <1>2, <2>1, <2>2 DEF Stopped
  <2>4. ASSUME "event" \notin Failures
        PROVE  Phase(c)'
    <3>1. child[c] = "none" /\ toServer[c] = << >> /\ NoEvents(c)
      BY <1>3, <2>2, <2>4 DEF Version
    <3>2. Ready(c)'
      BY <2>1, <2>2, <3>1 DEF Ready, Lost, Quiet, NoEvents
    <3> QED BY <1>3, <2>1, <2>4, <3>2 DEF Phase
  <2> QED BY <1>1, <2>1, <2>3, <2>4, ClientKeeps
<1> QED BY <1>4, <1>5 DEF ReadVersion

\* The answer to the question.
LEMMA ReadPortKeeps ==
  ASSUME IInv, NEW c \in Clients, ReadPort(c)
  PROVE  IInv'
<1>1. /\ client[c] = "asked"
      /\ UNCHANGED <<server, build, parentVars, mStream, events, childVars, toServer, port>>
  BY DEF ReadPort
<1>2. Compatible(c)'
  BY <1>1 DEF IInv, CompatibleInv, Compatible, Stopped, isCompatibleWith, compressionEnabled
<1>3. "event" \notin Failures => Phase(c) /\ Asked(c) /\ mStream[c]
  BY <1>1 DEF IInv, PhaseInv, Phase
<1>4. CASE /\ toClient[c] # << >> /\ toClient' = [toClient EXCEPT ![c] = Tail(@)]
           /\ client' = [client EXCEPT ![c] = IF Head(toClient[c]) = "port" THEN "port" ELSE "ready"]
  <2>1. /\ Types' /\ \A d \in Clients : d # c => Same(d)
        /\ client'[c] = IF Head(toClient[c]) = "port" THEN "port" ELSE "ready"
        /\ mStream'[c] = mStream[c] /\ toServer'[c] = toServer[c] /\ port'[c] = port[c]
        /\ toClient'[c] = Tail(toClient[c]) /\ child'[c] = child[c]
        /\ events'[c] = events[c] /\ mEventStream'[c] = mEventStream[c]
    <3>1. Types'
      BY <1>1, <1>4, StreamTypes DEF IInv, Types, parentVars, childVars, clientVars
    <3>2. \A d \in Clients : d # c => Same(d)
      BY <1>1, <1>4 DEF IInv, Types, parentVars, childVars, clientVars, Same
    <3>3. /\ client'[c] = IF Head(toClient[c]) = "port" THEN "port" ELSE "ready"
          /\ mStream'[c] = mStream[c]
          /\ toServer'[c] = toServer[c]
          /\ port'[c] = port[c]
          /\ toClient'[c] = Tail(toClient[c])
          /\ child'[c] = child[c]
          /\ events'[c] = events[c]
          /\ mEventStream'[c] = mEventStream[c]
      BY <1>1, <1>4 DEF IInv, Types, parentVars, childVars, clientVars
    <3> QED BY <3>1, <3>2, <3>3
  <2>2. ASSUME "event" \notin Failures
        PROVE  Phase(c)'
    <3>1. /\ toServer[c] = << >> /\ Tail(toClient[c]) = << >> /\ NoEvents(c)
          /\ \/ /\ Head(toClient[c]) = "port"
                /\ (child[c] = "bound" /\ port[c] = "bound") \/ (child[c] = "accepting" /\ port[c] = "listening")
             \/ Head(toClient[c]) = "zero" /\ child[c] = "idle"
      BY <1>3, <1>4, <2>2, Single DEF Asked, Quiet
    <3>2. client'[c] = "port" => ToConnect(c)'
      BY <2>1, <3>1 DEF ToConnect, NoEvents, Quiet
    <3>3. client'[c] = "ready" => Ready(c)'
      BY <2>1, <3>1 DEF Ready, Serving, NoEvents, Quiet
    <3> QED BY <1>3, <2>1, <2>2, <3>2, <3>3 DEF Phase
  <2> QED BY <1>1, <1>2, <2>1, <2>2, ClientKeeps
<1>5. CASE NoAnswer(c) /\ client' = [client EXCEPT ![c] = "ready"] /\ UNCHANGED toClient
  <2>1. Types' /\ \A d \in Clients : d # c => Same(d)
    <3>1. Types'
      BY <1>1, <1>5, StreamTypes DEF IInv, Types, parentVars, childVars, clientVars
    <3>2. \A d \in Clients : d # c => Same(d)
      BY <1>1, <1>5 DEF IInv, Types, parentVars, childVars, clientVars, Same
    <3> QED BY <3>1, <3>2
  <2>2. child[c] \in {"none", "ended"}
    BY <1>5, ChildHolds DEF NoAnswer
  <2>3. "event" \in Failures
    BY <1>3, <2>2 DEF Asked
  <2>4. client'[c] # "off"
    BY <1>1, <1>5 DEF IInv, Types
  <2> QED BY <1>1, <1>2, <2>1, <2>3, <2>4, ClientKeeps
<1> QED BY <1>4, <1>5 DEF ReadPort

\* The second connection, which the child waits for.
LEMMA ConnectEventsKeeps ==
  ASSUME IInv, NEW c \in Clients, ConnectEvents(c)
  PROVE  IInv'
<1>1. /\ client[c] = "port" /\ client' = [client EXCEPT ![c] = "ready"]
      /\ UNCHANGED <<server, build, parentVars, mStream, childVars, toServer, toClient>>
  BY DEF ConnectEvents
<1>2. Compatible(c)'
  BY <1>1 DEF IInv, CompatibleInv, Compatible, Stopped, isCompatibleWith, compressionEnabled
<1>3. CASE /\ port[c] = "listening" /\ port' = [port EXCEPT ![c] = "connected"]
           /\ events' = [events EXCEPT ![c] = TRUE]
  <2>1. /\ Types' /\ \A d \in Clients : d # c => Same(d)
        /\ client'[c] = "ready" /\ mStream'[c] = mStream[c] /\ toServer'[c] = toServer[c]
        /\ toClient'[c] = toClient[c] /\ child'[c] = child[c] /\ port'[c] = "connected"
        /\ events'[c] = TRUE /\ mEventStream'[c] = mEventStream[c]
    <3>1. Types'
      BY <1>1, <1>3, StreamTypes DEF IInv, Types, parentVars, childVars, clientVars
    <3>2. \A d \in Clients : d # c => Same(d)
      BY <1>1, <1>3 DEF IInv, Types, parentVars, childVars, clientVars, Same
    <3>3. /\ client'[c] = "ready"
          /\ mStream'[c] = mStream[c]
          /\ toServer'[c] = toServer[c]
          /\ toClient'[c] = toClient[c]
          /\ child'[c] = child[c]
          /\ port'[c] = "connected"
          /\ events'[c] = TRUE
          /\ mEventStream'[c] = mEventStream[c]
      BY <1>1, <1>3 DEF IInv, Types, parentVars, childVars, clientVars
    <3> QED BY <3>1, <3>2, <3>3
  <2>2. ASSUME "event" \notin Failures
        PROVE  Phase(c)'
    <3>1. Phase(c) /\ ToConnect(c) /\ mStream[c]
      BY <1>1, <2>2 DEF IInv, PhaseInv, Phase
    <3>2. Ready(c)'
      BY <1>3, <2>1, <3>1 DEF ToConnect, Ready, Serving, NoEvents, Quiet
    <3> QED BY <2>1, <3>1, <3>2 DEF Phase
  <2> QED BY <1>1, <1>2, <2>1, <2>2, ClientKeeps
<1>4. CASE "event" \in Failures /\ UNCHANGED <<port, events>>
  <2>1. Types' /\ \A d \in Clients : d # c => Same(d)
    <3>1. Types'
      BY <1>1, <1>4, StreamTypes DEF IInv, Types, parentVars, childVars, clientVars
    <3>2. \A d \in Clients : d # c => Same(d)
      BY <1>1, <1>4 DEF IInv, Types, parentVars, childVars, clientVars, Same
    <3> QED BY <3>1, <3>2
  <2>2. client'[c] # "off"
    BY <1>1 DEF IInv, Types
  <2> QED BY <1>1, <1>2, <1>4, <2>1, <2>2, ClientKeeps
<1> QED BY <1>3, <1>4 DEF ConnectEvents

\* A call: the request reaches a child, or nobody.
LEMMA RequestKeeps ==
  ASSUME IInv, NEW c \in Clients, Request(c)
  PROVE  IInv'
<1>1. /\ client[c] = "ready" /\ client' = [client EXCEPT ![c] = "waiting"]
      /\ UNCHANGED <<server, build, parentVars, mStream, events, childVars, toClient, port>>
      /\ toServer' = [toServer EXCEPT ![c] = IF ServerEnd(c) THEN Append(@, "request") ELSE @]
  BY DEF Request
<1>2. /\ Types' /\ \A d \in Clients : d # c => Same(d)
      /\ client'[c] = "waiting" /\ mStream'[c] = mStream[c]
      /\ toServer'[c] = IF ServerEnd(c) THEN Append(toServer[c], "request") ELSE toServer[c]
      /\ toClient'[c] = toClient[c] /\ child'[c] = child[c] /\ port'[c] = port[c]
      /\ events'[c] = events[c] /\ mEventStream'[c] = mEventStream[c] /\ ServerEnd(c)' = ServerEnd(c)
  <2>1. (IF ServerEnd(c) THEN Append(toServer[c], "request") ELSE toServer[c])
          \in Seq({"open", "request", "terminate"})
    BY StreamTypes
  <2>2. Types'
    <3>1. toServer' \in [Clients -> Seq({"open", "request", "terminate"})]
      BY <1>1, <2>1 DEF IInv, Types
    <3> QED BY <1>1, <3>1 DEF IInv, Types, parentVars, childVars
  <2>3. \A d \in Clients : d # c => Same(d)
    BY <1>1 DEF IInv, Types, parentVars, childVars, Same
  <2>4. /\ client'[c] = "waiting" /\ mStream'[c] = mStream[c]
        /\ toServer'[c] = IF ServerEnd(c) THEN Append(toServer[c], "request") ELSE toServer[c]
        /\ toClient'[c] = toClient[c] /\ child'[c] = child[c] /\ port'[c] = port[c]
        /\ events'[c] = events[c] /\ mEventStream'[c] = mEventStream[c]
    BY <1>1 DEF IInv, Types, parentVars, childVars
  <2>5. ServerEnd(c)' = ServerEnd(c)
    BY <1>1 DEF parentVars, ServerEnd
  <2> QED BY <2>2, <2>3, <2>4, <2>5
<1>3. (Compatible(c) \/ Stopped(c))'
  <2>1. CASE Compatible(c)
    BY <1>1, <2>1 DEF Compatible, isCompatibleWith, compressionEnabled
  <2>2. CASE ~Compatible(c)
    <3>1. Stopped(c) /\ ~ServerEnd(c)
      BY <1>1, <2>2 DEF IInv, CompatibleInv, Stopped
    <3> QED BY <1>2, <3>1 DEF Stopped
  <2> QED BY <2>1, <2>2
<1>4. ASSUME "event" \notin Failures
      PROVE  Phase(c)'
  <2>1. Phase(c) /\ Ready(c) /\ mStream[c]
    BY <1>1, <1>4 DEF IInv, PhaseInv, Phase
  <2>2. CASE Lost(c)
    <3>1. Lost(c)'
      BY <1>2, <2>2 DEF Lost, Quiet, NoEvents
    <3> QED BY <1>2, <2>1, <3>1 DEF Phase, Waiting
  <2>3. CASE Serving(c) /\ Quiet(c)
    <3>1. ServerEnd(c)
      BY <2>3, ChildHolds DEF Serving
    <3>2. toServer'[c] = <<"request">>
      BY <1>2, <2>3, <3>1, Single DEF Quiet
    <3>3. Waiting(c)'
      BY <1>2, <2>3, <3>2 DEF Waiting, Serving, Quiet
    <3> QED BY <1>2, <2>1, <3>3 DEF Phase
  <2> QED BY <2>1, <2>2, <2>3 DEF Ready
<1> QED BY <1>1, <1>2, <1>3, <1>4, ClientKeeps

\* The end of a call.
LEMMA ReadReplyKeeps ==
  ASSUME IInv, NEW c \in Clients, ReadReply(c)
  PROVE  IInv'
<1>1. /\ client[c] = "waiting" /\ UNCHANGED <<server, build, parentVars, events, childVars, toServer, port>>
  BY DEF ReadReply
<1>2. /\ Compatible(c)' = Compatible(c)
      /\ Compatible(c) \/ Stopped(c)
  BY <1>1 DEF IInv, CompatibleInv, Compatible, isCompatibleWith, compressionEnabled
<1>3. "event" \notin Failures => Phase(c) /\ Waiting(c) /\ mStream[c]
  BY <1>1 DEF IInv, PhaseInv, Phase
<1>4. CASE /\ toClient[c] # << >> /\ Head(toClient[c]) = "reply"
           /\ toClient' = [toClient EXCEPT ![c] = Tail(@)]
           /\ client' = [client EXCEPT ![c] = "ready"] /\ UNCHANGED mStream
  <2>1. /\ Types' /\ \A d \in Clients : d # c => Same(d)
        /\ client'[c] = "ready" /\ mStream'[c] = mStream[c] /\ toServer'[c] = toServer[c]
        /\ toClient'[c] = Tail(toClient[c]) /\ child'[c] = child[c] /\ port'[c] = port[c]
        /\ events'[c] = events[c] /\ mEventStream'[c] = mEventStream[c] /\ ServerEnd(c)' = ServerEnd(c)
    <3>1. Types'
      BY <1>1, <1>4, StreamTypes DEF IInv, Types, parentVars, childVars, clientVars
    <3>2. \A d \in Clients : d # c => Same(d)
      BY <1>1, <1>4 DEF IInv, Types, parentVars, childVars, clientVars, Same
    <3>3. /\ client'[c] = "ready"
          /\ mStream'[c] = mStream[c]
          /\ toServer'[c] = toServer[c]
          /\ toClient'[c] = Tail(toClient[c])
          /\ child'[c] = child[c]
          /\ port'[c] = port[c]
          /\ events'[c] = events[c]
          /\ mEventStream'[c] = mEventStream[c]
      BY <1>1, <1>4 DEF IInv, Types, parentVars, childVars, clientVars
    <3>4. ServerEnd(c)' = ServerEnd(c)
      BY <1>1, <1>4 DEF parentVars, ServerEnd
    <3> QED BY <3>1, <3>2, <3>3, <3>4
  <2>2. (Compatible(c) \/ Stopped(c))'
    BY <1>1, <1>2, <2>1 DEF Stopped
  <2>3. ASSUME "event" \notin Failures
        PROVE  Phase(c)'
    <3>1. Serving(c) /\ toServer[c] = << >> /\ Tail(toClient[c]) = << >>
      BY <1>3, <1>4, <2>3, Single DEF Waiting, Lost, Quiet
    <3>2. Ready(c)'
      BY <2>1, <3>1 DEF Ready, Serving, Quiet
    <3> QED BY <1>3, <2>1, <2>3, <3>2 DEF Phase
  <2> QED BY <1>1, <2>1, <2>2, <2>3, ClientKeeps
<1>5. CASE /\ NoAnswer(c) /\ client' = [client EXCEPT ![c] = "ready"] /\ UNCHANGED <<toClient, mStream>>
  <2>1. /\ Types' /\ \A d \in Clients : d # c => Same(d)
        /\ client'[c] = "ready" /\ mStream'[c] = mStream[c] /\ toServer'[c] = toServer[c]
        /\ toClient'[c] = toClient[c] /\ child'[c] = child[c] /\ port'[c] = port[c]
        /\ events'[c] = events[c] /\ mEventStream'[c] = mEventStream[c] /\ ServerEnd(c)' = ServerEnd(c)
    <3>1. Types'
      BY <1>1, <1>5, StreamTypes DEF IInv, Types, parentVars, childVars, clientVars
    <3>2. \A d \in Clients : d # c => Same(d)
      BY <1>1, <1>5 DEF IInv, Types, parentVars, childVars, clientVars, Same
    <3>3. /\ client'[c] = "ready"
          /\ mStream'[c] = mStream[c]
          /\ toServer'[c] = toServer[c]
          /\ toClient'[c] = toClient[c]
          /\ child'[c] = child[c]
          /\ port'[c] = port[c]
          /\ events'[c] = events[c]
          /\ mEventStream'[c] = mEventStream[c]
      BY <1>1, <1>5 DEF IInv, Types, parentVars, childVars, clientVars
    <3>4. ServerEnd(c)' = ServerEnd(c)
      BY <1>1, <1>5 DEF parentVars, ServerEnd
    <3> QED BY <3>1, <3>2, <3>3, <3>4
  <2>2. ~ServerEnd(c) /\ child[c] \in {"none", "ended"}
    BY <1>5, ChildHolds DEF NoAnswer
  <2>3. (Compatible(c) \/ Stopped(c))'
    BY <1>2, <2>1, <2>2 DEF Stopped
  <2>4. ASSUME "event" \notin Failures
        PROVE  Phase(c)'
    <3>1. Lost(c)
      BY <1>3, <2>2, <2>4 DEF Waiting, Serving
    <3>2. Ready(c)'
      BY <2>1, <3>1 DEF Ready, Lost, Quiet, NoEvents
    <3> QED BY <1>3, <2>1, <2>4, <3>2 DEF Phase
  <2> QED BY <1>1, <2>1, <2>3, <2>4, ClientKeeps
<1>6. CASE /\ toClient[c] # << >> /\ Head(toClient[c]) # "reply"
           /\ client' = [client EXCEPT ![c] = "gone"]
           /\ mStream' = [mStream EXCEPT ![c] = FALSE] /\ UNCHANGED toClient
  <2>1. /\ Types' /\ \A d \in Clients : d # c => Same(d)
        /\ client'[c] = "gone" /\ toServer'[c] = toServer[c]
    <3>1. Types'
      BY <1>1, <1>6, StreamTypes DEF IInv, Types, parentVars, childVars, clientVars
    <3>2. \A d \in Clients : d # c => Same(d)
      BY <1>1, <1>6 DEF IInv, Types, parentVars, childVars, clientVars, Same
    <3>3. client'[c] = "gone" /\ toServer'[c] = toServer[c]
      BY <1>1, <1>6 DEF IInv, Types, parentVars, childVars, clientVars
    <3> QED BY <3>1, <3>2, <3>3
  <2>2. (Compatible(c) \/ Stopped(c))'
    BY <1>2, <2>1 DEF Stopped
  <2>3. "event" \in Failures
    BY <1>3, <1>6, Single DEF Waiting, Lost, Quiet
  <2> QED BY <1>1, <2>1, <2>2, <2>3, ClientKeeps
<1> QED BY <1>4, <1>5, <1>6 DEF ReadReply

\* The destructor, or the death of the process.
LEMMA LeaveKeeps ==
  ASSUME IInv, NEW c \in Clients, Leave(c)
  PROVE  IInv'
<1>1. /\ client[c] # "off" /\ client' = [client EXCEPT ![c] = "gone"]
      /\ mStream' = [mStream EXCEPT ![c] = FALSE] /\ events' = [events EXCEPT ![c] = FALSE]
      /\ toClient' = [toClient EXCEPT ![c] = << >>]
      /\ UNCHANGED <<server, build, parentVars, childVars, port>>
  BY DEF Leave
<1>2. PICK ts \in Seq({"open", "request", "terminate"}) :
        /\ toServer' = [toServer EXCEPT ![c] = ts]
        /\ \A i \in DOMAIN ts : ts[i] = "terminate" \/ (\E j \in DOMAIN toServer[c] : ts[i] = toServer[c][j])
  <2>1. CASE toServer' = [toServer EXCEPT ![c] =
                 IF mStream[c] /\ ServerEnd(c) THEN Append(@, "terminate") ELSE @]
    <3>1. CASE mStream[c] /\ ServerEnd(c)
      <4>1. toServer' = [toServer EXCEPT ![c] = Append(toServer[c], "terminate")]
        BY <2>1, <3>1
      <4> QED BY <4>1, StreamTypes
    <3>2. CASE ~(mStream[c] /\ ServerEnd(c))
      <4>1. toServer' = [toServer EXCEPT ![c] = toServer[c]]
        BY <2>1, <3>2
      <4> QED BY <4>1, StreamTypes
    <3> QED BY <3>1, <3>2
  <2>2. CASE \E n \in 0 .. Len(toServer[c]) : toServer' = [toServer EXCEPT ![c] = SubSeq(@, 1, n)]
    <3>1. PICK n \in 0 .. Len(toServer[c]) : toServer' = [toServer EXCEPT ![c] = SubSeq(toServer[c], 1, n)]
      BY <2>2
    <3>2. toServer[c] \in Seq({"open", "request", "terminate"})
      BY StreamTypes
    <3>3. /\ SubSeq(toServer[c], 1, n) \in Seq({"open", "request", "terminate"})
          /\ \A i \in DOMAIN SubSeq(toServer[c], 1, n) :
               i \in DOMAIN toServer[c] /\ SubSeq(toServer[c], 1, n)[i] = toServer[c][i]
      BY <3>2
    <3> QED BY <3>1, <3>3
  <2> QED BY <2>1, <2>2 DEF Leave
<1>3. /\ Types' /\ \A d \in Clients : d # c => Same(d)
      /\ client'[c] = "gone" /\ mStream'[c] = FALSE /\ toServer'[c] = ts /\ toClient'[c] = << >>
  <2>1. << >> \in Seq({"version", "port", "zero", "reply"})
    OBVIOUS
  <2>2. Types'
    BY <1>1, <1>2, <2>1 DEF IInv, Types, parentVars, childVars
  <2>3. \A d \in Clients : d # c => Same(d)
    BY <1>1, <1>2 DEF IInv, Types, parentVars, childVars, Same
  <2>4. client'[c] = "gone" /\ mStream'[c] = FALSE /\ toServer'[c] = ts /\ toClient'[c] = << >>
    BY <1>1, <1>2 DEF IInv, Types
  <2> QED BY <2>2, <2>3, <2>4
<1>4. (Compatible(c) \/ Stopped(c))'
  <2>1. Compatible(c)' = Compatible(c) /\ (Compatible(c) \/ Stopped(c))
    BY <1>1 DEF IInv, CompatibleInv, Compatible, isCompatibleWith, compressionEnabled
  <2> QED BY <1>2, <1>3, <2>1 DEF Stopped
<1>5. Phase(c)'
  BY <1>3 DEF Phase
<1> QED BY <1>1, <1>3, <1>4, <1>5, ClientKeeps

-----------------------------------------------------------------------------
(* The theorems. *)

\* Every step keeps the invariant.
LEMMA NextKeeps == IInv /\ [Next]_vars => IInv'
<1> SUFFICES ASSUME IInv, [Next]_vars PROVE IInv'
  OBVIOUS
<1>1. CASE ParentStep
  BY <1>1, ParentStepKeeps
<1>2. ASSUME NEW c \in Clients, ChildStep(c)
      PROVE  IInv'
  BY <1>2, ChildStartKeeps, ChildServeKeeps, ChildBindKeeps, ChildListenKeeps, ChildAcceptKeeps DEF ChildStep
<1>3. ASSUME NEW c \in Clients, ClientStep(c) \/ Connect(c) \/ Request(c) \/ Leave(c)
      PROVE  IInv'
  BY <1>3, ReadVersionKeeps, ReadPortKeeps, ConnectEventsKeeps, ReadReplyKeeps, ConnectKeeps, RequestKeeps,
     LeaveKeeps DEF ClientStep
<1>4. CASE Over \/ UNCHANGED vars
  <2>1. UNCHANGED <<server, build, parent, incoming, listeners, backlog, holders, client, mStream, events,
                    toServer, toClient, child, port, mEventStream>>
    BY <1>4 DEF Over, vars, parentVars, clientVars, childVars
  <2>2. Types' /\ SocketInv' /\ FreshInv'
    BY <2>1 DEF IInv, Types, SocketInv, FreshInv
  <2>3. ASSUME NEW d \in Clients
        PROVE  (Compatible(d) \/ Stopped(d))' /\ ("event" \notin Failures => Phase(d)')
    <3>1. Same(d) /\ (ServerEnd(d)' => ServerEnd(d))
      BY <2>1 DEF Same, ServerEnd
    <3> QED BY <2>1, <3>1, OthersKeep
  <2>4. CompatibleInv'
    BY <2>3 DEF CompatibleInv
  <2>5. PhaseInv'
    BY <2>3 DEF PhaseInv
  <2> QED BY <2>2, <2>4, <2>5 DEF IInv
<1> QED BY <1>1, <1>2, <1>3, <1>4 DEF Next

\* The invariant holds throughout.
LEMMA Invariance == Spec => []IInv
BY InitIInv, NextKeeps, PTL DEF Spec

\* No process but the child of a client, and the parent until it has forked, has
\* the client's socket open, and no child that serves keeps the port, whatever
\* fails (main.cpp).
THEOREM SocketsArePrivate == Spec => []PrivateSockets
<1>1. IInv => PrivateSockets
  BY DEF IInv, SocketInv, PrivateSockets
<1> QED BY Invariance, <1>1, PTL

\* A client of another version, or of the other compression, sends no request
\* that a server reads, whatever fails (isCompatibleWith, Connection::Connection).
THEOREM OnlyCompatibleBuildsTalk == Spec => []CompatibleOnly
<1>1. IInv => CompatibleOnly
  <2> SUFFICES ASSUME IInv, NEW c \in Clients, NEW i \in 1 .. Len(toServer[c]), toServer[c][i] # "terminate"
               PROVE  build[c].sw = server.sw /\ ("z" \in build[c].features <=> "z" \in server.features)
    BY DEF CompatibleOnly
  <2>1. i \in DOMAIN toServer[c]
    BY StreamTypes
  <2>2. Compatible(c)
    BY <2>1 DEF IInv, CompatibleInv, Stopped
  <2> QED BY <2>2 DEF Compatible, isCompatibleWith, compressionEnabled
<1> QED BY Invariance, <1>1, PTL

\* As long as event connections do not fail, every question has one answer, and
\* the packet that waits is the one the client reads next (createEventStream,
\* Connection::Connection).
THEOREM EveryQuestionHasOneAnswer ==
  ASSUME "event" \notin Failures
  PROVE  Spec => []OneAnswer
<1>1. IInv => OneAnswer
  <2> SUFFICES ASSUME IInv, NEW c \in Clients, toClient[c] # << >>
               PROVE  /\ Len(toClient[c]) = 1
                      /\ CASE client[c] = "version" -> toClient[c][1] = "version"
                           [] client[c] = "asked"   -> toClient[c][1] \in {"port", "zero"}
                           [] client[c] = "waiting" -> toClient[c][1] = "reply"
                           [] OTHER -> FALSE
    BY DEF OneAnswer
  <2>1. Phase(c)
    BY DEF IInv, PhaseInv
  <2>2. client[c] \in {"version", "asked", "waiting"}
    BY <2>1 DEF Phase, ToConnect, Ready, Lost, Quiet
  <2>3. /\ client[c] = "version" => toClient[c] = <<"version">>
        /\ client[c] = "asked" => toClient[c] = <<"port">> \/ toClient[c] = <<"zero">>
        /\ client[c] = "waiting" => toClient[c] = <<"reply">>
    BY <2>1 DEF Phase, Version, Asked, Waiting, Lost, Quiet
  <2> QED BY <2>2, <2>3, Single
<1> QED BY Invariance, <1>1, PTL

\* As long as event connections do not fail, both ends agree on whether there is
\* an event stream, whatever the build options and however many ports are taken.
THEOREM EndsAgreeOnEvents ==
  ASSUME "event" \notin Failures
  PROVE  Spec => []EventsAgree
<1>1. IInv => EventsAgree
  <2> SUFFICES ASSUME IInv, NEW c \in Clients, client[c] \in {"ready", "waiting"}, child[c] = "idle"
               PROVE  events[c] <=> mEventStream[c]
    BY DEF EventsAgree
  <2>1. Phase(c)
    BY DEF IInv, PhaseInv
  <2> QED BY <2>1 DEF Phase, Ready, Waiting, Lost, Serving
<1> QED BY Invariance, <1>1, PTL
=============================================================================

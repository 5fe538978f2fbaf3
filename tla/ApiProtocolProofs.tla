-------------------------- MODULE ApiProtocolProofs --------------------------
(***************************************************************************)
(* Proofs about ApiProtocol, for any number of threads, any calls on which *)
(* the two sides agree (Conversation), every capacity of the socket, and   *)
(* with all failures: of the driver, of the connection, and none to begin  *)
(* with.                                                                   *)
(***************************************************************************)
EXTENDS ApiProtocol, SequenceFacts, FiniteSetTheorems, TLAPS

-----------------------------------------------------------------------------
(* The inductive invariant. *)

\* What the theorems assume of the calls.
CallsAreConversations == \A c \in Calls : Conversation(c)

\* The provers do not know that a literal is a string, so these are added.
Tags == STRING \cup {"-", "none", "Error", "Terminate"}
StepsA == [ty : Tags, do : {"write", "read", "flush"} \cup Commands]
PacketsA == [ty : Tags, opts : SUBSET STRING, by : Threads \cup {NoThread}]

ClientTypes ==
  /\ haveStream \in BOOLEAN /\ lock \in Threads \cup {NoThread}
  /\ phase \in [Threads -> {"idle", "called", "locked"}]
  /\ call \in [Threads -> Calls \cup {NoCall}]
  /\ todo \in [Threads -> Seq(StepsA)]
  /\ result \in [Threads -> Results \cup {"none"}]
  /\ client \in {"running", "exited", "aborted"}
  /\ orphans \subseteq Threads /\ late \in [Threads -> BOOLEAN]

StreamTypes ==
  /\ link \in {"up", "cut"}
  /\ cbuf \in Seq(PacketsA) /\ c2s \in Seq(PacketsA)
  /\ sbuf \in Seq(PacketsA) /\ s2c \in Seq(PacketsA)

ServerTypes ==
  /\ server \in {"idle", "handling", "ended", "aborted"}
  /\ server = "handling" <=> job # << >>
  /\ job \in Seq(StepsA) /\ request \in PacketsA
  /\ userEvent \in {"pending", "complete"}

Types ==
  /\ ClientTypes /\ StreamTypes /\ ServerTypes
  /\ ran \in [Threads -> {"no", "ok", "failed"}]

\* Who has the connection, and what is left of the calls.
LockInv ==
  /\ \A t \in Threads : phase[t] = "locked" <=> lock = t
  /\ \A t \in Threads : phase[t] # "idle" => call[t] \in Calls
  /\ \A t \in Threads : phase[t] = "called" => todo[t] = call[t].steps /\ result[t] = "none"
  /\ \A t \in Threads : phase[t] = "locked" => result[t] = "none"
  /\ client # "running" => client = "exited" /\ lock = NoThread /\ link = "cut"
  /\ \A t \in Threads : late[t] => link = "cut"

\* Packet x is the k-th that the server has still to read, when it is after
\* step j of the handler of c.
OutAt(c, j, x, k, by) ==
  \E p \in 1 .. Len(c.steps) :
    /\ c.steps[p].do = "write" /\ Out(c, p) = Got(c, j) + k /\ In(c, p) <= Put(c, j)
    /\ x.ty = c.steps[p].ty /\ x.opts = c.opts /\ x.by = by

\* Packet x is the k-th that the client has still to read, when it is after
\* step i of c; the server had read no more than r packets when it wrote it.
ReplyAt(c, i, r, x, k, by) ==
  \E q \in 1 .. Len(Handler(c)) :
    /\ Handler(c)[q].do = "write" /\ Put(c, q) = In(c, i) + k /\ Got(c, q) <= r
    /\ x.ty = Handler(c)[q].ty /\ x.by = by

\* The same for the ErrorPacket that is written when a command fails.
ErrorAt(c, i, r, x, k, by) ==
  /\ x.ty = "Error" /\ x.by = by
  /\ \E q \in 1 .. Len(Handler(c)) :
       Handler(c)[q].do \in Commands /\ Put(c, q) = In(c, i) + k - 1 /\ Got(c, q) <= r

Sent(c, j, S, by) == \A k \in 1 .. Len(S) : OutAt(c, j, S[k], k, by)
Replied(c, i, r, S, by) == \A k \in 1 .. Len(S) : ReplyAt(c, i, r, S[k], k, by)
RepliedOrFailed(c, i, r, S, by) ==
  \A k \in 1 .. Len(S) : \/ ReplyAt(c, i, r, S[k], k, by)
                         \/ k = Len(S) /\ ErrorAt(c, i, r, S[k], k, by)

ErrorSteps == <<W("Error"), F>>
Resting == {<< >>, <<F>>}

\* How the command of a request has ended when steps J are left and none failed.
Carried(J) == IF NoCommand(J) THEN "ok" ELSE "no"

\* The four states of a conversation on c that is after step i of the client
\* and step j of the server; V is what the server wrote, J are its steps, and r is
\* how its command ended: it has not begun; it goes on; a command has failed; that
\* was reported.
Before(c, i, j, V, J, r) == j = 0 /\ J \in Resting /\ V = << >> /\ In(c, i) = 0 /\ r = "no"
During(c, i, j, t, V, J, by, r) ==
  /\ r = Carried(J)
  /\ J = SubSeq(Handler(c), j + 1, Len(Handler(c))) /\ (j < Len(Handler(c)) => by = t)
  /\ Len(V) = Put(c, j) - In(c, i) /\ Replied(c, i, Got(c, j), V, t)
Failing(c, i, j, t, U, V, J, by, r) ==
  /\ j < Len(Handler(c)) /\ Handler(c)[j + 1].do \in Commands
  /\ U = << >> /\ J = ErrorSteps /\ by = t /\ r = "failed"
  /\ Len(V) = Put(c, j) - In(c, i) /\ Replied(c, i, Got(c, j), V, t)
Failed(c, i, j, t, U, V, J, r) ==
  /\ j < Len(Handler(c)) /\ Handler(c)[j + 1].do \in Commands
  /\ U = << >> /\ J \in Resting /\ r = "failed"
  /\ V # << >> /\ Len(V) = Put(c, j) - In(c, i) + 1
  /\ RepliedOrFailed(c, i, Got(c, j), V, t) /\ ErrorAt(c, i, Got(c, j), V[Len(V)], Len(V), t)

\* What t and the server have still to say to each other; U is what the client
\* wrote.
Talk(c, i, j, t, U, V, J, by, r) ==
  /\ Len(U) = Out(c, i) - Got(c, j) /\ Sent(c, j, U, t)
  /\ \/ Before(c, i, j, V, J, r) \/ During(c, i, j, t, V, J, by, r)
     \/ Failing(c, i, j, t, U, V, J, by, r) \/ Failed(c, i, j, t, U, V, J, r)

LeftAfter(c, i, T) == T = SubSeq(c.steps, i + 1, Len(c.steps))

\* The same when steps T are left to the client.
UpTalk(c, T, t, U, V, J, by, r) ==
  \E i \in 0 .. Len(c.steps), j \in 0 .. Len(Handler(c)) :
    LeftAfter(c, i, T) /\ Talk(c, i, j, t, U, V, J, by, r)

UpInv ==
  link = "up" =>
    /\ server \in {"idle", "handling"}
    /\ lock = NoThread => /\ cbuf = << >> /\ c2s = << >> /\ sbuf = << >> /\ s2c = << >>
                          /\ job \in Resting
    /\ lock # NoThread =>
         UpTalk(call[lock], todo[lock], lock, c2s \o cbuf, s2c \o sbuf, job, request.by, ran[lock])

\* After the connection was lost the server works on what it still has got:
\* the rest of a conversation, with steps J of its handler left; or nothing, or
\* Terminate, or a request that it has not taken yet.
InHandler(S, J) ==
  \E c \in Calls, by \in Threads : \E j \in 0 .. Len(Handler(c)) :
    J = SubSeq(Handler(c), j + 1, Len(Handler(c))) /\ Sent(c, j, S, by)
AtRest(S) ==
  \/ S = << >>
  \/ Len(S) = 1 /\ S[1].ty = "Terminate"
  \/ \E c \in Calls, by \in Threads : Sent(c, 0, S, by)
CutServer(S, J) ==
  \/ InHandler(S, J)
  \/ J \in Resting /\ AtRest(S)
  \/ J = ErrorSteps /\ S = << >>

\* The replies S that are left tell how the command ended, if they are all that
\* the client waits for or there is an ErrorPacket among them.
HasError(S) == \E k \in 1 .. Len(S) : S[k].ty = "Error"
Told(c, i, S, r) ==
  /\ ~HasError(S) /\ In(c, i) + Len(S) = In(c, Len(c.steps)) => r = "ok"
  /\ HasError(S) => r = "failed"

\* The client gets the replies S that have still arrived; B is what it has not
\* sent.  A call that began too late reads nothing.
CutTalk(c, T, t, B, S, isLate, r) ==
  \E i \in 0 .. Len(c.steps) :
    /\ LeftAfter(c, i, T)
    /\ RepliedOrFailed(c, i, Out(c, i), S, t)
    /\ B # << >> => S = << >>
    /\ isLate => S = << >> /\ In(c, i) = 0
    /\ Told(c, i, S, r)

\* Whoever takes the connection after that finds nothing.
CutClient ==
  /\ lock = NoThread => s2c = << >>
  /\ lock # NoThread => CutTalk(call[lock], todo[lock], lock, cbuf, s2c, late[lock], ran[lock])

CutInv == link = "cut" => CutServer(c2s, job) /\ CutClient

Core == Types /\ LockInv /\ UpInv /\ CutInv

\* The server will carry out a command for t.
Awaited(t) ==
  \/ ~NoCommand(job) /\ request.by = t
  \/ job \in Resting /\ \E k \in 1 .. Len(c2s) : c2s[k].by = t

\* Before a call has the connection nothing is carried out for it; nobody gives
\* up while the connection is up; and after that the server works only for a
\* thread that waits or has given up.
RanInv ==
  /\ \A t \in Threads : phase[t] = "called" => ran[t] = "no"
  /\ link = "up" => orphans = {}
  /\ link = "cut" => \A t \in Threads \ orphans : Awaited(t) => phase[t] = "locked" /\ ran[t] = "no"

IInv == Core /\ RanInv

-----------------------------------------------------------------------------
(* Counting steps. *)

\* The steps that are counted are finitely many.
LEMMA HowManyType ==
  ASSUME NEW s, NEW do, NEW i \in Nat
  PROVE  /\ IsFiniteSet({k \in 1 .. i : s[k].do = do})
         /\ HowMany(s, do, i) \in Nat
<1>1. IsFiniteSet(1 .. i)
  BY FS_Interval
<1>2. {k \in 1 .. i : s[k].do = do} \subseteq 1 .. i
  OBVIOUS
<1>3. IsFiniteSet({k \in 1 .. i : s[k].do = do})
  BY <1>1, <1>2, FS_Subset
<1> QED
  BY <1>3, FS_CardinalityType DEF HowMany

\* At first nothing is counted.
LEMMA HowManyZero ==
  ASSUME NEW s, NEW do
  PROVE  HowMany(s, do, 0) = 0
<1>1. {k \in 1 .. 0 : s[k].do = do} = {}
  OBVIOUS
<1> QED
  BY <1>1, FS_EmptySet DEF HowMany

\* A step counts for its kind.
LEMMA HowManyStep ==
  ASSUME NEW s, NEW do, NEW i \in Nat
  PROVE  /\ s[i + 1].do = do => HowMany(s, do, i + 1) = HowMany(s, do, i) + 1
         /\ s[i + 1].do # do => HowMany(s, do, i + 1) = HowMany(s, do, i)
<1> DEFINE A == {k \in 1 .. i : s[k].do = do}
           B == {k \in 1 .. i + 1 : s[k].do = do}
<1>0. i + 1 \notin A
  OBVIOUS
<1>1. IsFiniteSet(A)
  BY HowManyType
<1>2. s[i + 1].do = do => B = A \cup {i + 1}
  OBVIOUS
<1>3. s[i + 1].do # do => B = A
  OBVIOUS
<1>4. Cardinality(A \cup {i + 1}) = Cardinality(A) + 1
  BY <1>0, <1>1, FS_AddElement
<1> QED
  BY <1>2, <1>3, <1>4 DEF HowMany

\* Later there are no fewer.
LEMMA HowManyMono ==
  ASSUME NEW s, NEW do, NEW i \in Nat, NEW j \in Nat, i <= j
  PROVE  HowMany(s, do, i) <= HowMany(s, do, j)
<1>1. {k \in 1 .. i : s[k].do = do} \subseteq {k \in 1 .. j : s[k].do = do}
  OBVIOUS
<1>2. IsFiniteSet({k \in 1 .. j : s[k].do = do})
  BY HowManyType
<1> QED
  BY <1>1, <1>2, FS_Subset DEF HowMany

\* What the client counts.
LEMMA ClientCounts ==
  ASSUME NEW c, NEW i \in Nat
  PROVE  /\ Out(c, i) \in Nat /\ In(c, i) \in Nat /\ Out(c, 0) = 0 /\ In(c, 0) = 0
         /\ c.steps[i + 1].do = "write" => Out(c, i + 1) = Out(c, i) + 1 /\ In(c, i + 1) = In(c, i)
         /\ c.steps[i + 1].do = "read" => Out(c, i + 1) = Out(c, i) /\ In(c, i + 1) = In(c, i) + 1
         /\ c.steps[i + 1].do = "flush" => Out(c, i + 1) = Out(c, i) /\ In(c, i + 1) = In(c, i)
         /\ \A k \in Nat : k <= i => Out(c, k) <= Out(c, i) /\ In(c, k) <= In(c, i)
  BY HowManyType, HowManyZero, HowManyStep, HowManyMono DEF Out, In

\* What the server counts.
LEMMA ServerCounts ==
  ASSUME NEW c, NEW j \in Nat
  PROVE  /\ Got(c, j) \in Nat /\ Put(c, j) \in Nat /\ Got(c, 0) = 0 /\ Put(c, 0) = 0
         /\ Handler(c)[j + 1].do = "write" => Got(c, j + 1) = Got(c, j) /\ Put(c, j + 1) = Put(c, j) + 1
         /\ Handler(c)[j + 1].do = "read" => Got(c, j + 1) = Got(c, j) + 1 /\ Put(c, j + 1) = Put(c, j)
         /\ Handler(c)[j + 1].do \notin {"read", "write"} =>
              Got(c, j + 1) = Got(c, j) /\ Put(c, j + 1) = Put(c, j)
         /\ \A k \in Nat : k <= j => Got(c, k) <= Got(c, j) /\ Put(c, k) <= Put(c, j)
  BY HowManyType, HowManyZero, HowManyStep, HowManyMono DEF Got, Put


\* A write has its own number: an earlier step has a smaller one.
LEMMA WriteNumber ==
  ASSUME NEW c, NEW i \in Nat, NEW p \in Nat \ {0}, c.steps[p].do = "write", Out(c, p) <= Out(c, i)
  PROVE  p <= i
<1> SUFFICES ASSUME p > i PROVE FALSE
  OBVIOUS
<1>1. p - 1 \in Nat /\ i <= p - 1 /\ (p - 1) + 1 = p
  OBVIOUS
<1>2. Out(c, p) = Out(c, p - 1) + 1 /\ Out(c, p - 1) \in Nat /\ Out(c, i) <= Out(c, p - 1)
  BY <1>1, ClientCounts
<1>3. Out(c, i) \in Nat
  BY ClientCounts
<1> QED
  BY <1>2, <1>3

\* Steps are steps.
LEMMA StepsWider ==
  ASSUME NEW s \in Seq(Steps)
  PROVE  s \in Seq(StepsA)
<1>1. Steps \subseteq StepsA
  BY DEF Steps, StepsA, Tags
<1> QED
  BY <1>1

\* What is left of the steps s before the last one and after it.
LEMMA LastStep ==
  ASSUME NEW S, NEW s \in Seq(S), Len(s) > 0
  PROVE  /\ SubSeq(s, Len(s) + 1, Len(s)) = << >>
         /\ SubSeq(s, (Len(s) - 1) + 1, Len(s)) = <<s[Len(s)]>>
<1>1. Len(s) \in Nat /\ Len(s) - 1 \in 0 .. Len(s) /\ (Len(s) - 1) + 1 = Len(s)
  OBVIOUS
<1>2. SubSeq(s, Len(s) + 1, Len(s)) = << >>
  BY <1>1, StepsLeft
<1> DEFINE q == SubSeq(s, (Len(s) - 1) + 1, Len(s))
<1>3. q \in Seq(S) /\ Len(q) = 1 /\ q[1] = s[Len(s)]
  <2>1. /\ q \in Seq(S) /\ Len(q) = Len(s) - (Len(s) - 1)
        /\ \A i \in 1 .. Len(s) - (Len(s) - 1) : q[i] = s[(Len(s) - 1) + i]
    BY <1>1, SuffixTaken
  <2> HIDE DEF q
  <2>2. Len(s) - (Len(s) - 1) = 1 /\ 1 \in 1 .. 1
    BY <1>1
  <2> QED
    BY <1>1, <2>1, <2>2
<1> HIDE DEF q
<1>4. q = <<s[Len(s)]>>
  BY <1>3
<1> QED
  BY <1>2, <1>4 DEF q

\* The steps of both sides.
LEMMA ScriptTypes ==
  ASSUME NEW c \in Calls, Conversation(c)
  PROVE  /\ c.steps \in Seq(StepsA) /\ Len(c.steps) \in Nat /\ Len(c.steps) > 0
         /\ Handler(c) \in Seq(StepsA) /\ Len(Handler(c)) \in Nat /\ Len(Handler(c)) > 0
         /\ Handler(c)[Len(Handler(c))] = F /\ c.opts \in SUBSET STRING
<1>1. c \in CallType
  BY ProtocolAssumption
<1>2. c.steps \in Seq(Steps) /\ c.opts \in SUBSET STRING
  BY <1>1 DEF CallType
<1>3. c.steps # << >> /\ Handlers(c.opts)[c.steps[1].ty] \in Seq(Steps)
  BY DEF Conversation, WellFormed
<1>4. F \in StepsA
  BY DEF F, StepsA, Tags
<1>6. c.steps \in Seq(StepsA) /\ Handlers(c.opts)[c.steps[1].ty] \in Seq(StepsA)
  BY <1>2, <1>3, StepsWider
<1>5. Handler(c) \in Seq(StepsA) /\ Len(Handler(c)) \in Nat /\ Len(Handler(c)) > 0
      /\ Handler(c)[Len(Handler(c))] = F
  <2> DEFINE h == Handlers(c.opts)[c.steps[1].ty]
  <2>0. h \in Seq(StepsA)
    BY <1>6
  <2> HIDE DEF h
  <2>1. Len(h) \in Nat /\ Append(h, F) \in Seq(StepsA) /\ Len(Append(h, F)) = Len(h) + 1
        /\ Append(h, F)[Len(h) + 1] = F
    BY <1>4, <2>0, Appended
  <2> QED
    BY <2>1 DEF Handler, h
<1> QED
  BY <1>2, <1>3, <1>5, <1>6

\* A sequence is empty when it has no elements.
LEMMA NoElements ==
  ASSUME NEW S, NEW s \in Seq(S)
  PROVE  s = << >> <=> Len(s) = 0
  OBVIOUS

\* What was written when r packets were read was written before more were.
LEMMA ReplyLater ==
  ASSUME NEW c \in Calls, Conversation(c), NEW i, NEW r \in Nat, NEW z \in Nat, r <= z, NEW V, NEW by
  PROVE  /\ Replied(c, i, r, V, by) => Replied(c, i, z, V, by)
         /\ RepliedOrFailed(c, i, r, V, by) => RepliedOrFailed(c, i, z, V, by)
<1>1. \A q \in 1 .. Len(Handler(c)) : Got(c, q) <= r => Got(c, q) <= z
  <2> TAKE q \in 1 .. Len(Handler(c))
  <2>1. q \in Nat
    BY ScriptTypes
  <2>2. Got(c, q) \in Nat
    BY <2>1, ServerCounts
  <2> QED
    BY <2>2
<1>2. ASSUME NEW x, NEW k
      PROVE  /\ ReplyAt(c, i, r, x, k, by) => ReplyAt(c, i, z, x, k, by)
             /\ ErrorAt(c, i, r, x, k, by) => ErrorAt(c, i, z, x, k, by)
  BY <1>1, Zenon DEF ReplyAt, ErrorAt
<1> QED
  BY <1>2 DEF Replied, RepliedOrFailed

\* All steps are left at first.
LEMMA AllSteps ==
  ASSUME NEW S, NEW s \in Seq(S)
  PROVE  s = SubSeq(s, 0 + 1, Len(s))
<1>1. Len(s) \in Nat /\ Len(s) \in 0 .. Len(s) /\ 0 + 1 = 1
  OBVIOUS
<1> DEFINE q == SubSeq(s, 1, Len(s))
<1>2. q \in Seq(S) /\ Len(q) = Len(s) /\ \A i \in 1 .. Len(s) : q[i] = s[i]
  BY <1>1, PrefixTaken
<1> HIDE DEF q
<1>3. s = q
  BY <1>2, Same
<1> QED
  BY <1>1, <1>3 DEF q

\* Sequences of one and two elements.
LEMMA ShortSeqs ==
  ASSUME NEW x, NEW y
  PROVE  Tail(<<x>>) = << >> /\ Tail(<<x, y>>) = <<y>> /\ <<x>> \o <<y>> = <<x, y>>
<1>1. Tail(<<x>>) = << >>
  OBVIOUS
<1>2. Tail(<<x, y>>) = <<y>>
  OBVIOUS
<1>3. <<x>> \o <<y>> = <<x, y>>
  <2> DEFINE a == <<x>>
             b == <<y>>
             S == {x, y}
  <2>1. a \in Seq(S) /\ b \in Seq(S) /\ Len(a) = 1 /\ Len(b) = 1 /\ a[1] = x /\ b[1] = y
    OBVIOUS
  <2>2. /\ a \o b \in Seq(S) /\ Len(a \o b) = Len(a) + Len(b)
        /\ \A k \in 1 .. Len(a) : (a \o b)[k] = a[k]
        /\ \A k \in 1 .. Len(b) : (a \o b)[Len(a) + k] = b[k]
    BY <2>1, Joined
  <2> DEFINE z == a \o b
  <2>3. z \in Seq(S) /\ Len(z) = 2 /\ z[1] = x /\ z[2] = y
    BY <2>1, <2>2
  <2> HIDE DEF z
  <2>4. z = <<x, y>>
    BY <2>3
  <2> QED
    BY <2>4 DEF z
<1> QED
  BY <1>1, <1>2, <1>3

-----------------------------------------------------------------------------
(* Which steps are commands. *)

\* A handler that is done, or has only to flush, calls the driver no more.
LEMMA RestingCarried ==
  ASSUME NEW J \in Resting
  PROVE  NoCommand(J) /\ Carried(J) = "ok"
<1>1. Len(<< >>) = 0 /\ Len(<<F>>) = 1 /\ <<F>>[1].do = "flush"
  BY DEF F
<1>2. NoCommand(<< >>)
  BY <1>1 DEF NoCommand
<1>3. NoCommand(<<F>>)
  BY <1>1 DEF NoCommand, Commands
<1> QED
  BY <1>2, <1>3 DEF Resting, Carried

\* Nor does one that reports a failure.
LEMMA ErrorCarried ==
  NoCommand(ErrorSteps) /\ ErrorSteps \notin Resting
<1>1. Len(ErrorSteps) = 2 /\ ErrorSteps[1] = W("Error") /\ ErrorSteps[2] = F
  BY DEF ErrorSteps
<1>2. \A k \in 1 .. Len(ErrorSteps) : k = 1 \/ k = 2
  BY <1>1
<1>3. W("Error").do \notin Commands /\ F.do \notin Commands
  BY DEF W, F, Commands
<1>4. ErrorSteps # << >> /\ ErrorSteps # <<F>>
  BY DEF ErrorSteps
<1>5. NoCommand(ErrorSteps)
  BY <1>1, <1>2, <1>3 DEF NoCommand
<1> QED
  BY <1>4, <1>5 DEF Resting

\* A step that is no command leaves those that are to come.
LEMMA TailCommands ==
  ASSUME NEW J \in Seq(StepsA), J # << >>
  PROVE  /\ Head(J).do \in Commands => ~NoCommand(J)
         /\ Head(J).do \notin Commands => (NoCommand(Tail(J)) <=> NoCommand(J))
         /\ NoCommand(J) => NoCommand(Tail(J))
<1> DEFINE T == Tail(J)
           n == Len(J)
<1>1. /\ T \in Seq(StepsA) /\ Len(T) = n - 1 /\ n \in Nat /\ n > 0
      /\ (\A k \in 1 .. n - 1 : T[k] = J[k + 1]) /\ Head(J) = J[1]
  BY TailTaken
<1>2. Len(T) \in Nat /\ 1 \in 1 .. n
  BY <1>1
<1> HIDE DEF T, n
<1>3. \A k \in 1 .. Len(T) : k + 1 \in 1 .. n /\ T[k] = J[k + 1]
  BY <1>1, <1>2
<1>4. \A k \in 1 .. n : k # 1 => k - 1 \in 1 .. Len(T) /\ J[k] = T[k - 1]
  <2> SUFFICES ASSUME NEW k \in 1 .. n, k # 1
               PROVE  k - 1 \in 1 .. Len(T) /\ J[k] = T[k - 1]
    OBVIOUS
  <2>1. k - 1 \in 1 .. Len(T) /\ (k - 1) + 1 = k
    BY <1>1, <1>2
  <2> QED
    BY <1>3, <2>1
<1>5. NoCommand(J) <=> \A k \in 1 .. n : J[k].do \notin Commands
  BY DEF NoCommand, n
<1>6. NoCommand(T) <=> \A k \in 1 .. Len(T) : T[k].do \notin Commands
  BY DEF NoCommand
<1>7. NoCommand(J) => NoCommand(T)
  BY <1>3, <1>5, <1>6
<1>8. J[1].do \notin Commands /\ NoCommand(T) => NoCommand(J)
  BY <1>4, <1>5, <1>6
<1>9. J[1].do \in Commands => ~NoCommand(J)
  BY <1>2, <1>5
<1> QED
  BY <1>1, <1>7, <1>8, <1>9 DEF T

\* How the command ends is not changed by such a step.
LEMMA TailCarried ==
  ASSUME NEW c \in Calls, Conversation(c), NEW j \in 0 .. Len(Handler(c)),
         NEW J, J = SubSeq(Handler(c), j + 1, Len(Handler(c))), J # << >>
  PROVE  /\ Head(J).do \in Commands => Carried(J) = "no"
         /\ Head(J).do \notin Commands => Carried(Tail(J)) = Carried(J)
<1>1. Handler(c) \in Seq(StepsA)
  BY ScriptTypes
<1>2. J \in Seq(StepsA)
  BY <1>1, StepsLeft
<1> QED
  BY <1>2, TailCommands DEF Carried

\* There is a command for every request.
LEMMA HandlerCarried ==
  ASSUME NEW c, Conversation(c)
  PROVE  ~NoCommand(Handler(c)) /\ Carried(Handler(c)) = "no"
<1>1. ~NoCommand(Handler(c))
  BY DEF Conversation, WellFormed, NoCommand
<1> QED
  BY <1>1 DEF Carried

-----------------------------------------------------------------------------
(* A conversation, step by step. *)

\* Some sums.
LEMMA Sums ==
  /\ \A a, b \in Nat : b <= a => a + 1 > b
  /\ \A a, n \in Nat : n > 0 => a + n > a
  /\ \A a, b, n \in Nat : n = a - b => n + 1 = (a + 1) - b /\ a + 1 = b + (n + 1)
  /\ \A a, b, n \in Nat : n = a - b => n - 1 = a - (b + 1)
  /\ \A a, b, n \in Nat : n = a - b + 1 => n - 1 = a - (b + 1) + 1
  OBVIOUS

\* The two sides are never both waiting to be read.
LEMMA TalkTurns ==
  ASSUME NEW r, NEW c \in Calls, Conversation(c),
         NEW i \in 0 .. Len(c.steps), NEW j \in 0 .. Len(Handler(c)), NEW t, NEW by,
         NEW U \in Seq(PacketsA), NEW V \in Seq(PacketsA), NEW J, Talk(c, i, j, t, U, V, J, by, r)
  PROVE  U = << >> \/ V = << >>
<1> SUFFICES ASSUME U # << >>, V # << >> PROVE FALSE
  OBVIOUS
<1>1. During(c, i, j, t, V, J, by, r)
  BY DEF Talk, Before, Failing, Failed
<1>2. i \in Nat /\ j \in Nat /\ Len(U) \in Nat /\ Len(U) > 0 /\ Len(V) \in Nat /\ Len(V) > 0
  BY ScriptTypes
<1>3. /\ Out(c, i) \in Nat /\ In(c, i) \in Nat /\ Got(c, j) \in Nat /\ Put(c, j) \in Nat
      /\ Len(U) = Out(c, i) - Got(c, j) /\ Len(V) = Put(c, j) - In(c, i)
  BY <1>1, <1>2, ClientCounts, ServerCounts DEF Talk, During
<1>4. PICK p \in 1 .. Len(c.steps) : c.steps[p].do = "write" /\ Out(c, p) = Got(c, j) + Len(U)
  <2>1. OutAt(c, j, U[Len(U)], Len(U), t)
    BY <1>2 DEF Talk, Sent
  <2> QED
    BY <2>1 DEF OutAt
<1>5. PICK q \in 1 .. Len(Handler(c)) :
         Handler(c)[q].do = "write" /\ Put(c, q) = In(c, i) + 1 /\ Got(c, q) <= Got(c, j)
  <2>1. ReplyAt(c, i, Got(c, j), V[1], 1, t)
    BY <1>1, <1>2 DEF During, Replied
  <2> QED
    BY <2>1 DEF ReplyAt
<1>6. p \in Nat \ {0} /\ q \in Nat
  BY ScriptTypes
<1>7. p <= i
  <2>1. Out(c, p) <= Out(c, i)
    BY <1>3, <1>4
  <2> QED
    BY <1>2, <1>4, <1>6, <2>1, WriteNumber
<1>8. In(c, p) \in Nat /\ In(c, p) <= In(c, i) /\ Got(c, q) \in Nat
  BY <1>2, <1>6, <1>7, ClientCounts, ServerCounts
<1>9. Put(c, q) > In(c, p)
  <2> DEFINE a == Put(c, q)
             b == In(c, p)
             d == In(c, i)
  <2>1. a = d + 1 /\ d \in Nat /\ b \in Nat /\ b <= d
    BY <1>3, <1>5, <1>8
  <2> HIDE DEF a, b, d
  <2>2. a > b
    BY ONLY <2>1
  <2> QED
    BY <2>2 DEF a, b
<1>10. Got(c, q) >= Out(c, p)
  BY <1>4, <1>5, <1>9 DEF Conversation, TakeTurns
<1>11. Out(c, p) > Got(c, j) /\ Out(c, p) \in Nat
  BY <1>2, <1>3, <1>4, Sums
<1> QED
  BY <1>3, <1>5, <1>8, <1>10, <1>11

\* What the counts are worth in each state.
LEMMA TalkBounds ==
  ASSUME NEW r, NEW c \in Calls, Conversation(c),
         NEW i \in 0 .. Len(c.steps), NEW j \in 0 .. Len(Handler(c)), NEW t, NEW by,
         NEW U \in Seq(PacketsA), NEW V \in Seq(PacketsA), NEW J, Talk(c, i, j, t, U, V, J, by, r)
  PROVE  /\ i \in Nat /\ j \in Nat /\ Len(U) \in Nat /\ Len(V) \in Nat
         /\ Out(c, i) \in Nat /\ In(c, i) \in Nat /\ Got(c, j) \in Nat /\ Put(c, j) \in Nat
         /\ Got(c, j) <= Out(c, i) /\ In(c, i) <= Put(c, j)
         /\ Len(U) = Out(c, i) - Got(c, j)
<1>1. i \in Nat /\ j \in Nat /\ Len(U) \in Nat /\ Len(V) \in Nat
  BY ScriptTypes
<1>2. Out(c, i) \in Nat /\ In(c, i) \in Nat /\ Got(c, j) \in Nat /\ Put(c, j) \in Nat
  BY <1>1, ClientCounts, ServerCounts
<1>3. Len(U) = Out(c, i) - Got(c, j)
  BY DEF Talk
<1>4. In(c, i) <= Put(c, j)
  <2>1. CASE Before(c, i, j, V, J, r)
    BY <1>2, <2>1 DEF Before
  <2>2. CASE During(c, i, j, t, V, J, by, r)
    BY <1>1, <1>2, <2>2 DEF During
  <2>3. CASE Failing(c, i, j, t, U, V, J, by, r)
    BY <1>1, <1>2, <2>3 DEF Failing
  <2>4. CASE Failed(c, i, j, t, U, V, J, r)
    <3>1. Len(V) > 0
      BY <2>4 DEF Failed
    <3> QED
      BY <1>1, <1>2, <2>4, <3>1 DEF Failed
  <2> QED
    BY <2>1, <2>2, <2>3, <2>4 DEF Talk
<1> QED
  BY <1>1, <1>2, <1>3, <1>4

\* A conversation begins.
LEMMA TalkStart ==
  ASSUME NEW c, NEW t, NEW by, NEW J \in Resting
  PROVE  Talk(c, 0, 0, t, << >>, << >>, J, by, "no")
<1>1. Out(c, 0) = 0 /\ In(c, 0) = 0 /\ Got(c, 0) = 0 /\ Len(<< >>) = 0
  BY ClientCounts, ServerCounts
<1>2. Before(c, 0, 0, << >>, J, "no")
  BY <1>1 DEF Before
<1>3. Sent(c, 0, << >>, t)
  BY <1>1 DEF Sent
<1> QED
  BY <1>1, <1>2, <1>3 DEF Talk

\* The client writes.
LEMMA TalkWrite ==
  ASSUME NEW r, NEW c \in Calls, Conversation(c),
         NEW i \in 0 .. Len(c.steps), NEW j \in 0 .. Len(Handler(c)), NEW t, NEW by,
         NEW U \in Seq(PacketsA), NEW V \in Seq(PacketsA), NEW J, Talk(c, i, j, t, U, V, J, by, r),
         i < Len(c.steps), c.steps[i + 1].do = "write",
         NEW x \in PacketsA, x.ty = c.steps[i + 1].ty, x.opts = c.opts, x.by = t
  PROVE  Talk(c, i + 1, j, t, Append(U, x), V, J, by, r)
<1>1. /\ i \in Nat /\ j \in Nat /\ Len(U) \in Nat /\ Len(V) \in Nat
      /\ Out(c, i) \in Nat /\ In(c, i) \in Nat /\ Got(c, j) \in Nat /\ Put(c, j) \in Nat
      /\ Got(c, j) <= Out(c, i) /\ In(c, i) <= Put(c, j)
      /\ Len(U) = Out(c, i) - Got(c, j)
  BY TalkBounds
<1>2. Out(c, i + 1) = Out(c, i) + 1 /\ In(c, i + 1) = In(c, i)
  BY <1>1, ClientCounts
<1>3. /\ Append(U, x) \in Seq(PacketsA) /\ Len(Append(U, x)) = Len(U) + 1
      /\ (\A k \in 1 .. Len(U) : Append(U, x)[k] = U[k]) /\ Append(U, x)[Len(U) + 1] = x
  BY Appended
<1>4. i + 1 \in 1 .. Len(c.steps)
  BY <1>1, ScriptTypes
<1>5. OutAt(c, j, x, Len(U) + 1, t)
  BY <1>1, <1>2, <1>4 DEF OutAt
<1>6. Sent(c, j, Append(U, x), t)
  <2> SUFFICES ASSUME NEW k \in 1 .. Len(U) + 1
               PROVE  OutAt(c, j, Append(U, x)[k], k, t)
    BY <1>3 DEF Sent
  <2>1. CASE k = Len(U) + 1
    BY <1>3, <1>5, <2>1
  <2>2. CASE k \in 1 .. Len(U)
    BY <1>3, <2>2 DEF Talk, Sent
  <2> QED
    BY <1>1, <2>1, <2>2
<1>7. ~(j < Len(Handler(c)) /\ Handler(c)[j + 1].do \in Commands /\ U = << >>)
  <2> SUFFICES ASSUME j < Len(Handler(c)), Handler(c)[j + 1].do \in Commands, U = << >>
               PROVE  FALSE
    OBVIOUS
  <2>1. j + 1 \in 1 .. Len(Handler(c)) /\ Handler(c)[j + 1].do \notin {"read", "write"}
    BY <1>1, ScriptTypes DEF Commands
  <2>2. Got(c, j + 1) = Got(c, j) /\ Put(c, j + 1) = Put(c, j)
    BY <1>1, <2>1, ServerCounts
  <2>3. Len(U) = 0
    OBVIOUS
  <2>4. Out(c, i + 1) > Got(c, j + 1)
    BY <1>1, <1>2, <2>2, <2>3
  <2>5. In(c, i + 1) > Put(c, j + 1)
    BY <1>4, <2>1, <2>4 DEF Conversation, TakeTurns
  <2> QED
    BY <1>1, <1>2, <2>2, <2>5
<1>8. Before(c, i, j, V, J, r) => Before(c, i + 1, j, V, J, r)
  BY <1>2 DEF Before
<1>9. During(c, i, j, t, V, J, by, r) => During(c, i + 1, j, t, V, J, by, r)
  BY <1>2 DEF During, Replied, ReplyAt
<1>10. Len(Append(U, x)) = Out(c, i + 1) - Got(c, j)
  BY <1>1, <1>2, <1>3
<1> QED
  BY <1>6, <1>7, <1>8, <1>9, <1>10 DEF Talk, Failing, Failed


\* The client flushes.
LEMMA TalkFlush ==
  ASSUME NEW r, NEW c \in Calls, Conversation(c),
         NEW i \in 0 .. Len(c.steps), NEW j \in 0 .. Len(Handler(c)), NEW t, NEW by,
         NEW U \in Seq(PacketsA), NEW V \in Seq(PacketsA), NEW J, Talk(c, i, j, t, U, V, J, by, r),
         i < Len(c.steps), c.steps[i + 1].do = "flush"
  PROVE  Talk(c, i + 1, j, t, U, V, J, by, r)
<1>1. /\ i \in Nat /\ j \in Nat /\ Len(U) \in Nat /\ Len(V) \in Nat
      /\ Out(c, i) \in Nat /\ In(c, i) \in Nat /\ Got(c, j) \in Nat /\ Put(c, j) \in Nat
      /\ Got(c, j) <= Out(c, i) /\ In(c, i) <= Put(c, j)
      /\ Len(U) = Out(c, i) - Got(c, j)
  BY TalkBounds
<1>2. Out(c, i + 1) = Out(c, i) /\ In(c, i + 1) = In(c, i)
  BY <1>1, ClientCounts
<1>3. Before(c, i, j, V, J, r) => Before(c, i + 1, j, V, J, r)
  BY <1>2 DEF Before
<1>4. During(c, i, j, t, V, J, by, r) => During(c, i + 1, j, t, V, J, by, r)
  BY <1>2 DEF During, Replied, ReplyAt
<1>5. Failing(c, i, j, t, U, V, J, by, r) => Failing(c, i + 1, j, t, U, V, J, by, r)
  BY <1>2 DEF Failing, Replied, ReplyAt
<1>6. Failed(c, i, j, t, U, V, J, r) => Failed(c, i + 1, j, t, U, V, J, r)
  BY <1>2 DEF Failed, RepliedOrFailed, ReplyAt, ErrorAt
<1> QED
  BY <1>2, <1>3, <1>4, <1>5, <1>6 DEF Talk

\* The reply that the client reads next is the one that it expects.
LEMMA ReplyMatches ==
  ASSUME NEW c \in Calls, Conversation(c), NEW i \in 0 .. Len(c.steps),
         i < Len(c.steps), c.steps[i + 1].do = "read",
         NEW r, NEW x, NEW by, ReplyAt(c, i, r, x, 1, by)
  PROVE  x.ty = c.steps[i + 1].ty /\ x.ty # "Error"
<1>1. PICK q \in 1 .. Len(Handler(c)) :
        Handler(c)[q].do = "write" /\ Put(c, q) = In(c, i) + 1 /\ x.ty = Handler(c)[q].ty
  BY DEF ReplyAt
<1>2. i \in Nat /\ i + 1 \in 1 .. Len(c.steps)
  BY ScriptTypes
<1>3. In(c, i + 1) = In(c, i) + 1
  BY <1>2, ClientCounts
<1>4. c.steps[i + 1].ty = Handler(c)[q].ty
  BY <1>1, <1>2, <1>3 DEF Conversation, SameTypes
<1> QED
  BY <1>1, <1>2, <1>4 DEF Conversation, WellFormed

\* After a reply was read, the others have moved up.
LEMMA ReplyShift ==
  ASSUME NEW c, NEW i \in Nat, c.steps[i + 1].do = "read",
         NEW r, NEW x, NEW by, NEW k \in Nat
  PROVE  /\ ReplyAt(c, i, r, x, k + 1, by) => ReplyAt(c, i + 1, r, x, k, by)
         /\ ErrorAt(c, i, r, x, k + 1, by) => ErrorAt(c, i + 1, r, x, k, by)
<1>1. In(c, i + 1) = In(c, i) + 1 /\ In(c, i) \in Nat
  BY ClientCounts
<1>2. In(c, i) + (k + 1) = In(c, i + 1) + k /\ In(c, i) + (k + 1) - 1 = In(c, i + 1) + k - 1
  BY <1>1
<1> QED
  BY <1>2 DEF ReplyAt, ErrorAt

\* Numbers of elements.
LEMMA Shorter ==
  ASSUME NEW n \in Nat
  PROVE  /\ n > 0 => 1 \in 1 .. n /\ n \in 1 .. n
         /\ n > 1 => 1 # n
         /\ \A m \in Nat : m = n - 1 =>
              \A k \in 1 .. m : /\ k \in Nat /\ k + 1 \in 1 .. n /\ k \in 1 .. n - 1
                                /\ k + 1 = n => k = m
  OBVIOUS

\* That a command failed was the last thing to say.
Reported(U, V, J, r) == U = << >> /\ V = << >> /\ J \in Resting /\ r = "failed"

\* The client reads: the expected reply, or an ErrorPacket that is the last.
LEMMA TalkRead ==
  ASSUME NEW r, NEW c \in Calls, Conversation(c),
         NEW i \in 0 .. Len(c.steps), NEW j \in 0 .. Len(Handler(c)), NEW t, NEW by,
         NEW U \in Seq(PacketsA), NEW V \in Seq(PacketsA), NEW J, Talk(c, i, j, t, U, V, J, by, r),
         i < Len(c.steps), c.steps[i + 1].do = "read", V # << >>
  PROVE  /\ Head(V).ty \in {c.steps[i + 1].ty, "Error"}
         /\ Head(V).ty = c.steps[i + 1].ty => Talk(c, i + 1, j, t, U, Tail(V), J, by, r)
         /\ Head(V).ty = "Error" => Reported(U, Tail(V), J, r)
<1>1. /\ i \in Nat /\ j \in Nat /\ Len(U) \in Nat /\ Len(V) \in Nat
      /\ Out(c, i) \in Nat /\ In(c, i) \in Nat /\ Got(c, j) \in Nat /\ Put(c, j) \in Nat
      /\ Got(c, j) <= Out(c, i) /\ In(c, i) <= Put(c, j)
      /\ Len(U) = Out(c, i) - Got(c, j)
  BY TalkBounds
<1>2. Out(c, i + 1) = Out(c, i) /\ In(c, i + 1) = In(c, i) + 1
  BY <1>1, ClientCounts
<1> DEFINE T == Tail(V)
<1>3. /\ T \in Seq(PacketsA) /\ Len(T) = Len(V) - 1 /\ Len(V) > 0
      /\ (\A k \in 1 .. Len(V) - 1 : T[k] = V[k + 1]) /\ Head(V) = V[1]
  BY TailTaken
<1>0. Len(T) \in Nat
  BY <1>3, <1>1
<1> HIDE DEF T
<1>4. i + 1 \in 1 .. Len(c.steps) /\ c.steps[i + 1].ty # "Error"
  <2>0. Len(c.steps) \in Nat
    BY ScriptTypes
  <2>1. i + 1 \in 1 .. Len(c.steps)
    BY <1>1, <2>0
  <2> QED
    BY <2>1 DEF Conversation, WellFormed
<1>5. Sent(c, j, U, t) /\ Len(U) = Out(c, i + 1) - Got(c, j)
  BY <1>1, <1>2 DEF Talk
<1>6. ASSUME Replied(c, i, Got(c, j), V, t)
      PROVE  Head(V).ty = c.steps[i + 1].ty /\ Replied(c, i + 1, Got(c, j), T, t)
  <2>1. ReplyAt(c, i, Got(c, j), V[1], 1, t)
    BY <1>1, <1>3, <1>6 DEF Replied
  <2>2. ASSUME NEW k \in 1 .. Len(T)
        PROVE  ReplyAt(c, i + 1, Got(c, j), T[k], k, t)
    <3>1. k \in Nat /\ k + 1 \in 1 .. Len(V) /\ k \in 1 .. Len(V) - 1
      BY <1>0, <1>1, <1>3, Shorter
    <3>3. T[k] = V[k + 1]
      BY <1>3, <3>1
    <3>2. ReplyAt(c, i, Got(c, j), V[k + 1], k + 1, t)
      BY <1>6, <3>1 DEF Replied
    <3> QED
      BY <1>1, <3>1, <3>2, <3>3, ReplyShift
  <2> QED
    BY <1>3, <2>1, <2>2, ReplyMatches DEF Replied
<1>7. ~Before(c, i, j, V, J, r)
  BY DEF Before
<1>8. ASSUME During(c, i, j, t, V, J, by, r)
      PROVE  /\ Head(V).ty \in {c.steps[i + 1].ty, "Error"}
             /\ Head(V).ty = c.steps[i + 1].ty => Talk(c, i + 1, j, t, U, T, J, by, r)
             /\ Head(V).ty = "Error" => Reported(U, T, J, r)
  <2>1. Head(V).ty = c.steps[i + 1].ty /\ Replied(c, i + 1, Got(c, j), T, t)
    BY <1>6, <1>8 DEF During
  <2>3. Len(T) = Put(c, j) - In(c, i + 1)
    <3>1. Len(V) = Put(c, j) - In(c, i)
      BY <1>8 DEF During
    <3>2. Len(V) - 1 = Put(c, j) - (In(c, i) + 1)
      BY <1>1, <3>1, Sums
    <3> QED
      BY <1>2, <1>3, <3>2
  <2>2. During(c, i + 1, j, t, T, J, by, r)
    BY <1>8, <2>1, <2>3 DEF During
  <2> QED
    BY <1>4, <1>5, <2>1, <2>2 DEF Talk
<1>9. ASSUME Failing(c, i, j, t, U, V, J, by, r)
      PROVE  /\ Head(V).ty \in {c.steps[i + 1].ty, "Error"}
             /\ Head(V).ty = c.steps[i + 1].ty => Talk(c, i + 1, j, t, U, T, J, by, r)
             /\ Head(V).ty = "Error" => Reported(U, T, J, r)
  <2>1. Head(V).ty = c.steps[i + 1].ty /\ Replied(c, i + 1, Got(c, j), T, t)
    BY <1>6, <1>9 DEF Failing
  <2>3. Len(T) = Put(c, j) - In(c, i + 1)
    <3>1. Len(V) = Put(c, j) - In(c, i)
      BY <1>9 DEF Failing
    <3>2. Len(V) - 1 = Put(c, j) - (In(c, i) + 1)
      BY <1>1, <3>1, Sums
    <3> QED
      BY <1>2, <1>3, <3>2
  <2>2. Failing(c, i + 1, j, t, U, T, J, by, r)
    BY <1>9, <2>1, <2>3 DEF Failing
  <2> QED
    BY <1>4, <1>5, <2>1, <2>2 DEF Talk
<1>10. ASSUME Failed(c, i, j, t, U, V, J, r)
       PROVE  /\ Head(V).ty \in {c.steps[i + 1].ty, "Error"}
              /\ Head(V).ty = c.steps[i + 1].ty => Talk(c, i + 1, j, t, U, T, J, by, r)
              /\ Head(V).ty = "Error" => Reported(U, T, J, r)
  <2>1. CASE Len(V) = 1
    <3>1. Head(V).ty = "Error"
      BY <1>3, <1>10, <2>1 DEF Failed, ErrorAt
    <3>2. T = << >>
      BY <1>1, <1>3, <2>1, NoElements
    <3> QED
      BY <1>4, <1>10, <3>1, <3>2 DEF Failed, Reported
  <2>2. CASE Len(V) > 1
    <3>0. 1 # Len(V)
      BY <1>1, <2>2, Shorter
    <3>1. 1 \in 1 .. Len(V) /\ 1 # Len(V)
      BY <1>1, <1>3, <3>0, Shorter
    <3>2. ReplyAt(c, i, Got(c, j), V[1], 1, t)
      BY <1>10, <3>1 DEF Failed, RepliedOrFailed
    <3>3. Head(V).ty = c.steps[i + 1].ty
      BY <1>3, <3>2, ReplyMatches
    <3>4. ASSUME NEW k \in 1 .. Len(T)
          PROVE  \/ ReplyAt(c, i + 1, Got(c, j), T[k], k, t)
                 \/ k = Len(T) /\ ErrorAt(c, i + 1, Got(c, j), T[k], k, t)
      <4>0. k \in Nat /\ k + 1 \in 1 .. Len(V) /\ k \in 1 .. Len(V) - 1
            /\ (k + 1 = Len(V) => k = Len(T))
        BY <1>0, <1>1, <1>3, Shorter
      <4>1. k \in Nat /\ k + 1 \in 1 .. Len(V) /\ T[k] = V[k + 1] /\ (k + 1 = Len(V) => k = Len(T))
        BY <1>3, <4>0
      <4>2. \/ ReplyAt(c, i, Got(c, j), V[k + 1], k + 1, t)
            \/ k + 1 = Len(V) /\ ErrorAt(c, i, Got(c, j), V[k + 1], k + 1, t)
        BY <1>10, <4>1 DEF Failed, RepliedOrFailed
      <4> QED
        BY <1>1, <4>1, <4>2, ReplyShift
    <3>5. RepliedOrFailed(c, i + 1, Got(c, j), T, t)
      BY <3>4 DEF RepliedOrFailed
    <3>6. ErrorAt(c, i + 1, Got(c, j), T[Len(T)], Len(T), t)
      <4>1. Len(T) \in Nat /\ Len(T) + 1 = Len(V) /\ Len(T) \in 1 .. Len(V) - 1
        BY <1>1, <1>3, <2>2
      <4>2. T[Len(T)] = V[Len(V)]
        BY <1>3, <4>1
      <4>3. ErrorAt(c, i, Got(c, j), V[Len(V)], Len(T) + 1, t)
        BY <1>10, <4>1 DEF Failed
      <4> QED
        BY <1>1, <4>1, <4>2, <4>3, ReplyShift
    <3>7. T # << >> /\ Len(T) = Put(c, j) - In(c, i + 1) + 1
      <4>1. Len(T) > 0
        BY <1>1, <1>3, <2>2
      <4>2. T # << >>
        BY <4>1, <1>3, NoElements
      <4>3. Len(V) = Put(c, j) - In(c, i) + 1
        BY <1>10 DEF Failed
      <4>4. Len(V) - 1 = Put(c, j) - (In(c, i) + 1) + 1
        BY <1>1, <4>3, Sums
      <4> QED
        BY <1>2, <1>3, <4>2, <4>4
    <3>8. Failed(c, i + 1, j, t, U, T, J, r)
      BY <1>10, <3>5, <3>6, <3>7 DEF Failed
    <3> QED
      BY <1>4, <1>5, <3>3, <3>8 DEF Talk
  <2> QED
    BY <1>1, <1>3, <2>1, <2>2
<1>11. /\ Head(V).ty \in {c.steps[i + 1].ty, "Error"}
       /\ Head(V).ty = c.steps[i + 1].ty => Talk(c, i + 1, j, t, U, T, J, by, r)
       /\ Head(V).ty = "Error" => Reported(U, T, J, r)
  BY <1>7, <1>8, <1>9, <1>10 DEF Talk
<1> QED
  BY <1>4, <1>11 DEF T

\* When the client has taken its last step, nothing is left to say.
LEMMA TalkEnd ==
  ASSUME NEW r, NEW c \in Calls, Conversation(c),
         NEW i \in 0 .. Len(c.steps), NEW j \in 0 .. Len(Handler(c)), NEW t, NEW by,
         NEW U \in Seq(PacketsA), NEW V \in Seq(PacketsA), NEW J, Talk(c, i, j, t, U, V, J, by, r),
         i = Len(c.steps)
  PROVE  U = << >> /\ V = << >> /\ J \in Resting /\ r = "ok"
<1>1. /\ i \in Nat /\ j \in Nat /\ Len(U) \in Nat /\ Len(V) \in Nat
      /\ Out(c, i) \in Nat /\ In(c, i) \in Nat /\ Got(c, j) \in Nat /\ Put(c, j) \in Nat
      /\ Got(c, j) <= Out(c, i) /\ In(c, i) <= Put(c, j)
      /\ Len(U) = Out(c, i) - Got(c, j)
  BY TalkBounds
<1> DEFINE m == Len(Handler(c))
<1>2. m \in Nat /\ Got(c, m) \in Nat /\ Put(c, m) \in Nat /\ Put(c, j) <= Put(c, m)
      /\ Got(c, j) <= Got(c, m) /\ j <= m
  BY <1>1, ScriptTypes, ServerCounts
<1>3. Out(c, i) = Got(c, m) /\ Put(c, m) <= In(c, i)
  BY DEF Conversation, SameTypes
<1>4. In(c, i) = Put(c, j) /\ Put(c, j) = Put(c, m)
  BY <1>1, <1>2, <1>3
<1>5. ASSUME j < m - 1
      PROVE  FALSE
  <2>1. j + 1 \in 1 .. m /\ j + 1 < m /\ j + 1 \in Nat
    BY <1>1, <1>2, <1>5
  <2>2. Put(c, j + 1) \in Nat /\ Put(c, j) <= Put(c, j + 1) /\ Put(c, j + 1) <= Put(c, m)
    BY <1>1, <1>2, <2>1, ServerCounts
  <2>3. Handler(c)[j + 1].do = "write" => Put(c, j + 1) = Put(c, j) + 1
    BY <1>1, ServerCounts
  <2>4. Handler(c)[j + 1].do # "write" => Put(c, j + 1) < In(c, i)
    BY <2>1 DEF Conversation, TakeTurns
  <2> QED
    BY <1>1, <1>2, <1>4, <2>2, <2>3, <2>4
<1>6. j = m \/ j = m - 1
  BY <1>1, <1>2, <1>5
<1>7. Handler(c)[m] = F /\ m > 0
  BY ScriptTypes
<1>8. ~Failing(c, i, j, t, U, V, J, by, r) /\ ~Failed(c, i, j, t, U, V, J, r)
  <2> SUFFICES ASSUME j < m, Handler(c)[j + 1].do \in Commands
               PROVE  FALSE
    BY DEF Failing, Failed
  <2>1. j + 1 = m
    BY <1>1, <1>2, <1>6
  <2> QED
    BY <1>7, <2>1 DEF F, Commands
<1>9. J \in Resting
  <2>1. SubSeq(Handler(c), m + 1, m) = << >> /\ SubSeq(Handler(c), (m - 1) + 1, m) = <<F>>
    BY <1>7, ScriptTypes, LastStep
  <2>2. During(c, i, j, t, V, J, by, r) => J \in Resting
    BY <1>6, <2>1 DEF During, Resting
  <2> QED
    BY <1>8, <2>2 DEF Talk, Before
<1>10. Got(c, j) = Got(c, m)
  <2>1. CASE j = m - 1
    <3>1. m = j + 1 /\ Handler(c)[j + 1].do = "flush"
      BY <1>1, <1>2, <1>7, <2>1 DEF F
    <3>2. Handler(c)[j + 1].do \notin {"read", "write"}
      BY <3>1
    <3>3. Got(c, j + 1) = Got(c, j)
      BY <1>1, <3>2, ServerCounts
    <3> QED
      BY <3>1, <3>3
  <2> QED
    BY <1>6, <2>1
<1>11. Len(U) = 0
  BY <1>1, <1>3, <1>10
<1>12. V = << >>
  <2>1. During(c, i, j, t, V, J, by, r) => Len(V) = 0
    BY <1>1, <1>4 DEF During
  <2> QED
    BY <1>8, <2>1, NoElements DEF Talk, Before
<1>13. In(c, i) > 0
  <2> DEFINE k == i - 1
  <2>1. i > 0 /\ k \in Nat /\ k + 1 = i
    BY <1>1, ScriptTypes
  <2>2. c.steps[i].do = "read"
    BY DEF Conversation, WellFormed
  <2> HIDE DEF k
  <2>3. In(c, i) = In(c, k) + 1 /\ In(c, k) \in Nat
    BY <2>1, <2>2, ClientCounts
  <2> QED
    BY <2>3
<1>14. ~Before(c, i, j, V, J, r)
  BY <1>13 DEF Before
<1>15. r = "ok"
  BY <1>8, <1>9, <1>14, RestingCarried DEF Talk, During
<1> QED
  BY <1>9, <1>11, <1>12, <1>15, NoElements

-----------------------------------------------------------------------------
(* What the server finds. *)

\* A packet that the server has still to read is from a step of the call.
LEMMA OutStep ==
  ASSUME NEW c \in Calls, Conversation(c), NEW j \in 0 .. Len(Handler(c)), NEW by,
         NEW U \in Seq(PacketsA), U # << >>, Sent(c, j, U, by)
  PROVE  \E p \in 1 .. Len(c.steps) :
           /\ c.steps[p].do = "write" /\ Out(c, p) = Got(c, j) + 1 /\ In(c, p) <= Put(c, j)
           /\ U[1].ty = c.steps[p].ty /\ U[1].opts = c.opts /\ U[1].by = by
<1>1. Len(U) \in Nat /\ Len(U) > 0
  BY NoElements
<1>2. 1 \in 1 .. Len(U)
  BY <1>1, Shorter
<1>3. OutAt(c, j, U[1], 1, by)
  BY <1>2 DEF Sent
<1> QED
  BY <1>3 DEF OutAt

\* The first thing it finds is the request.
LEMMA SentPeek ==
  ASSUME NEW c \in Calls, Conversation(c), NEW by,
         NEW U \in Seq(PacketsA), U # << >>, Sent(c, 0, U, by)
  PROVE  /\ Head(U).ty \in Requests /\ Head(U).by = by
         /\ Append(Handlers(Head(U).opts)[Head(U).ty], F) = Handler(c)
<1>0. Len(Handler(c)) \in Nat /\ Len(c.steps) \in Nat /\ Len(c.steps) > 0
  BY ScriptTypes
<1>1. 0 \in 0 .. Len(Handler(c)) /\ Got(c, 0) = 0
  BY <1>0, ServerCounts
<1>2. PICK p \in 1 .. Len(c.steps) :
        /\ c.steps[p].do = "write" /\ Out(c, p) = Got(c, 0) + 1
        /\ U[1].ty = c.steps[p].ty /\ U[1].opts = c.opts /\ U[1].by = by
  BY <1>1, OutStep
<1>3. c.steps[1].do = "write" /\ c.steps[1].ty \in Requests
  BY DEF Conversation, WellFormed
<1>4. Out(c, 1) = 1
  <2>1. 0 \in Nat /\ 0 + 1 = 1 /\ Out(c, 0) = 0
    BY ClientCounts
  <2> QED
    BY <1>3, <2>1, ClientCounts
<1>5. p \in Nat \ {0} /\ 1 \in Nat /\ Out(c, p) <= Out(c, 1)
  BY <1>0, <1>1, <1>2, <1>4
<1>6. p <= 1
  BY <1>2, <1>5, WriteNumber
<1>7. p = 1
  BY <1>5, <1>6
<1>8. Head(U) = U[1]
  BY TailTaken
<1> QED
  BY <1>2, <1>3, <1>7, <1>8 DEF Handler

\* When a handler reads, it finds what it expects.
LEMMA SentRead ==
  ASSUME NEW c \in Calls, Conversation(c), NEW j \in 0 .. Len(Handler(c)), NEW by,
         NEW U \in Seq(PacketsA), U # << >>, Sent(c, j, U, by),
         j < Len(Handler(c)), Handler(c)[j + 1].do = "read"
  PROVE  Head(U).ty = Handler(c)[j + 1].ty /\ Sent(c, j + 1, Tail(U), by)
<1>1. j \in Nat /\ j + 1 \in 1 .. Len(Handler(c))
  BY ScriptTypes
<1>2. Got(c, j + 1) = Got(c, j) + 1 /\ Put(c, j + 1) = Put(c, j) /\ Got(c, j) \in Nat
  BY <1>1, ServerCounts
<1>3. PICK p \in 1 .. Len(c.steps) :
        c.steps[p].do = "write" /\ Out(c, p) = Got(c, j) + 1 /\ U[1].ty = c.steps[p].ty
  BY OutStep
<1>4. c.steps[p].ty = Handler(c)[j + 1].ty
  BY <1>1, <1>2, <1>3 DEF Conversation, SameTypes
<1> DEFINE T == Tail(U)
<1>5. /\ T \in Seq(PacketsA) /\ Len(T) = Len(U) - 1 /\ Len(U) \in Nat /\ Len(U) > 0
      /\ (\A k \in 1 .. Len(U) - 1 : T[k] = U[k + 1]) /\ Head(U) = U[1]
  BY TailTaken
<1>6. Len(T) \in Nat
  BY <1>5
<1> HIDE DEF T
<1>7. ASSUME NEW k \in 1 .. Len(T)
      PROVE  OutAt(c, j + 1, T[k], k, by)
  <2>1. k \in Nat /\ k + 1 \in 1 .. Len(U) /\ k \in 1 .. Len(U) - 1
    BY <1>5, <1>6, Shorter
  <2>2. T[k] = U[k + 1]
    BY <1>5, <2>1
  <2>3. OutAt(c, j, U[k + 1], k + 1, by)
    BY <2>1 DEF Sent
  <2>4. Got(c, j) + (k + 1) = Got(c, j + 1) + k
    BY <1>2, <2>1
  <2> QED
    BY <1>2, <2>2, <2>3, <2>4 DEF OutAt
<1>8. Sent(c, j + 1, T, by)
  BY <1>7 DEF Sent
<1> QED
  BY <1>3, <1>4, <1>5, <1>8 DEF T

\* Any other step of the handler leaves what it has to read.
LEMMA SentStep ==
  ASSUME NEW c \in Calls, Conversation(c), NEW j \in 0 .. Len(Handler(c)), NEW by,
         NEW U \in Seq(PacketsA), Sent(c, j, U, by),
         j < Len(Handler(c)), Handler(c)[j + 1].do # "read"
  PROVE  Sent(c, j + 1, U, by)
<1>1. j \in Nat /\ j + 1 \in Nat /\ j <= j + 1
  BY ScriptTypes
<1>2. Put(c, j) \in Nat /\ Put(c, j + 1) \in Nat /\ Put(c, j) <= Put(c, j + 1)
  BY <1>1, ServerCounts
<1>3. Got(c, j + 1) = Got(c, j)
  BY <1>1, ServerCounts
<1>4. ASSUME NEW k \in 1 .. Len(U)
      PROVE  OutAt(c, j + 1, U[k], k, by)
  <2>1. OutAt(c, j, U[k], k, by)
    BY DEF Sent
  <2>2. PICK p \in 1 .. Len(c.steps) :
          /\ c.steps[p].do = "write" /\ Out(c, p) = Got(c, j) + k /\ In(c, p) <= Put(c, j)
          /\ U[k].ty = c.steps[p].ty /\ U[k].opts = c.opts /\ U[k].by = by
    BY <2>1 DEF OutAt
  <2>3. In(c, p) \in Nat
    BY ScriptTypes, ClientCounts
  <2>4. In(c, p) <= Put(c, j + 1)
    BY <1>2, <2>2, <2>3
  <2> QED
    BY <1>3, <2>2, <2>4 DEF OutAt
<1> QED
  BY <1>4 DEF Sent

\* At a driver call everything was read that the client has written.
LEMMA SentCommand ==
  ASSUME NEW c \in Calls, Conversation(c), NEW j \in 0 .. Len(Handler(c)), NEW by,
         NEW U \in Seq(PacketsA), Sent(c, j, U, by),
         j < Len(Handler(c)), Handler(c)[j + 1].do \in Commands
  PROVE  U = << >>
<1> SUFFICES ASSUME U # << >> PROVE FALSE
  OBVIOUS
<1>1. j \in Nat /\ j + 1 \in 1 .. Len(Handler(c)) /\ Handler(c)[j + 1].do \notin {"read", "write"}
  BY ScriptTypes DEF Commands
<1>2. Got(c, j + 1) = Got(c, j) /\ Put(c, j + 1) = Put(c, j) /\ Got(c, j) \in Nat /\ Put(c, j) \in Nat
  BY <1>1, ServerCounts
<1>3. PICK p \in 1 .. Len(c.steps) :
        c.steps[p].do = "write" /\ Out(c, p) = Got(c, j) + 1 /\ In(c, p) <= Put(c, j)
  BY OutStep
<1>4. In(c, p) \in Nat /\ Out(c, p) > Got(c, j + 1)
  <2>1. p \in Nat
    BY ScriptTypes
  <2>2. In(c, p) \in Nat
    BY <2>1, ClientCounts
  <2> QED
    BY <1>2, <1>3, <2>2
<1>5. In(c, p) > Put(c, j + 1)
  BY <1>1, <1>3, <1>4 DEF Conversation, TakeTurns
<1> QED
  BY <1>2, <1>3, <1>4, <1>5

\* After its handler nothing of a call is left to read.
LEMMA SentAll ==
  ASSUME NEW c \in Calls, Conversation(c), NEW by,
         NEW U \in Seq(PacketsA), Sent(c, Len(Handler(c)), U, by)
  PROVE  U = << >>
<1> SUFFICES ASSUME U # << >> PROVE FALSE
  OBVIOUS
<1> DEFINE m == Len(Handler(c))
           n == Len(c.steps)
<1>1. m \in Nat /\ n \in Nat /\ m \in 0 .. Len(Handler(c))
  BY ScriptTypes
<1>2. PICK p \in 1 .. Len(c.steps) : Out(c, p) = Got(c, m) + 1
  BY <1>1, OutStep
<1>3. Out(c, n) = Got(c, m) /\ Got(c, m) \in Nat
  BY <1>1, ServerCounts DEF Conversation, SameTypes
<1>4. p \in Nat /\ p <= n
  BY <1>1
<1>5. Out(c, p) <= Out(c, n)
  BY <1>1, <1>4, ClientCounts
<1> QED
  BY <1>2, <1>3, <1>5

-----------------------------------------------------------------------------
(* A conversation, the steps of the server. *)

\* What the kinds of steps exclude: only a handler in its course reads or calls
\* the driver.
LEMMA TalkJob ==
  ASSUME NEW r, NEW c, NEW i, NEW j, NEW t, NEW by, NEW U, NEW V, NEW J,
         Talk(c, i, j, t, U, V, J, by, r), J # << >>
  PROVE  /\ Head(J).do = "flush" => ~Failing(c, i, j, t, U, V, J, by, r)
         /\ Head(J).do # "flush" => ~Before(c, i, j, V, J, r) /\ ~Failed(c, i, j, t, U, V, J, r)
         /\ Head(J).do \notin {"flush", "write"} => During(c, i, j, t, V, J, by, r)
<1>1. Head(<<F>>).do = "flush" /\ Head(ErrorSteps).do = "write"
  BY DEF F, W, ErrorSteps
<1>2. Failing(c, i, j, t, U, V, J, by, r) => Head(J).do = "write"
  BY <1>1 DEF Failing
<1>3. Before(c, i, j, V, J, r) \/ Failed(c, i, j, t, U, V, J, r) => Head(J).do = "flush"
  BY <1>1 DEF Before, Failed, Resting
<1> QED
  BY <1>2, <1>3 DEF Talk

\* The next step of a handler.
LEMMA HandlerStep ==
  ASSUME NEW c \in Calls, Conversation(c), NEW j \in 0 .. Len(Handler(c)),
         NEW J, J = SubSeq(Handler(c), j + 1, Len(Handler(c))), J # << >>
  PROVE  /\ j < Len(Handler(c)) /\ j + 1 \in 0 .. Len(Handler(c)) /\ j \in Nat
         /\ Head(J) = Handler(c)[j + 1]
         /\ Tail(J) = SubSeq(Handler(c), (j + 1) + 1, Len(Handler(c)))
<1>1. Handler(c) \in Seq(StepsA) /\ Len(Handler(c)) \in Nat
  BY ScriptTypes
<1>2. j # Len(Handler(c))
  BY <1>1, StepsLeft
<1>3. j < Len(Handler(c)) /\ j + 1 \in 0 .. Len(Handler(c)) /\ j \in Nat
  BY <1>1, <1>2
<1>4. /\ Head(SubSeq(Handler(c), j + 1, Len(Handler(c)))) = Handler(c)[j + 1]
      /\ Tail(SubSeq(Handler(c), j + 1, Len(Handler(c))))
           = SubSeq(Handler(c), (j + 1) + 1, Len(Handler(c)))
  BY <1>1, <1>3, StepsLeft
<1> QED
  BY <1>3, <1>4

\* At the end of its handler nothing of a call is left to read.
LEMMA SentRests ==
  ASSUME NEW c \in Calls, Conversation(c), NEW j \in 0 .. Len(Handler(c)), NEW by,
         NEW U \in Seq(PacketsA), Sent(c, j, U, by),
         NEW J \in Resting, J = SubSeq(Handler(c), j + 1, Len(Handler(c)))
  PROVE  U = << >>
<1>1. Handler(c) \in Seq(StepsA) /\ Len(Handler(c)) \in Nat
  BY ScriptTypes
<1>2. CASE J = << >>
  <2>1. j = Len(Handler(c))
    BY <1>1, <1>2, StepsLeft
  <2> QED
    BY <2>1, SentAll
<1>3. CASE J = <<F>>
  <2>6. <<F>> # << >> /\ Head(<<F>>) = F
    OBVIOUS
  <2>1. J # << >> /\ Tail(J) = << >> /\ Head(J) = F
    BY <1>3, <2>6, ShortSeqs
  <2>2. /\ j < Len(Handler(c)) /\ j + 1 \in 0 .. Len(Handler(c)) /\ Head(J) = Handler(c)[j + 1]
        /\ Tail(J) = SubSeq(Handler(c), (j + 1) + 1, Len(Handler(c)))
    BY <2>1, HandlerStep
  <2>3. Handler(c)[j + 1].do # "read"
    BY <2>1, <2>2 DEF F
  <2>4. Sent(c, j + 1, U, by)
    BY <2>2, <2>3, SentStep
  <2>5. j + 1 = Len(Handler(c))
    BY <1>1, <2>1, <2>2, StepsLeft
  <2> QED
    BY <2>4, <2>5, SentAll
<1> QED
  BY <1>2, <1>3 DEF Resting

\* The next step of the handler in the course of a conversation.
LEMMA DuringStep ==
  ASSUME NEW r, NEW c \in Calls, Conversation(c), NEW i, NEW j \in 0 .. Len(Handler(c)),
         NEW t, NEW V, NEW J, NEW by, During(c, i, j, t, V, J, by, r), J # << >>
  PROVE  /\ j < Len(Handler(c)) /\ j + 1 \in 0 .. Len(Handler(c)) /\ j \in Nat
         /\ Head(J) = Handler(c)[j + 1]
         /\ Tail(J) = SubSeq(Handler(c), (j + 1) + 1, Len(Handler(c)))
<1>1. J = SubSeq(Handler(c), j + 1, Len(Handler(c)))
  BY DEF During
<1> QED
  BY <1>1, HandlerStep

\* A server that waits for a request is bound to no thread.
LEMMA TalkAnyBy ==
  ASSUME NEW r, NEW c \in Calls, Conversation(c),
         NEW i \in 0 .. Len(c.steps), NEW j \in 0 .. Len(Handler(c)), NEW t, NEW by,
         NEW U, NEW V, Talk(c, i, j, t, U, V, << >>, by, r), NEW other
  PROVE  Talk(c, i, j, t, U, V, << >>, other, r)
<1>1. Handler(c) \in Seq(StepsA) /\ Len(Handler(c)) \in Nat
  BY ScriptTypes
<1>2. During(c, i, j, t, V, << >>, by, r) => During(c, i, j, t, V, << >>, other, r)
  <2> SUFFICES ASSUME During(c, i, j, t, V, << >>, by, r)
               PROVE  During(c, i, j, t, V, << >>, other, r)
    OBVIOUS
  <2>1. << >> = SubSeq(Handler(c), j + 1, Len(Handler(c)))
    BY DEF During
  <2>2. j = Len(Handler(c))
    BY <1>1, <2>1, StepsLeft
  <2>3. ~(j < Len(Handler(c)))
    BY <1>1, <2>2
  <2> QED
    BY <2>3 DEF During
<1>3. << >> # ErrorSteps
  BY DEF ErrorSteps
<1> QED
  BY <1>2, <1>3 DEF Talk, Failing

\* The server takes a request.
LEMMA TalkPeek ==
  ASSUME NEW r, NEW c \in Calls, Conversation(c),
         NEW i \in 0 .. Len(c.steps), NEW j \in 0 .. Len(Handler(c)), NEW t, NEW by,
         NEW U \in Seq(PacketsA), NEW V \in Seq(PacketsA),
         Talk(c, i, j, t, U, V, << >>, by, r), U # << >>
  PROVE  /\ Head(U).ty \in Requests /\ 0 \in 0 .. Len(Handler(c))
         /\ Append(Handlers(Head(U).opts)[Head(U).ty], F) = Handler(c)
         /\ Talk(c, i, 0, t, U, V,
                 Append(Handlers(Head(U).opts)[Head(U).ty], F), Head(U).by, r)
<1>1. Handler(c) \in Seq(StepsA) /\ Len(Handler(c)) \in Nat /\ i \in Nat
  BY ScriptTypes
<1>2. ~During(c, i, j, t, V, << >>, by, r)
  <2> SUFFICES ASSUME During(c, i, j, t, V, << >>, by, r)
               PROVE  FALSE
    OBVIOUS
  <2>1. << >> = SubSeq(Handler(c), j + 1, Len(Handler(c)))
    BY DEF During
  <2>2. j = Len(Handler(c))
    BY <1>1, <2>1, StepsLeft
  <2>3. Sent(c, Len(Handler(c)), U, t)
    BY <2>2 DEF Talk
  <2> QED
    BY <2>3, SentAll
<1>3. << >> # ErrorSteps
  BY DEF ErrorSteps
<1>4. Before(c, i, j, V, << >>, r)
  BY <1>2, <1>3 DEF Talk, Failing, Failed
<1>5. j = 0 /\ V = << >> /\ In(c, i) = 0 /\ r = Carried(Handler(c))
  BY <1>4, HandlerCarried DEF Before
<1>6. Sent(c, 0, U, t) /\ Len(U) = Out(c, i) - Got(c, 0)
  BY <1>5 DEF Talk
<1>7. /\ Head(U).ty \in Requests /\ Head(U).by = t
      /\ Append(Handlers(Head(U).opts)[Head(U).ty], F) = Handler(c)
  BY <1>6, SentPeek
<1>8. Put(c, 0) = 0 /\ Len(V) = 0
  BY <1>5, ServerCounts, NoElements
<1>9. Replied(c, i, Got(c, 0), V, t)
  BY <1>8 DEF Replied
<1>10. Handler(c) = SubSeq(Handler(c), 0 + 1, Len(Handler(c)))
  BY <1>1, AllSteps
<1>11. During(c, i, 0, t, V, Handler(c), t, r)
  BY <1>5, <1>8, <1>9, <1>10 DEF During
<1>12. 0 \in 0 .. Len(Handler(c))
  BY <1>1
<1> QED
  BY <1>6, <1>7, <1>11, <1>12 DEF Talk

\* The server reads, what it expects.
LEMMA TalkServerRead ==
  ASSUME NEW r, NEW c \in Calls, Conversation(c),
         NEW i \in 0 .. Len(c.steps), NEW j \in 0 .. Len(Handler(c)), NEW t, NEW by,
         NEW U \in Seq(PacketsA), NEW V \in Seq(PacketsA), NEW J,
         Talk(c, i, j, t, U, V, J, by, r), U # << >>, J # << >>, Head(J).do = "read"
  PROVE  /\ Head(U).ty = Head(J).ty /\ j + 1 \in 0 .. Len(Handler(c))
         /\ Talk(c, i, j + 1, t, Tail(U), V, Tail(J), by, r)
<1>1. /\ i \in Nat /\ j \in Nat /\ Len(U) \in Nat /\ Out(c, i) \in Nat /\ Got(c, j) \in Nat
      /\ Len(U) = Out(c, i) - Got(c, j)
  BY TalkBounds
<1>2. During(c, i, j, t, V, J, by, r)
  BY TalkJob
<1>3. J = SubSeq(Handler(c), j + 1, Len(Handler(c)))
  BY <1>2 DEF During
<1>4. /\ j < Len(Handler(c)) /\ j + 1 \in 0 .. Len(Handler(c))
      /\ Head(J) = Handler(c)[j + 1]
      /\ Tail(J) = SubSeq(Handler(c), (j + 1) + 1, Len(Handler(c)))
  BY <1>3, HandlerStep
<1>0. Handler(c)[j + 1].do = "read"
  BY <1>4
<1>5. Got(c, j + 1) = Got(c, j) + 1 /\ Put(c, j + 1) = Put(c, j)
  BY <1>0, <1>1, ServerCounts
<1>6. Sent(c, j, U, t)
  BY DEF Talk
<1>7. Head(U).ty = Handler(c)[j + 1].ty /\ Sent(c, j + 1, Tail(U), t)
  BY <1>4, <1>6, SentRead
<1>8. Len(Tail(U)) = Len(U) - 1
  BY TailTaken
<1>9. Len(Tail(U)) = Out(c, i) - Got(c, j + 1)
  BY <1>1, <1>5, <1>8
<1>10. Replied(c, i, Got(c, j), V, t) => Replied(c, i, Got(c, j + 1), V, t)
  BY <1>1, <1>5, ReplyLater
<1>11. During(c, i, j + 1, t, V, Tail(J), by, r)
  <2>1. Head(J).do \notin Commands
    BY DEF Commands
  <2>2. Carried(Tail(J)) = Carried(J)
    BY <1>3, <2>1, TailCarried
  <2> QED
    BY <1>2, <1>4, <1>5, <1>10, <2>2 DEF During
<1> QED
  BY <1>4, <1>7, <1>9, <1>11 DEF Talk

\* The first of the steps J writes packet x for this thread.
Writes(J, x, by) == J # << >> /\ Head(J).do = "write" /\ x.ty = Head(J).ty /\ x.by = by

\* The server writes: the next reply, or that a command failed.
LEMMA TalkServerWrite ==
  ASSUME NEW r, NEW c \in Calls, Conversation(c),
         NEW i \in 0 .. Len(c.steps), NEW j \in 0 .. Len(Handler(c)), NEW t, NEW by,
         NEW U \in Seq(PacketsA), NEW V \in Seq(PacketsA), NEW J,
         Talk(c, i, j, t, U, V, J, by, r), J # << >>, NEW x \in PacketsA, Writes(J, x, by)
  PROVE  \E jj \in 0 .. Len(Handler(c)) : Talk(c, i, jj, t, U, Append(V, x), Tail(J), by, r)
<1>1. /\ i \in Nat /\ j \in Nat /\ Len(U) \in Nat /\ Len(V) \in Nat
      /\ Out(c, i) \in Nat /\ In(c, i) \in Nat /\ Got(c, j) \in Nat /\ Put(c, j) \in Nat
      /\ Len(U) = Out(c, i) - Got(c, j)
  BY TalkBounds
<1> DEFINE A == Append(V, x)
<1>2. /\ A \in Seq(PacketsA) /\ Len(A) = Len(V) + 1
      /\ (\A k \in 1 .. Len(V) : A[k] = V[k]) /\ A[Len(V) + 1] = x
  BY Appended
<1> HIDE DEF A
<1>3. ASSUME During(c, i, j, t, V, J, by, r)
      PROVE  j + 1 \in 0 .. Len(Handler(c)) /\ Talk(c, i, j + 1, t, U, A, Tail(J), by, r)
  <2>2. /\ j < Len(Handler(c)) /\ j + 1 \in 0 .. Len(Handler(c))
        /\ Head(J) = Handler(c)[j + 1]
        /\ Tail(J) = SubSeq(Handler(c), (j + 1) + 1, Len(Handler(c)))
    <3>1. j < Len(Handler(c)) /\ j + 1 \in 0 .. Len(Handler(c))
      BY <1>3, DuringStep
    <3>4. J = SubSeq(Handler(c), j + 1, Len(Handler(c)))
      BY <1>3 DEF During
    <3>2. Head(J) = Handler(c)[j + 1]
      BY <3>4, HandlerStep
    <3>3. Tail(J) = SubSeq(Handler(c), (j + 1) + 1, Len(Handler(c)))
      BY <1>3, DuringStep
    <3> QED
      BY <3>1, <3>2, <3>3
  <2>3. Handler(c)[j + 1].do = "write"
    BY <2>2 DEF Writes
  <2>4. Got(c, j + 1) = Got(c, j) /\ Put(c, j + 1) = Put(c, j) + 1
    BY <1>1, <2>3, ServerCounts
  <2>5. by = t /\ Len(V) = Put(c, j) - In(c, i) /\ Replied(c, i, Got(c, j), V, t)
    BY <1>3, <2>2 DEF During
  <2>6. ReplyAt(c, i, Got(c, j), x, Len(V) + 1, t)
    <3>1. j + 1 \in 1 .. Len(Handler(c))
      BY <1>1, <2>2
    <3>2. Put(c, j + 1) = In(c, i) + (Len(V) + 1) /\ Got(c, j + 1) <= Got(c, j)
      <4>1. Put(c, j) + 1 = In(c, i) + (Len(V) + 1)
        BY <1>1, <2>5, Sums
      <4> QED
        BY <1>1, <2>4, <4>1
    <3> QED
      BY <2>2, <2>3, <2>5, <3>1, <3>2 DEF ReplyAt, Writes
  <2>7. Replied(c, i, Got(c, j), A, t)
    <3> SUFFICES ASSUME NEW k \in 1 .. Len(V) + 1
                 PROVE  ReplyAt(c, i, Got(c, j), A[k], k, t)
      BY <1>2 DEF Replied
    <3>1. CASE k = Len(V) + 1
      BY <1>2, <2>6, <3>1
    <3>2. CASE k \in 1 .. Len(V)
      BY <1>2, <2>5, <3>2 DEF Replied
    <3> QED
      BY <1>1, <3>1, <3>2
  <2>8. Len(A) = Put(c, j + 1) - In(c, i)
    <3>1. Len(V) + 1 = (Put(c, j) + 1) - In(c, i)
      BY <1>1, <2>5, Sums
    <3> QED
      BY <1>2, <2>4, <3>1
  <2>9. During(c, i, j + 1, t, A, Tail(J), by, r)
    <3>1. J = SubSeq(Handler(c), j + 1, Len(Handler(c))) /\ r = Carried(J)
      BY <1>3 DEF During
    <3>2. Head(J).do \notin Commands
      BY DEF Writes, Commands
    <3>3. r = Carried(Tail(J))
      BY <3>1, <3>2, TailCarried
    <3> QED
      BY <2>2, <2>4, <2>5, <2>7, <2>8, <3>3 DEF During
  <2>10. Sent(c, j, U, t)
    BY DEF Talk
  <2>11. Sent(c, j + 1, U, t)
    BY <2>2, <2>3, <2>10, SentStep
  <2> QED
    BY <1>1, <2>2, <2>4, <2>9, <2>11 DEF Talk
<1>4. ASSUME Failing(c, i, j, t, U, V, J, by, r)
      PROVE  Talk(c, i, j, t, U, A, Tail(J), by, r)
  <2>1. /\ j < Len(Handler(c)) /\ Handler(c)[j + 1].do \in Commands
        /\ U = << >> /\ J = ErrorSteps /\ by = t /\ r = "failed"
        /\ Len(V) = Put(c, j) - In(c, i) /\ Replied(c, i, Got(c, j), V, t)
    BY <1>4 DEF Failing
  <2>2. Tail(J) = <<F>> /\ x.ty = "Error" /\ x.by = t
    <3>1. Tail(ErrorSteps) = <<F>> /\ Head(ErrorSteps) = W("Error")
      BY DEF ErrorSteps
    <3> QED
      BY <2>1, <3>1 DEF W, Writes
  <2>3. Tail(J) \in Resting
    BY <2>2 DEF Resting
  <2>4. j + 1 \in 1 .. Len(Handler(c)) /\ Handler(c)[j + 1].do \notin {"read", "write"}
    BY <1>1, <2>1, ScriptTypes DEF Commands
  <2>5. Got(c, j + 1) = Got(c, j) /\ Put(c, j + 1) = Put(c, j)
    BY <1>1, <2>4, ServerCounts
  <2>6. ErrorAt(c, i, Got(c, j), x, Len(V) + 1, t)
    <3>1. Put(c, j + 1) = In(c, i) + (Len(V) + 1) - 1 /\ Got(c, j + 1) <= Got(c, j)
      BY <1>1, <2>1, <2>5
    <3> QED
      BY <2>1, <2>2, <2>4, <3>1 DEF ErrorAt
  <2>7. RepliedOrFailed(c, i, Got(c, j), A, t)
    <3> SUFFICES ASSUME NEW k \in 1 .. Len(V) + 1
                 PROVE  \/ ReplyAt(c, i, Got(c, j), A[k], k, t)
                        \/ k = Len(A) /\ ErrorAt(c, i, Got(c, j), A[k], k, t)
      BY <1>2 DEF RepliedOrFailed
    <3>1. CASE k = Len(V) + 1
      BY <1>2, <2>6, <3>1
    <3>2. CASE k \in 1 .. Len(V)
      BY <1>2, <2>1, <3>2 DEF Replied
    <3> QED
      BY <1>1, <3>1, <3>2
  <2>8. ErrorAt(c, i, Got(c, j), A[Len(A)], Len(A), t)
    BY <1>2, <2>6
  <2>9. Len(A) = Put(c, j) - In(c, i) + 1 /\ Len(A) > 0
    BY <1>1, <1>2, <2>1
  <2>10. A # << >>
    BY <1>2, <2>9, NoElements
  <2>11. Failed(c, i, j, t, U, A, Tail(J), r)
    BY <2>1, <2>3, <2>7, <2>8, <2>9, <2>10 DEF Failed
  <2> QED
    BY <2>11 DEF Talk
<1>5. During(c, i, j, t, V, J, by, r) \/ Failing(c, i, j, t, U, V, J, by, r)
  BY TalkJob DEF Talk, Writes
<1>6. \E jj \in 0 .. Len(Handler(c)) : Talk(c, i, jj, t, U, A, Tail(J), by, r)
  BY <1>3, <1>4, <1>5
<1> QED
  BY <1>6 DEF A

\* A handler goes on without using the streams.
LEMMA TalkGoesOn ==
  ASSUME NEW r, NEW c \in Calls, Conversation(c),
         NEW i \in 0 .. Len(c.steps), NEW j \in 0 .. Len(Handler(c)), NEW t, NEW by,
         NEW U \in Seq(PacketsA), NEW V \in Seq(PacketsA), NEW J,
         Talk(c, i, j, t, U, V, J, by, r), J # << >>, Head(J).do \notin {"read", "write"},
         During(c, i, j, t, V, J, by, r)
  PROVE  j + 1 \in 0 .. Len(Handler(c)) /\ Talk(c, i, j + 1, t, U, V, Tail(J), by, Carried(Tail(J)))
<1>1. J = SubSeq(Handler(c), j + 1, Len(Handler(c)))
  BY DEF During
<1>2. /\ j < Len(Handler(c)) /\ j + 1 \in 0 .. Len(Handler(c)) /\ j \in Nat
      /\ Head(J) = Handler(c)[j + 1]
      /\ Tail(J) = SubSeq(Handler(c), (j + 1) + 1, Len(Handler(c)))
  BY <1>1, HandlerStep
<1>3. Handler(c)[j + 1].do \notin {"read", "write"}
  BY <1>2
<1>4. Got(c, j + 1) = Got(c, j) /\ Put(c, j + 1) = Put(c, j)
  BY <1>2, <1>3, ServerCounts
<1>5. Sent(c, j, U, t)
  BY DEF Talk
<1>6. Handler(c)[j + 1].do # "read"
  BY <1>3
<1>7. Sent(c, j + 1, U, t)
  BY <1>2, <1>5, <1>6, SentStep
<1>8. During(c, i, j + 1, t, V, Tail(J), by, Carried(Tail(J)))
  BY <1>2, <1>4 DEF During
<1> QED
  BY <1>2, <1>4, <1>7, <1>8 DEF Talk

\* The server flushes.
LEMMA TalkServerFlush ==
  ASSUME NEW r, NEW c \in Calls, Conversation(c),
         NEW i \in 0 .. Len(c.steps), NEW j \in 0 .. Len(Handler(c)), NEW t, NEW by,
         NEW U \in Seq(PacketsA), NEW V \in Seq(PacketsA), NEW J,
         Talk(c, i, j, t, U, V, J, by, r), J # << >>, Head(J).do = "flush"
  PROVE  \E jj \in 0 .. Len(Handler(c)) : Talk(c, i, jj, t, U, V, Tail(J), by, r)
<1>1. CASE During(c, i, j, t, V, J, by, r)
  <2>1. j + 1 \in 0 .. Len(Handler(c)) /\ Talk(c, i, j + 1, t, U, V, Tail(J), by, Carried(Tail(J)))
    BY <1>1, TalkGoesOn
  <2>2. J = SubSeq(Handler(c), j + 1, Len(Handler(c))) /\ r = Carried(J)
    BY <1>1 DEF During
  <2>3. Head(J).do \notin Commands
    BY DEF Commands
  <2>4. r = Carried(Tail(J))
    BY <2>2, <2>3, TailCarried
  <2> QED
    BY <2>1, <2>4
<1>2. CASE J \in Resting
  <2>1. J = <<F>> /\ << >> \in Resting
    BY <1>2 DEF Resting
  <2>5. Tail(J) = << >>
    BY <2>1, ShortSeqs
  <2>2. Before(c, i, j, V, J, r) => Before(c, i, j, V, Tail(J), r)
    BY <2>1, <2>5 DEF Before
  <2>3. Failed(c, i, j, t, U, V, J, r) => Failed(c, i, j, t, U, V, Tail(J), r)
    BY <2>1, <2>5 DEF Failed
  <2>4. CASE Before(c, i, j, V, J, r) \/ Failed(c, i, j, t, U, V, J, r)
    BY <2>2, <2>3, <2>4 DEF Talk
  <2> QED
    BY <1>1, <2>4, TalkJob DEF Talk
<1>3. Before(c, i, j, V, J, r) \/ Failed(c, i, j, t, U, V, J, r) => J \in Resting
  BY DEF Before, Failed
<1> QED
  BY <1>1, <1>2, <1>3, TalkJob DEF Talk

\* A driver call succeeds.
LEMMA TalkCommand ==
  ASSUME NEW r, NEW c \in Calls, Conversation(c),
         NEW i \in 0 .. Len(c.steps), NEW j \in 0 .. Len(Handler(c)), NEW t, NEW by,
         NEW U \in Seq(PacketsA), NEW V \in Seq(PacketsA), NEW J,
         Talk(c, i, j, t, U, V, J, by, r), J # << >>, Head(J).do \in Commands
  PROVE  /\ r = "no" /\ by = t /\ j + 1 \in 0 .. Len(Handler(c))
         /\ Talk(c, i, j + 1, t, U, V, Tail(J), by, Carried(Tail(J)))
<1>1. Head(J).do \notin {"read", "write", "flush"}
  BY DEF Commands
<1>2. During(c, i, j, t, V, J, by, r)
  BY <1>1, TalkJob
<1>3. J = SubSeq(Handler(c), j + 1, Len(Handler(c))) /\ r = Carried(J)
  BY <1>2 DEF During
<1>4. j < Len(Handler(c))
  BY <1>3, HandlerStep
<1>5. r = "no" /\ by = t
  BY <1>2, <1>3, <1>4, TailCarried DEF During
<1> QED
  BY <1>1, <1>2, <1>5, TalkGoesOn

\* What a handler does when a command fails.
LEMMA FailureSteps ==
  ASSUME NEW c \in Calls, Conversation(c), NEW j \in 0 .. Len(Handler(c)),
         NEW J, J = SubSeq(Handler(c), j + 1, Len(Handler(c))), J # << >>, Head(J).do \in Commands
  PROVE  Failure(Head(J), Tail(J)) = ErrorSteps
<1> DEFINE m == Len(Handler(c))
<1>0. /\ j < m /\ j \in Nat /\ Head(J) = Handler(c)[j + 1]
      /\ Tail(J) = SubSeq(Handler(c), (j + 1) + 1, m)
  BY HandlerStep
<1>7. m \in Nat /\ m > 0 /\ Handler(c)[m] = F /\ Handler(c) \in Seq(StepsA)
  BY ScriptTypes
<1>1. /\ j < m /\ j \in Nat /\ m \in Nat /\ m > 0 /\ Head(J) = Handler(c)[j + 1]
      /\ Tail(J) = SubSeq(Handler(c), (j + 1) + 1, m)
      /\ Handler(c)[m] = F /\ Handler(c) \in Seq(StepsA)
  BY <1>0, <1>7
<1>2. j + 1 \in 1 .. m
  BY <1>1
<1>3. Head(J).do # "report" /\ (Head(J).do = "refuse" => j + 1 = m - 1)
  BY <1>1, <1>2 DEF Conversation, WellFormed
<1>4. Head(J).do = "refuse" => Tail(J) = <<F>>
  <2> SUFFICES ASSUME j + 1 = m - 1 PROVE Tail(J) = <<F>>
    BY <1>3
  <2>1. SubSeq(Handler(c), (m - 1) + 1, m) = <<F>>
    BY <1>1, LastStep
  <2> QED
    BY <1>1, <2>1
<1>5. <<W("Error")>> \o <<F>> = ErrorSteps
  BY ShortSeqs DEF ErrorSteps
<1>6. Failure(Head(J), Tail(J)) = <<W("Error")>> \o <<F>>
  BY <1>3, <1>4 DEF Failure
<1> QED
  BY <1>5, <1>6

\* A command fails.
LEMMA TalkCommandFails ==
  ASSUME NEW r, NEW c \in Calls, Conversation(c),
         NEW i \in 0 .. Len(c.steps), NEW j \in 0 .. Len(Handler(c)), NEW t, NEW by,
         NEW U \in Seq(PacketsA), NEW V \in Seq(PacketsA), NEW J,
         Talk(c, i, j, t, U, V, J, by, r), J # << >>, Head(J).do \in Commands
  PROVE  Talk(c, i, j, t, U, V, Failure(Head(J), Tail(J)), by, "failed")
<1>1. Head(J).do \notin {"read", "write", "flush"}
  BY DEF Commands
<1>2. During(c, i, j, t, V, J, by, r)
  BY <1>1, TalkJob
<1>3. J = SubSeq(Handler(c), j + 1, Len(Handler(c)))
  BY <1>2 DEF During
<1>4. j < Len(Handler(c)) /\ Head(J) = Handler(c)[j + 1]
  BY <1>3, HandlerStep
<1>5. Handler(c)[j + 1].do \in Commands /\ Sent(c, j, U, t)
  BY <1>4 DEF Talk
<1>6. U = << >>
  BY <1>4, <1>5, SentCommand
<1>7. Failure(Head(J), Tail(J)) = ErrorSteps
  BY <1>3, FailureSteps
<1>8. Failing(c, i, j, t, U, V, ErrorSteps, by, "failed")
  BY <1>2, <1>4, <1>5, <1>6 DEF During, Failing
<1> QED
  BY <1>7, <1>8 DEF Talk

\* While a conversation goes on, everything belongs to its thread.
LEMMA TalkOwn ==
  ASSUME NEW r, NEW c \in Calls, Conversation(c),
         NEW i \in 0 .. Len(c.steps), NEW j \in 0 .. Len(Handler(c)), NEW t, NEW by,
         NEW U \in Seq(PacketsA), NEW V \in Seq(PacketsA), NEW J \in Seq(StepsA),
         Talk(c, i, j, t, U, V, J, by, r)
  PROVE  /\ \A k \in 1 .. Len(U) : U[k].by = t
         /\ \A k \in 1 .. Len(V) : V[k].by = t
         /\ ~NoCommand(J) => by = t
<1>1. \A k \in 1 .. Len(U) : U[k].by = t
  BY DEF Talk, Sent, OutAt
<1>2. \A k \in 1 .. Len(V) : V[k].by = t
  <2>1. Before(c, i, j, V, J, r) => \A k \in 1 .. Len(V) : V[k].by = t
    <3>1. V = << >> => Len(V) = 0
      BY NoElements
    <3> QED
      BY <3>1 DEF Before
  <2>2. Replied(c, i, Got(c, j), V, t) => \A k \in 1 .. Len(V) : V[k].by = t
    BY DEF Replied, ReplyAt
  <2>3. RepliedOrFailed(c, i, Got(c, j), V, t) => \A k \in 1 .. Len(V) : V[k].by = t
    BY DEF RepliedOrFailed, ReplyAt, ErrorAt
  <2> QED
    BY <2>1, <2>2, <2>3 DEF Talk, During, Failing, Failed
<1>3. J \in Resting => NoCommand(J)
  BY RestingCarried
<1>4. During(c, i, j, t, V, J, by, r) /\ ~NoCommand(J) => by = t
  <2> SUFFICES ASSUME During(c, i, j, t, V, J, by, r), ~NoCommand(J)
               PROVE  by = t
    OBVIOUS
  <2>1. J # << >>
    BY <1>3 DEF Resting
  <2>2. j < Len(Handler(c))
    BY <2>1, DuringStep
  <2> QED
    BY <2>2 DEF During
<1> QED
  BY <1>1, <1>2, <1>3, <1>4 DEF Talk, Before, Failing, Failed

\* While the server has still to carry out the command of the call, it has not ended.
LEMMA TalkAwaited ==
  ASSUME NEW r, NEW c \in Calls, Conversation(c),
         NEW i \in 0 .. Len(c.steps), NEW j \in 0 .. Len(Handler(c)), NEW t, NEW by,
         NEW U \in Seq(PacketsA), NEW V \in Seq(PacketsA), NEW J,
         Talk(c, i, j, t, U, V, J, by, r), ~NoCommand(J) \/ (J \in Resting /\ U # << >>)
  PROVE  r = "no"
<1>1. CASE Before(c, i, j, V, J, r)
  BY <1>1 DEF Before
<1>2. CASE During(c, i, j, t, V, J, by, r)
  <2>1. J \in Resting => U = << >>
    BY <1>2, SentRests DEF Talk, During
  <2> QED
    BY <1>2, <2>1 DEF During, Carried
<1>3. NoCommand(ErrorSteps) /\ ErrorSteps \notin Resting
  BY ErrorCarried
<1>4. CASE Failing(c, i, j, t, U, V, J, by, r)
  BY <1>3, <1>4 DEF Failing
<1>5. CASE Failed(c, i, j, t, U, V, J, r)
  BY <1>5, RestingCarried DEF Failed
<1> QED
  BY <1>1, <1>2, <1>4, <1>5 DEF Talk

-----------------------------------------------------------------------------
(* After the connection was lost. *)

\* Something that was sent is sent when only the first packets arrive.
LEMMA SentPrefix ==
  ASSUME NEW c, NEW j, NEW by, NEW U \in Seq(PacketsA), NEW S \in Seq(PacketsA),
         Len(S) <= Len(U), \A k \in 1 .. Len(S) : S[k] = U[k], Sent(c, j, U, by)
  PROVE  Sent(c, j, S, by)
<1>1. \A k \in 1 .. Len(S) : k \in 1 .. Len(U)
  OBVIOUS
<1> QED
  BY <1>1 DEF Sent

\* The same for the replies.
LEMMA ReplyPrefix ==
  ASSUME NEW c, NEW i, NEW r, NEW by, NEW V \in Seq(PacketsA), NEW S \in Seq(PacketsA),
         Len(S) <= Len(V), \A k \in 1 .. Len(S) : S[k] = V[k], RepliedOrFailed(c, i, r, V, by)
  PROVE  RepliedOrFailed(c, i, r, S, by)
<1>1. \A k \in 1 .. Len(S) : k \in 1 .. Len(V) /\ (k = Len(V) => k = Len(S))
  OBVIOUS
<1> QED
  BY <1>1 DEF RepliedOrFailed

\* The server, when the connection is lost in a conversation.
LEMMA TalkCutServer ==
  ASSUME NEW r, NEW c \in Calls, Conversation(c),
         NEW i \in 0 .. Len(c.steps), NEW j \in 0 .. Len(Handler(c)), NEW t \in Threads, NEW by,
         NEW U \in Seq(PacketsA), NEW V \in Seq(PacketsA), NEW J,
         Talk(c, i, j, t, U, V, J, by, r),
         NEW S \in Seq(PacketsA), Len(S) <= Len(U), \A k \in 1 .. Len(S) : S[k] = U[k]
  PROVE  CutServer(S, J)
<1>1. Sent(c, j, S, t)
  BY SentPrefix DEF Talk
<1>2. Before(c, i, j, V, J, r) => CutServer(S, J)
  BY <1>1 DEF Before, CutServer, AtRest
<1>3. During(c, i, j, t, V, J, by, r) => CutServer(S, J)
  BY <1>1 DEF During, CutServer, InHandler
<1>4. U = << >> => S = << >>
  BY NoElements
<1>5. Failing(c, i, j, t, U, V, J, by, r) \/ Failed(c, i, j, t, U, V, J, r) => CutServer(S, J)
  BY <1>4 DEF Failing, Failed, CutServer, AtRest
<1> QED
  BY <1>2, <1>3, <1>5 DEF Talk

\* The client, when the connection is lost in a conversation.
LEMMA TalkCutClient ==
  ASSUME NEW r, NEW c \in Calls, Conversation(c),
         NEW i \in 0 .. Len(c.steps), NEW j \in 0 .. Len(Handler(c)), NEW t, NEW by,
         NEW U \in Seq(PacketsA), NEW V \in Seq(PacketsA), NEW J,
         Talk(c, i, j, t, U, V, J, by, r),
         NEW S \in Seq(PacketsA), Len(S) <= Len(V), \A k \in 1 .. Len(S) : S[k] = V[k]
  PROVE  RepliedOrFailed(c, i, Out(c, i), S, t)
<1>1. Got(c, j) \in Nat /\ Out(c, i) \in Nat /\ Got(c, j) <= Out(c, i)
  BY TalkBounds
<1>2. Replied(c, i, Got(c, j), V, t) => RepliedOrFailed(c, i, Got(c, j), V, t)
  BY DEF Replied, RepliedOrFailed
<1>3. V = << >> => RepliedOrFailed(c, i, Got(c, j), V, t)
  <2>1. V = << >> => Len(V) = 0
    BY NoElements
  <2> QED
    BY <2>1 DEF RepliedOrFailed
<1>4. RepliedOrFailed(c, i, Got(c, j), V, t)
  BY <1>2, <1>3 DEF Talk, Before, During, Failing, Failed
<1>5. RepliedOrFailed(c, i, Out(c, i), V, t)
  BY <1>1, <1>4, ReplyLater
<1> QED
  BY <1>5, ReplyPrefix

\* What the next reply is, if there is one.
LEMMA NextReply ==
  ASSUME NEW c, NEW i, NEW r, NEW by, NEW S \in Seq(PacketsA), S # << >>,
         RepliedOrFailed(c, i, r, S, by)
  PROVE  \/ ReplyAt(c, i, r, S[1], 1, by)
         \/ Len(S) = 1 /\ ErrorAt(c, i, r, S[1], 1, by)
<1>1. Len(S) \in Nat /\ Len(S) > 0
  BY NoElements
<1>2. 1 \in 1 .. Len(S)
  BY <1>1, Shorter
<1> QED
  BY <1>2 DEF RepliedOrFailed

\* Before it writes, the client has read all that it can get.
LEMMA CutWrite ==
  ASSUME NEW c \in Calls, Conversation(c), NEW i \in 0 .. Len(c.steps), NEW by,
         NEW S \in Seq(PacketsA), RepliedOrFailed(c, i, Out(c, i), S, by),
         i < Len(c.steps), c.steps[i + 1].do = "write"
  PROVE  S = << >>
<1> SUFFICES ASSUME S # << >> PROVE FALSE
  OBVIOUS
<1>1. i \in Nat /\ i + 1 \in 1 .. Len(c.steps)
  BY ScriptTypes
<1>2. Out(c, i + 1) = Out(c, i) + 1 /\ In(c, i + 1) = In(c, i) /\ Out(c, i) \in Nat /\ In(c, i) \in Nat
  BY <1>1, ClientCounts
<1>3. CASE ReplyAt(c, i, Out(c, i), S[1], 1, by)
  <2>1. PICK q \in 1 .. Len(Handler(c)) :
          Handler(c)[q].do = "write" /\ Put(c, q) = In(c, i) + 1 /\ Got(c, q) <= Out(c, i)
    BY <1>3 DEF ReplyAt
  <2>2. q \in Nat
    BY ScriptTypes
  <2>3. Got(c, q) \in Nat /\ Put(c, q) > In(c, i + 1)
    BY <1>2, <2>1, <2>2, ServerCounts
  <2>4. Got(c, q) >= Out(c, i + 1)
    BY <1>1, <2>1, <2>3 DEF Conversation, TakeTurns
  <2> QED
    BY <1>2, <2>1, <2>3, <2>4
<1>4. CASE ErrorAt(c, i, Out(c, i), S[1], 1, by)
  <2>1. PICK q \in 1 .. Len(Handler(c)) :
          Handler(c)[q].do \in Commands /\ Put(c, q) = In(c, i) + 1 - 1 /\ Got(c, q) <= Out(c, i)
    BY <1>4 DEF ErrorAt
  <2>2. q \in Nat
    BY ScriptTypes
  <2>3. Got(c, q) \in Nat
    BY <2>2, ServerCounts
  <2>5. Out(c, i + 1) > Got(c, q) /\ Put(c, q) = In(c, i + 1)
    BY <1>2, <2>1, <2>3
  <2>4. In(c, i + 1) > Put(c, q)
    BY <1>1, <2>1, <2>5 DEF Conversation, TakeTurns
  <2> QED
    BY <1>2, <2>4, <2>5
<1> QED
  BY <1>3, <1>4, NextReply

\* Nothing is left when the call returns.
LEMMA CutEnd ==
  ASSUME NEW c \in Calls, Conversation(c), NEW by, NEW r,
         NEW S \in Seq(PacketsA), RepliedOrFailed(c, Len(c.steps), r, S, by)
  PROVE  S = << >>
<1> SUFFICES ASSUME S # << >> PROVE FALSE
  OBVIOUS
<1> DEFINE n == Len(c.steps)
           m == Len(Handler(c))
<1>1. n \in Nat /\ m \in Nat /\ m > 0 /\ Handler(c)[m] = F
  BY ScriptTypes
<1>2. In(c, n) \in Nat /\ Put(c, m) \in Nat /\ Put(c, m) <= In(c, n)
  BY <1>1, ClientCounts, ServerCounts DEF Conversation, SameTypes
<1>3. CASE ReplyAt(c, n, r, S[1], 1, by)
  <2>1. PICK q \in 1 .. m : Put(c, q) = In(c, n) + 1
    BY <1>3 DEF ReplyAt
  <2>2. q \in Nat /\ q <= m
    BY <1>1
  <2>3. Put(c, q) <= Put(c, m)
    BY <1>1, <2>2, ServerCounts
  <2> QED
    BY <1>2, <2>1, <2>3
<1>4. CASE ErrorAt(c, n, r, S[1], 1, by)
  <2>1. PICK q \in 1 .. m : Handler(c)[q].do \in Commands /\ Put(c, q) = In(c, n) + 1 - 1
    BY <1>4 DEF ErrorAt
  <2>2. q < m /\ Handler(c)[q].do # "write"
    BY <1>1, <2>1 DEF Commands, F
  <2>3. Put(c, q) < In(c, n)
    BY <2>2 DEF Conversation, TakeTurns
  <2> QED
    BY <1>2, <2>1, <2>3
<1> QED
  BY <1>3, <1>4, NextReply

\* The client reads what has still arrived.
LEMMA CutRead ==
  ASSUME NEW c \in Calls, Conversation(c), NEW i \in 0 .. Len(c.steps), NEW by,
         NEW S \in Seq(PacketsA), RepliedOrFailed(c, i, Out(c, i), S, by), S # << >>,
         i < Len(c.steps), c.steps[i + 1].do = "read"
  PROVE  /\ Head(S).ty \in {c.steps[i + 1].ty, "Error"}
         /\ Head(S).ty = "Error" => Tail(S) = << >>
         /\ Head(S).ty = c.steps[i + 1].ty =>
              RepliedOrFailed(c, i + 1, Out(c, i + 1), Tail(S), by)
<1>1. i \in Nat /\ i + 1 \in 1 .. Len(c.steps)
  BY ScriptTypes
<1>2. Out(c, i + 1) = Out(c, i)
  BY <1>1, ClientCounts
<1> DEFINE T == Tail(S)
<1>3. /\ T \in Seq(PacketsA) /\ Len(T) = Len(S) - 1 /\ Len(S) \in Nat
      /\ (\A k \in 1 .. Len(S) - 1 : T[k] = S[k + 1]) /\ Head(S) = S[1]
  BY TailTaken
<1>4. Len(T) \in Nat
  BY <1>3
<1> HIDE DEF T
<1>5. ReplyAt(c, i, Out(c, i), S[1], 1, by) => S[1].ty = c.steps[i + 1].ty /\ S[1].ty # "Error"
  BY ReplyMatches
<1>6. Len(S) = 1 => T = << >>
  BY <1>3, NoElements
<1>7. /\ S[1].ty \in {c.steps[i + 1].ty, "Error"}
      /\ S[1].ty = "Error" => T = << >>
  BY <1>5, <1>6, NextReply DEF ErrorAt
<1>8. ASSUME NEW k \in 1 .. Len(T)
      PROVE  \/ ReplyAt(c, i + 1, Out(c, i), T[k], k, by)
             \/ k = Len(T) /\ ErrorAt(c, i + 1, Out(c, i), T[k], k, by)
  <2>0. k \in Nat /\ k + 1 \in 1 .. Len(S) /\ k \in 1 .. Len(S) - 1 /\ (k + 1 = Len(S) => k = Len(T))
    BY <1>3, <1>4, Shorter
  <2>1. T[k] = S[k + 1]
    BY <1>3, <2>0
  <2>2. \/ ReplyAt(c, i, Out(c, i), S[k + 1], k + 1, by)
        \/ k + 1 = Len(S) /\ ErrorAt(c, i, Out(c, i), S[k + 1], k + 1, by)
    BY <2>0 DEF RepliedOrFailed
  <2> QED
    BY <1>1, <2>0, <2>1, <2>2, ReplyShift
<1>9. RepliedOrFailed(c, i + 1, Out(c, i + 1), T, by)
  BY <1>2, <1>8 DEF RepliedOrFailed
<1> QED
  BY <1>3, <1>7, <1>9 DEF T

\* Flushing changes nothing.
LEMMA CutFlush ==
  ASSUME NEW c \in Calls, Conversation(c), NEW i \in 0 .. Len(c.steps), NEW by,
         NEW S, RepliedOrFailed(c, i, Out(c, i), S, by),
         i < Len(c.steps), c.steps[i + 1].do = "flush"
  PROVE  RepliedOrFailed(c, i + 1, Out(c, i + 1), S, by) /\ In(c, i + 1) = In(c, i)
<1>1. i \in Nat
  BY ScriptTypes
<1>2. Out(c, i + 1) = Out(c, i) /\ In(c, i + 1) = In(c, i)
  BY <1>1, ClientCounts
<1> QED
  BY <1>2 DEF RepliedOrFailed, ReplyAt, ErrorAt

\* A command is followed by a reply.
LEMMA CommandFirst ==
  ASSUME NEW c \in Calls, Conversation(c)
  PROVE  /\ Len(c.steps) \in Nat /\ In(c, Len(c.steps)) \in Nat /\ In(c, Len(c.steps)) > 0
         /\ \A q \in 1 .. Len(Handler(c)) :
              q \in Nat /\ Put(c, q) \in Nat /\ Put(c, q) <= In(c, Len(c.steps))
         /\ \A q \in 1 .. Len(Handler(c)) :
              Handler(c)[q].do \in Commands => Put(c, q) < In(c, Len(c.steps))
<1> DEFINE n == Len(c.steps)
           m == Len(Handler(c))
<1>1. n \in Nat /\ n > 0 /\ n - 1 \in Nat /\ (n - 1) + 1 = n /\ m \in Nat /\ m > 0 /\ Handler(c)[m] = F
  BY ScriptTypes
<1>2. c.steps[n].do = "read"
  BY DEF Conversation, WellFormed
<1>3. In(c, n) = In(c, n - 1) + 1 /\ In(c, n - 1) \in Nat
  BY <1>1, <1>2, ClientCounts
<1>4. Put(c, m) \in Nat /\ Put(c, m) <= In(c, n) /\ In(c, n) \in Nat /\ In(c, n) > 0
  BY <1>1, <1>3, ServerCounts DEF Conversation, SameTypes
<1>5. ASSUME NEW q \in 1 .. m
      PROVE  q \in Nat /\ Put(c, q) \in Nat /\ Put(c, q) <= In(c, n)
  <2>1. q \in Nat /\ q <= m
    BY <1>1
  <2>2. Put(c, q) \in Nat /\ Put(c, q) <= Put(c, m)
    BY <1>1, <2>1, ServerCounts
  <2> QED
    BY <1>4, <2>1, <2>2
<1>6. ASSUME NEW q \in 1 .. m, Handler(c)[q].do \in Commands
      PROVE  Put(c, q) < In(c, n)
  <2>1. q < m /\ Handler(c)[q].do # "write"
    BY <1>1, <1>6 DEF Commands, F
  <2> QED
    BY <2>1 DEF Conversation, TakeTurns
<1> QED
  BY <1>1, <1>4, <1>5, <1>6

\* When all replies were written the command was carried out.
LEMMA CarriedOut ==
  ASSUME NEW c \in Calls, Conversation(c), NEW j \in 0 .. Len(Handler(c)),
         Put(c, j) >= In(c, Len(c.steps)),
         NEW J, J = SubSeq(Handler(c), j + 1, Len(Handler(c)))
  PROVE  Carried(J) = "ok"
<1> DEFINE n == Len(c.steps)
           m == Len(Handler(c))
<1>1. m \in Nat /\ j \in Nat /\ j <= m /\ Handler(c) \in Seq(StepsA)
  BY ScriptTypes
<1>2. J \in Seq(StepsA) /\ Len(J) = m - j /\ \A k \in 1 .. m - j : J[k] = Handler(c)[j + k]
  BY <1>1, SuffixTaken
<1>3. ASSUME NEW k \in 1 .. Len(J), J[k].do \in Commands
      PROVE  FALSE
  <2>1. k \in 1 .. m - j /\ j + k \in 1 .. m /\ j <= j + k /\ j + k \in Nat
    BY <1>1, <1>2
  <2>2. Handler(c)[j + k].do \in Commands
    BY <1>2, <1>3, <2>1
  <2>3. Put(c, j + k) < In(c, n) /\ In(c, n) \in Nat /\ Put(c, j + k) \in Nat
    BY <2>1, <2>2, CommandFirst
  <2>4. Put(c, j) <= Put(c, j + k) /\ Put(c, j) \in Nat
    BY <1>1, <2>1, ServerCounts
  <2> QED
    BY <2>3, <2>4
<1>4. NoCommand(J)
  BY <1>3 DEF NoCommand
<1> QED
  BY <1>4 DEF Carried

\* No more replies are on their way than the client waits for.
LEMMA ReplyBound ==
  ASSUME NEW c \in Calls, Conversation(c), NEW i \in 0 .. Len(c.steps), NEW r, NEW by,
         NEW S \in Seq(PacketsA), RepliedOrFailed(c, i, r, S, by)
  PROVE  /\ In(c, i) \in Nat /\ In(c, Len(c.steps)) \in Nat /\ Len(S) \in Nat
         /\ S # << >> => In(c, i) + Len(S) <= In(c, Len(c.steps))
<1> DEFINE n == Len(c.steps)
<1>1. n \in Nat /\ i \in Nat /\ In(c, n) \in Nat /\ Len(S) \in Nat
  BY CommandFirst
<1>2. In(c, i) \in Nat
  BY <1>1, ClientCounts
<1>3. ASSUME S # << >>
      PROVE  In(c, i) + Len(S) <= In(c, n)
  <2>1. Len(S) \in 1 .. Len(S)
    BY <1>1, <1>3, NoElements, Shorter
  <2>2. \/ ReplyAt(c, i, r, S[Len(S)], Len(S), by)
        \/ ErrorAt(c, i, r, S[Len(S)], Len(S), by)
    BY <2>1 DEF RepliedOrFailed
  <2>3. CASE ReplyAt(c, i, r, S[Len(S)], Len(S), by)
    <3>1. PICK q \in 1 .. Len(Handler(c)) : Put(c, q) = In(c, i) + Len(S)
      BY <2>3 DEF ReplyAt
    <3> QED
      BY <3>1, CommandFirst
  <2>4. CASE ErrorAt(c, i, r, S[Len(S)], Len(S), by)
    <3>1. PICK q \in 1 .. Len(Handler(c)) :
            Handler(c)[q].do \in Commands /\ Put(c, q) = In(c, i) + Len(S) - 1
      BY <2>4 DEF ErrorAt
    <3>2. Put(c, q) < In(c, n)
      BY <3>1, CommandFirst
    <3> QED
      BY <1>1, <1>2, <3>1, <3>2
  <2> QED
    BY <2>2, <2>3, <2>4
<1> QED
  BY <1>1, <1>2, <1>3

\* A reply is no ErrorPacket.
LEMMA ReplyIsNoError ==
  ASSUME NEW c, Conversation(c), NEW i, NEW r, NEW x, NEW k, NEW by, ReplyAt(c, i, r, x, k, by)
  PROVE  x.ty # "Error"
  BY DEF ReplyAt, Conversation, WellFormed

\* What the replies tell when the connection is lost in a conversation.
LEMMA TalkTold ==
  ASSUME NEW r, NEW c \in Calls, Conversation(c),
         NEW i \in 0 .. Len(c.steps), NEW j \in 0 .. Len(Handler(c)), NEW t, NEW by,
         NEW U \in Seq(PacketsA), NEW V \in Seq(PacketsA), NEW J,
         Talk(c, i, j, t, U, V, J, by, r),
         NEW S \in Seq(PacketsA), Len(S) <= Len(V), \A k \in 1 .. Len(S) : S[k] = V[k]
  PROVE  Told(c, i, S, r)
<1> DEFINE n == Len(c.steps)
<1>1. /\ i \in Nat /\ j \in Nat /\ Len(V) \in Nat /\ Len(S) \in Nat
      /\ In(c, i) \in Nat /\ Put(c, j) \in Nat /\ In(c, n) \in Nat /\ In(c, n) > 0
  BY TalkBounds, CommandFirst
<1>2. ASSUME Replied(c, i, Got(c, j), V, t)
      PROVE  ~HasError(S)
  <2> SUFFICES ASSUME NEW k \in 1 .. Len(S), S[k].ty = "Error"
               PROVE  FALSE
    BY DEF HasError
  <2>1. k \in 1 .. Len(V)
    BY <1>1
  <2>2. ReplyAt(c, i, Got(c, j), S[k], k, t)
    BY <1>2, <2>1 DEF Replied
  <2> QED
    BY <2>2, ReplyIsNoError
<1>3. CASE Before(c, i, j, V, J, r)
  <2>1. Len(V) = 0 /\ In(c, i) = 0
    BY <1>3, NoElements DEF Before
  <2>2. Len(S) = 0
    BY <1>1, <2>1
  <2>3. ~HasError(S) /\ In(c, i) + Len(S) # In(c, n)
    BY <1>1, <2>1, <2>2 DEF HasError
  <2> QED
    BY <2>3 DEF Told
<1>4. CASE During(c, i, j, t, V, J, by, r)
  <2>1. ~HasError(S) /\ Len(V) = Put(c, j) - In(c, i) /\ r = Carried(J)
        /\ J = SubSeq(Handler(c), j + 1, Len(Handler(c)))
    BY <1>2, <1>4 DEF During
  <2>2. In(c, i) + Len(S) = In(c, n) => Put(c, j) >= In(c, n)
    BY <1>1, <2>1
  <2> QED
    BY <2>1, <2>2, CarriedOut DEF Told
<1>5. ASSUME j < Len(Handler(c)), Handler(c)[j + 1].do \in Commands
      PROVE  Put(c, j) < In(c, n)
  <2>1. j + 1 \in 1 .. Len(Handler(c)) /\ j <= j + 1 /\ j + 1 \in Nat
    BY <1>1, <1>5, ScriptTypes
  <2>2. Put(c, j + 1) < In(c, n) /\ Put(c, j + 1) \in Nat
    BY <1>5, <2>1, CommandFirst
  <2>3. Put(c, j) <= Put(c, j + 1)
    BY <1>1, <2>1, ServerCounts
  <2> QED
    BY <1>1, <2>2, <2>3
<1>6. CASE Failing(c, i, j, t, U, V, J, by, r)
  <2>1. ~HasError(S) /\ Len(V) = Put(c, j) - In(c, i) /\ Put(c, j) < In(c, n)
    BY <1>2, <1>5, <1>6 DEF Failing
  <2>2. In(c, i) + Len(S) # In(c, n)
    BY <1>1, <2>1
  <2> QED
    BY <2>1, <2>2 DEF Told
<1>7. CASE Failed(c, i, j, t, U, V, J, r)
  <2>1. /\ r = "failed" /\ V # << >> /\ Len(V) = Put(c, j) - In(c, i) + 1
        /\ V[Len(V)].ty = "Error" /\ Put(c, j) < In(c, n)
    BY <1>5, <1>7 DEF Failed, ErrorAt
  <2>2. ASSUME In(c, i) + Len(S) = In(c, n)
        PROVE  HasError(S)
    <3>1. Len(S) = Len(V)
      BY <1>1, <2>1, <2>2
    <3>2. Len(V) \in 1 .. Len(V)
      BY <1>1, <2>1, NoElements, Shorter
    <3> QED
      BY <2>1, <3>1, <3>2 DEF HasError
  <2> QED
    BY <2>1, <2>2 DEF Told
<1> QED
  BY <1>3, <1>4, <1>6, <1>7 DEF Talk

\* No replies tell nothing before the last was read.
LEMMA ToldNothing ==
  ASSUME NEW c, NEW i, NEW r, In(c, i) \in Nat
  PROVE  /\ ~HasError(<< >>)
         /\ Told(c, i, << >>, r) <=> (In(c, i) = In(c, Len(c.steps)) => r = "ok")
<1>1. Len(<< >>) = 0
  OBVIOUS
<1>2. ~HasError(<< >>)
  BY <1>1 DEF HasError
<1>3. In(c, i) + Len(<< >>) = In(c, i)
  BY <1>1
<1> QED
  BY <1>2, <1>3 DEF Told

\* What the first replies tell, when fewer arrive.
LEMMA ToldShorter ==
  ASSUME NEW c \in Calls, Conversation(c), NEW i \in 0 .. Len(c.steps), NEW r, NEW z, NEW by,
         NEW S \in Seq(PacketsA), RepliedOrFailed(c, i, z, S, by), Told(c, i, S, r),
         NEW Z \in Seq(PacketsA), Len(Z) <= Len(S), \A k \in 1 .. Len(Z) : Z[k] = S[k]
  PROVE  Told(c, i, Z, r)
<1> DEFINE n == Len(c.steps)
<1>1. /\ In(c, i) \in Nat /\ In(c, n) \in Nat /\ Len(S) \in Nat /\ Len(Z) \in Nat
      /\ S # << >> => In(c, i) + Len(S) <= In(c, n)
  BY ReplyBound
<1>2. HasError(Z) => HasError(S)
  <2>1. \A k \in 1 .. Len(Z) : k \in 1 .. Len(S)
    BY <1>1
  <2> QED
    BY <2>1 DEF HasError
<1>3. ASSUME In(c, i) + Len(Z) = In(c, n)
      PROVE  In(c, i) + Len(S) = In(c, n) /\ (HasError(S) => HasError(Z))
  <2>1. S = << >> => Len(S) = 0
    BY NoElements
  <2>2. Len(S) = Len(Z)
    BY <1>1, <1>3, <2>1
  <2> QED
    BY <1>3, <2>2 DEF HasError
<1> QED
  BY <1>2, <1>3 DEF Told

\* What the replies tell after the first was read.
LEMMA ToldRead ==
  ASSUME NEW c, NEW i \in Nat, c.steps[i + 1].do = "read", NEW r,
         NEW S \in Seq(PacketsA), S # << >>, Told(c, i, S, r)
  PROVE  /\ Head(S).ty = "Error" => r = "failed"
         /\ Head(S).ty # "Error" => Told(c, i + 1, Tail(S), r)
<1> DEFINE T == Tail(S)
<1>1. /\ T \in Seq(PacketsA) /\ Len(T) = Len(S) - 1 /\ Len(S) \in Nat /\ Len(S) > 0
      /\ (\A k \in 1 .. Len(S) - 1 : T[k] = S[k + 1]) /\ Head(S) = S[1]
  BY TailTaken
<1>2. Len(T) \in Nat /\ 1 \in 1 .. Len(S)
  BY <1>1
<1> HIDE DEF T
<1>3. Head(S).ty = "Error" => HasError(S)
  BY <1>1, <1>2 DEF HasError
<1>4. HasError(T) => HasError(S)
  <2>1. \A k \in 1 .. Len(T) : k + 1 \in 1 .. Len(S) /\ T[k] = S[k + 1]
    BY <1>1, <1>2
  <2> QED
    BY <2>1 DEF HasError
<1>5. HasError(S) /\ Head(S).ty # "Error" => HasError(T)
  <2> SUFFICES ASSUME NEW k \in 1 .. Len(S), S[k].ty = "Error", S[1].ty # "Error"
               PROVE  HasError(T)
    BY <1>1 DEF HasError
  <2>0. k # 1
    OBVIOUS
  <2>1. k - 1 \in 1 .. Len(S) - 1 /\ k - 1 \in 1 .. Len(T) /\ (k - 1) + 1 = k
    BY <1>1, <1>2, <2>0
  <2>2. T[k - 1] = S[k]
    BY <1>1, <2>1
  <2> QED
    BY <2>1, <2>2 DEF HasError
<1>6. In(c, i + 1) = In(c, i) + 1 /\ In(c, i) \in Nat
  BY ClientCounts
<1>7. In(c, i + 1) + Len(T) = In(c, i) + Len(S)
  BY <1>1, <1>2, <1>6
<1>8. Head(S).ty # "Error" => Told(c, i + 1, T, r)
  BY <1>4, <1>5, <1>7 DEF Told
<1> QED
  BY <1>3, <1>8 DEF Told, T

\* Terminate opens no request.
LEMMA TerminateIsNoRequest ==
  "Terminate" \notin Requests
  BY DEF Requests, Handlers

\* What was left when no reply arrives.
LEMMA NoReply ==
  ASSUME NEW c, NEW i, NEW r, NEW by
  PROVE  RepliedOrFailed(c, i, r, << >>, by)
<1>1. Len(<< >>) = 0
  OBVIOUS
<1> QED
  BY <1>1 DEF RepliedOrFailed

\* A server without a client takes what it finds for a request.
LEMMA CutPeek ==
  ASSUME CallsAreConversations, NEW S \in Seq(PacketsA), S # << >>, CutServer(S, << >>)
  PROVE  /\ Head(S).ty \in Requests \cup {"Terminate"}
         /\ Head(S).ty \in Requests =>
              /\ CutServer(S, Append(Handlers(Head(S).opts)[Head(S).ty], F))
              /\ \E d \in Calls : Append(Handlers(Head(S).opts)[Head(S).ty], F) = Handler(d)
<1>1. << >> # ErrorSteps
  BY DEF ErrorSteps
<1>2. Head(S) = S[1]
  BY TailTaken
<1>3. CASE S[1].ty = "Terminate"
  BY <1>2, <1>3, TerminateIsNoRequest
<1>4. ASSUME NEW c \in Calls, NEW by \in Threads, NEW j \in 0 .. Len(Handler(c)),
             << >> = SubSeq(Handler(c), j + 1, Len(Handler(c))), Sent(c, j, S, by)
      PROVE  FALSE
  <2>1. Conversation(c)
    BY DEF CallsAreConversations
  <2>2. Handler(c) \in Seq(StepsA)
    BY <2>1, ScriptTypes
  <2>3. j = Len(Handler(c))
    BY <1>4, <2>2, StepsLeft
  <2> QED
    BY <1>4, <2>1, <2>3, SentAll
<1>5. ASSUME NEW c \in Calls, NEW by \in Threads, Sent(c, 0, S, by)
      PROVE  /\ Head(S).ty \in Requests
             /\ CutServer(S, Append(Handlers(Head(S).opts)[Head(S).ty], F))
             /\ \E d \in Calls : Append(Handlers(Head(S).opts)[Head(S).ty], F) = Handler(d)
  <2>1. Conversation(c)
    BY DEF CallsAreConversations
  <2>2. Handler(c) \in Seq(StepsA) /\ Len(Handler(c)) \in Nat
    BY <2>1, ScriptTypes
  <2>3. /\ Head(S).ty \in Requests
        /\ Append(Handlers(Head(S).opts)[Head(S).ty], F) = Handler(c)
    BY <1>5, <2>1, SentPeek
  <2>4. Handler(c) = SubSeq(Handler(c), 0 + 1, Len(Handler(c)))
    BY <2>2, AllSteps
  <2>5. 0 \in 0 .. Len(Handler(c))
    BY <2>2
  <2>6. CutServer(S, Handler(c))
    BY <1>5, <2>4, <2>5 DEF CutServer, InHandler
  <2> QED
    BY <2>3, <2>6
<1>6. \/ S[1].ty = "Terminate"
      \/ \E c \in Calls, by \in Threads :
           \/ Sent(c, 0, S, by)
           \/ \E j \in 0 .. Len(Handler(c)) :
                << >> = SubSeq(Handler(c), j + 1, Len(Handler(c))) /\ Sent(c, j, S, by)
  BY <1>1 DEF CutServer, InHandler, AtRest
<1> QED
  BY <1>3, <1>4, <1>5, <1>6

\* The first of these steps.
LEMMA FirstSteps ==
  /\ Head(<<F>>).do = "flush" /\ Head(ErrorSteps).do = "write"
  /\ Tail(<<F>>) = << >> /\ Tail(ErrorSteps) = <<F>>
  /\ Head(ErrorSteps).ty = "Error"
<1>1. Head(<<F>>) = F /\ Head(ErrorSteps) = W("Error")
  BY DEF ErrorSteps
<1>2. Tail(<<F>>) = << >> /\ Tail(ErrorSteps) = <<F>>
  BY ShortSeqs DEF ErrorSteps
<1> QED
  BY <1>1, <1>2 DEF F, W

\* The rest of a handler that is not over.
LEMMA InHandlerStep ==
  ASSUME CallsAreConversations, NEW S, NEW J, InHandler(S, J), J # << >>
  PROVE  \E c \in Calls, by \in Threads : \E j \in 0 .. Len(Handler(c)) :
           /\ Conversation(c) /\ Sent(c, j, S, by) /\ j < Len(Handler(c))
           /\ j + 1 \in 0 .. Len(Handler(c))
           /\ J = SubSeq(Handler(c), j + 1, Len(Handler(c)))
           /\ Head(J) = Handler(c)[j + 1]
           /\ Tail(J) = SubSeq(Handler(c), (j + 1) + 1, Len(Handler(c)))
<1>1. PICK c \in Calls, by \in Threads : \E j \in 0 .. Len(Handler(c)) :
        J = SubSeq(Handler(c), j + 1, Len(Handler(c))) /\ Sent(c, j, S, by)
  BY DEF InHandler
<1>2. PICK j \in 0 .. Len(Handler(c)) :
        J = SubSeq(Handler(c), j + 1, Len(Handler(c))) /\ Sent(c, j, S, by)
  BY <1>1
<1>3. Conversation(c)
  BY DEF CallsAreConversations
<1>4. /\ j < Len(Handler(c)) /\ j + 1 \in 0 .. Len(Handler(c))
      /\ Head(J) = Handler(c)[j + 1]
      /\ Tail(J) = SubSeq(Handler(c), (j + 1) + 1, Len(Handler(c)))
  BY <1>2, <1>3, HandlerStep
<1> QED
  BY <1>2, <1>3, <1>4

\* When the handler is at its end, everything of the call was read.
LEMMA InHandlerRests ==
  ASSUME CallsAreConversations, NEW S \in Seq(PacketsA), NEW J \in Resting, InHandler(S, J)
  PROVE  S = << >>
  BY SentRests DEF InHandler, CallsAreConversations

\* It reads.
LEMMA CutServerRead ==
  ASSUME CallsAreConversations, NEW S \in Seq(PacketsA), S # << >>,
         NEW J, CutServer(S, J), J # << >>, Head(J).do = "read"
  PROVE  /\ Head(S).ty = Head(J).ty /\ CutServer(Tail(S), Tail(J))
         /\ Tail(J) \in Resting => Tail(S) = << >>
<1>1. InHandler(S, J)
  BY FirstSteps DEF CutServer, Resting
<1>2. PICK c \in Calls, by \in Threads : \E j \in 0 .. Len(Handler(c)) :
        /\ Conversation(c) /\ Sent(c, j, S, by) /\ j < Len(Handler(c))
        /\ j + 1 \in 0 .. Len(Handler(c))
        /\ Head(J) = Handler(c)[j + 1]
        /\ Tail(J) = SubSeq(Handler(c), (j + 1) + 1, Len(Handler(c)))
  BY <1>1, InHandlerStep
<1>3. PICK j \in 0 .. Len(Handler(c)) :
        /\ Conversation(c) /\ Sent(c, j, S, by) /\ j < Len(Handler(c))
        /\ j + 1 \in 0 .. Len(Handler(c))
        /\ Head(J) = Handler(c)[j + 1]
        /\ Tail(J) = SubSeq(Handler(c), (j + 1) + 1, Len(Handler(c)))
  BY <1>2
<1>4. Handler(c)[j + 1].do = "read"
  BY <1>3
<1>5. Head(S).ty = Handler(c)[j + 1].ty /\ Sent(c, j + 1, Tail(S), by)
  BY <1>3, <1>4, SentRead
<1>6. InHandler(Tail(S), Tail(J))
  BY <1>3, <1>5 DEF InHandler
<1>7. Tail(S) \in Seq(PacketsA)
  BY TailTaken
<1> QED
  BY <1>3, <1>5, <1>6, <1>7, InHandlerRests DEF CutServer

\* It takes any other step.
LEMMA CutServerStep ==
  ASSUME CallsAreConversations, NEW S \in Seq(PacketsA),
         NEW J, CutServer(S, J), J # << >>, Head(J).do # "read"
  PROVE  /\ CutServer(S, Tail(J))
         /\ Tail(J) \in Resting => S = << >> \/ J \in Resting
<1>1. ASSUME InHandler(S, J)
      PROVE  InHandler(S, Tail(J))
  <2>1. PICK c \in Calls, by \in Threads : \E j \in 0 .. Len(Handler(c)) :
          /\ Conversation(c) /\ Sent(c, j, S, by) /\ j < Len(Handler(c))
          /\ j + 1 \in 0 .. Len(Handler(c))
          /\ Head(J) = Handler(c)[j + 1]
          /\ Tail(J) = SubSeq(Handler(c), (j + 1) + 1, Len(Handler(c)))
    BY <1>1, InHandlerStep
  <2>2. PICK j \in 0 .. Len(Handler(c)) :
          /\ Conversation(c) /\ Sent(c, j, S, by) /\ j < Len(Handler(c))
          /\ j + 1 \in 0 .. Len(Handler(c))
          /\ Head(J) = Handler(c)[j + 1]
          /\ Tail(J) = SubSeq(Handler(c), (j + 1) + 1, Len(Handler(c)))
    BY <2>1
  <2>3. Handler(c)[j + 1].do # "read"
    BY <2>2
  <2>4. Sent(c, j + 1, S, by)
    BY <2>2, <2>3, SentStep
  <2> QED
    BY <2>2, <2>4 DEF InHandler
<1>2. J \in Resting \cup {ErrorSteps} => Tail(J) \in Resting
  BY FirstSteps DEF Resting
<1>3. CutServer(S, Tail(J))
  BY <1>1, <1>2 DEF CutServer, AtRest
<1>4. Tail(J) \in Resting => S = << >> \/ J \in Resting
  BY <1>1, InHandlerRests DEF CutServer
<1> QED
  BY <1>3, <1>4

\* A command fails.
LEMMA CutServerFails ==
  ASSUME CallsAreConversations, NEW S \in Seq(PacketsA),
         NEW J, CutServer(S, J), J # << >>, Head(J).do \in Commands
  PROVE  CutServer(S, Failure(Head(J), Tail(J))) /\ Failure(Head(J), Tail(J)) = ErrorSteps
<1>1. InHandler(S, J)
  BY FirstSteps DEF CutServer, Resting, Commands
<1>2. PICK c \in Calls, by \in Threads : \E j \in 0 .. Len(Handler(c)) :
        /\ Conversation(c) /\ Sent(c, j, S, by) /\ j < Len(Handler(c))
        /\ J = SubSeq(Handler(c), j + 1, Len(Handler(c)))
        /\ Head(J) = Handler(c)[j + 1]
  BY <1>1, InHandlerStep
<1>3. PICK j \in 0 .. Len(Handler(c)) :
        /\ Conversation(c) /\ Sent(c, j, S, by) /\ j < Len(Handler(c))
        /\ J = SubSeq(Handler(c), j + 1, Len(Handler(c)))
        /\ Head(J) = Handler(c)[j + 1]
  BY <1>2
<1>4. Handler(c)[j + 1].do \in Commands
  BY <1>3
<1>5. S = << >>
  BY <1>3, <1>4, SentCommand
<1>6. Failure(Head(J), Tail(J)) = ErrorSteps
  BY <1>3, FailureSteps
<1> QED
  BY <1>5, <1>6 DEF CutServer

-----------------------------------------------------------------------------
(* The same, in terms of the steps that are left to the client. *)

\* The first of the steps T.
NextIs(T, do) == T # << >> /\ Head(T).do = do

\* What is left after a step of the client.
LEMMA LeftStep ==
  ASSUME NEW c \in Calls, Conversation(c), NEW i \in 0 .. Len(c.steps), NEW T, LeftAfter(c, i, T)
  PROVE  /\ T = << >> => i = Len(c.steps)
         /\ T # << >> => /\ i < Len(c.steps) /\ i + 1 \in 0 .. Len(c.steps) /\ i \in Nat
                         /\ Head(T) = c.steps[i + 1] /\ LeftAfter(c, i + 1, Tail(T))
<1>1. c.steps \in Seq(StepsA) /\ Len(c.steps) \in Nat
  BY ScriptTypes
<1>2. i = Len(c.steps) <=> T = << >>
  BY <1>1, StepsLeft DEF LeftAfter
<1>3. i < Len(c.steps) => /\ Head(T) = c.steps[i + 1]
                          /\ Tail(T) = SubSeq(c.steps, (i + 1) + 1, Len(c.steps))
  BY <1>1, StepsLeft DEF LeftAfter
<1>4. i # Len(c.steps) => i < Len(c.steps) /\ i + 1 \in 0 .. Len(c.steps) /\ i \in Nat
  BY <1>1
<1> QED
  BY <1>2, <1>3, <1>4 DEF LeftAfter

\* A call has the connection.
LEMMA UpStart ==
  ASSUME NEW c \in Calls, Conversation(c), NEW t, NEW J \in Resting, NEW by
  PROVE  UpTalk(c, c.steps, t, << >>, << >>, J, by, "no")
<1>1. c.steps \in Seq(StepsA) /\ Len(c.steps) \in Nat /\ Len(Handler(c)) \in Nat
  BY ScriptTypes
<1>2. 0 \in 0 .. Len(c.steps) /\ 0 \in 0 .. Len(Handler(c))
  BY <1>1
<1>3. LeftAfter(c, 0, c.steps)
  BY <1>1, AllSteps DEF LeftAfter
<1>4. Talk(c, 0, 0, t, << >>, << >>, J, by, "no")
  BY TalkStart
<1> QED
  BY <1>2, <1>3, <1>4 DEF UpTalk

\* It writes.
LEMMA UpWrite ==
  ASSUME NEW r, NEW c \in Calls, Conversation(c), NEW T, NEW t, NEW by,
         NEW U \in Seq(PacketsA), NEW V \in Seq(PacketsA), NEW J,
         UpTalk(c, T, t, U, V, J, by, r), NextIs(T, "write"),
         NEW x \in PacketsA, x = Packet(Head(T).ty, c.opts, t)
  PROVE  UpTalk(c, Tail(T), t, Append(U, x), V, J, by, r)
<1>1. PICK i \in 0 .. Len(c.steps), j \in 0 .. Len(Handler(c)) :
        LeftAfter(c, i, T) /\ Talk(c, i, j, t, U, V, J, by, r)
  BY DEF UpTalk
<1>2. /\ i < Len(c.steps) /\ i + 1 \in 0 .. Len(c.steps)
      /\ Head(T) = c.steps[i + 1] /\ LeftAfter(c, i + 1, Tail(T))
  BY <1>1, LeftStep DEF NextIs
<1>3. c.steps[i + 1].do = "write"
  BY <1>2 DEF NextIs
<1>4. x.ty = c.steps[i + 1].ty /\ x.opts = c.opts /\ x.by = t
  BY <1>2 DEF Packet
<1>5. Talk(c, i + 1, j, t, Append(U, x), V, J, by, r)
  BY <1>1, <1>2, <1>3, <1>4, TalkWrite
<1> QED
  BY <1>2, <1>5 DEF UpTalk

\* It flushes.
LEMMA UpFlush ==
  ASSUME NEW r, NEW c \in Calls, Conversation(c), NEW T, NEW t, NEW by,
         NEW U \in Seq(PacketsA), NEW V \in Seq(PacketsA), NEW J,
         UpTalk(c, T, t, U, V, J, by, r), NextIs(T, "flush")
  PROVE  UpTalk(c, Tail(T), t, U, V, J, by, r)
<1>1. PICK i \in 0 .. Len(c.steps), j \in 0 .. Len(Handler(c)) :
        LeftAfter(c, i, T) /\ Talk(c, i, j, t, U, V, J, by, r)
  BY DEF UpTalk
<1>2. /\ i < Len(c.steps) /\ i + 1 \in 0 .. Len(c.steps)
      /\ Head(T) = c.steps[i + 1] /\ LeftAfter(c, i + 1, Tail(T))
  BY <1>1, LeftStep DEF NextIs
<1>3. c.steps[i + 1].do = "flush"
  BY <1>2 DEF NextIs
<1>4. Talk(c, i + 1, j, t, U, V, J, by, r)
  BY <1>1, <1>2, <1>3, TalkFlush
<1> QED
  BY <1>2, <1>4 DEF UpTalk

\* It reads.
LEMMA UpRead ==
  ASSUME NEW r, NEW c \in Calls, Conversation(c), NEW T, NEW t, NEW by,
         NEW U \in Seq(PacketsA), NEW V \in Seq(PacketsA), NEW J,
         UpTalk(c, T, t, U, V, J, by, r), NextIs(T, "read"), V # << >>
  PROVE  /\ Head(V).ty \in {Head(T).ty, "Error"}
         /\ Head(V).ty = Head(T).ty => UpTalk(c, Tail(T), t, U, Tail(V), J, by, r)
         /\ Head(V).ty = "Error" => Reported(U, Tail(V), J, r)
<1>1. PICK i \in 0 .. Len(c.steps), j \in 0 .. Len(Handler(c)) :
        LeftAfter(c, i, T) /\ Talk(c, i, j, t, U, V, J, by, r)
  BY DEF UpTalk
<1>2. /\ i < Len(c.steps) /\ i + 1 \in 0 .. Len(c.steps)
      /\ Head(T) = c.steps[i + 1] /\ LeftAfter(c, i + 1, Tail(T))
  BY <1>1, LeftStep DEF NextIs
<1>3. c.steps[i + 1].do = "read"
  BY <1>2 DEF NextIs
<1>4. /\ Head(V).ty \in {c.steps[i + 1].ty, "Error"}
      /\ Head(V).ty = c.steps[i + 1].ty => Talk(c, i + 1, j, t, U, Tail(V), J, by, r)
      /\ Head(V).ty = "Error" => Reported(U, Tail(V), J, r)
  BY <1>1, <1>2, <1>3, TalkRead
<1> QED
  BY <1>2, <1>4 DEF UpTalk

\* It returns.
LEMMA UpReturn ==
  ASSUME NEW r, NEW c \in Calls, Conversation(c), NEW t, NEW by,
         NEW U \in Seq(PacketsA), NEW V \in Seq(PacketsA), NEW J,
         UpTalk(c, << >>, t, U, V, J, by, r)
  PROVE  U = << >> /\ V = << >> /\ J \in Resting /\ r = "ok"
<1>1. PICK i \in 0 .. Len(c.steps), j \in 0 .. Len(Handler(c)) :
        LeftAfter(c, i, << >>) /\ Talk(c, i, j, t, U, V, J, by, r)
  BY DEF UpTalk
<1>2. i = Len(c.steps)
  BY <1>1, LeftStep
<1> QED
  BY <1>1, <1>2, TalkEnd

\* The server takes the request.
LEMMA UpPeek ==
  ASSUME NEW r, NEW c \in Calls, Conversation(c), NEW T, NEW t, NEW by,
         NEW U \in Seq(PacketsA), NEW V \in Seq(PacketsA),
         UpTalk(c, T, t, U, V, << >>, by, r), U # << >>
  PROVE  /\ Head(U).ty \in Requests
         /\ Append(Handlers(Head(U).opts)[Head(U).ty], F) = Handler(c)
         /\ UpTalk(c, T, t, U, V, Append(Handlers(Head(U).opts)[Head(U).ty], F), Head(U).by, r)
<1>1. PICK i \in 0 .. Len(c.steps), j \in 0 .. Len(Handler(c)) :
        LeftAfter(c, i, T) /\ Talk(c, i, j, t, U, V, << >>, by, r)
  BY DEF UpTalk
<1>2. /\ Head(U).ty \in Requests /\ 0 \in 0 .. Len(Handler(c))
      /\ Append(Handlers(Head(U).opts)[Head(U).ty], F) = Handler(c)
      /\ Talk(c, i, 0, t, U, V, Append(Handlers(Head(U).opts)[Head(U).ty], F), Head(U).by, r)
  BY <1>1, TalkPeek
<1> QED
  BY <1>1, <1>2 DEF UpTalk

\* It waits for the next one.
LEMMA UpAnyBy ==
  ASSUME NEW r, NEW c \in Calls, Conversation(c), NEW T, NEW t, NEW by, NEW U, NEW V,
         UpTalk(c, T, t, U, V, << >>, by, r), NEW other
  PROVE  UpTalk(c, T, t, U, V, << >>, other, r)
<1>1. PICK i \in 0 .. Len(c.steps), j \in 0 .. Len(Handler(c)) :
        LeftAfter(c, i, T) /\ Talk(c, i, j, t, U, V, << >>, by, r)
  BY DEF UpTalk
<1>2. Talk(c, i, j, t, U, V, << >>, other, r)
  BY <1>1, TalkAnyBy
<1> QED
  BY <1>1, <1>2 DEF UpTalk

\* It reads.
LEMMA UpServerRead ==
  ASSUME NEW r, NEW c \in Calls, Conversation(c), NEW T, NEW t, NEW by,
         NEW U \in Seq(PacketsA), NEW V \in Seq(PacketsA), NEW J,
         UpTalk(c, T, t, U, V, J, by, r), NextIs(J, "read"), U # << >>
  PROVE  Head(U).ty = Head(J).ty /\ UpTalk(c, T, t, Tail(U), V, Tail(J), by, r)
<1>1. PICK i \in 0 .. Len(c.steps), j \in 0 .. Len(Handler(c)) :
        LeftAfter(c, i, T) /\ Talk(c, i, j, t, U, V, J, by, r)
  BY DEF UpTalk
<1>2. /\ Head(U).ty = Head(J).ty /\ j + 1 \in 0 .. Len(Handler(c))
      /\ Talk(c, i, j + 1, t, Tail(U), V, Tail(J), by, r)
  BY <1>1, TalkServerRead DEF NextIs
<1> QED
  BY <1>1, <1>2 DEF UpTalk

\* It writes.
LEMMA UpServerWrite ==
  ASSUME NEW r, NEW c \in Calls, Conversation(c), NEW T, NEW t, NEW by,
         NEW U \in Seq(PacketsA), NEW V \in Seq(PacketsA), NEW J,
         UpTalk(c, T, t, U, V, J, by, r), NextIs(J, "write"),
         NEW x \in PacketsA, x = Packet(Head(J).ty, {}, by)
  PROVE  UpTalk(c, T, t, U, Append(V, x), Tail(J), by, r)
<1>1. PICK i \in 0 .. Len(c.steps), j \in 0 .. Len(Handler(c)) :
        LeftAfter(c, i, T) /\ Talk(c, i, j, t, U, V, J, by, r)
  BY DEF UpTalk
<1>2. Writes(J, x, by) /\ J # << >>
  BY DEF NextIs, Writes, Packet
<1>3. PICK jj \in 0 .. Len(Handler(c)) : Talk(c, i, jj, t, U, Append(V, x), Tail(J), by, r)
  BY <1>1, <1>2, TalkServerWrite
<1> QED
  BY <1>1, <1>3 DEF UpTalk

\* It flushes.
LEMMA UpServerFlush ==
  ASSUME NEW r, NEW c \in Calls, Conversation(c), NEW T, NEW t, NEW by,
         NEW U \in Seq(PacketsA), NEW V \in Seq(PacketsA), NEW J,
         UpTalk(c, T, t, U, V, J, by, r), NextIs(J, "flush")
  PROVE  UpTalk(c, T, t, U, V, Tail(J), by, r)
<1>1. PICK i \in 0 .. Len(c.steps), j \in 0 .. Len(Handler(c)) :
        LeftAfter(c, i, T) /\ Talk(c, i, j, t, U, V, J, by, r)
  BY DEF UpTalk
<1>2. PICK jj \in 0 .. Len(Handler(c)) : Talk(c, i, jj, t, U, V, Tail(J), by, r)
  BY <1>1, TalkServerFlush DEF NextIs
<1> QED
  BY <1>1, <1>2 DEF UpTalk

\* It calls the driver.
LEMMA UpCommand ==
  ASSUME NEW r, NEW c \in Calls, Conversation(c), NEW T, NEW t, NEW by,
         NEW U \in Seq(PacketsA), NEW V \in Seq(PacketsA), NEW J,
         UpTalk(c, T, t, U, V, J, by, r), NEW do \in Commands, NextIs(J, do)
  PROVE  /\ r = "no" /\ by = t
         /\ UpTalk(c, T, t, U, V, Tail(J), by, Carried(Tail(J)))
         /\ UpTalk(c, T, t, U, V, Failure(Head(J), Tail(J)), by, "failed")
<1>1. PICK i \in 0 .. Len(c.steps), j \in 0 .. Len(Handler(c)) :
        LeftAfter(c, i, T) /\ Talk(c, i, j, t, U, V, J, by, r)
  BY DEF UpTalk
<1>2. /\ r = "no" /\ by = t /\ j + 1 \in 0 .. Len(Handler(c))
      /\ Talk(c, i, j + 1, t, U, V, Tail(J), by, Carried(Tail(J)))
  BY <1>1, TalkCommand DEF NextIs
<1>3. Talk(c, i, j, t, U, V, Failure(Head(J), Tail(J)), by, "failed")
  BY <1>1, TalkCommandFails DEF NextIs
<1> QED
  BY <1>1, <1>2, <1>3 DEF UpTalk

\* All packets, and the request that is served, are of thread t.
Owned(U, V, J, by, t) ==
  /\ \A k \in 1 .. Len(U) : U[k].by = t
  /\ \A k \in 1 .. Len(V) : V[k].by = t
  /\ ~NoCommand(J) => by = t

\* What is on its way belongs to the thread.
LEMMA UpOwn ==
  ASSUME NEW r, NEW c \in Calls, Conversation(c), NEW T, NEW t, NEW by,
         NEW U \in Seq(PacketsA), NEW V \in Seq(PacketsA), NEW J \in Seq(StepsA),
         UpTalk(c, T, t, U, V, J, by, r)
  PROVE  Owned(U, V, J, by, t)
<1>1. PICK i \in 0 .. Len(c.steps), j \in 0 .. Len(Handler(c)) : Talk(c, i, j, t, U, V, J, by, r)
  BY DEF UpTalk
<1> QED
  BY <1>1, TalkOwn DEF Owned

\* The command of a call that the server has still to carry out has not ended.
LEMMA UpAwaited ==
  ASSUME NEW r, NEW c \in Calls, Conversation(c), NEW T, NEW t, NEW by,
         NEW U \in Seq(PacketsA), NEW V \in Seq(PacketsA), NEW J,
         UpTalk(c, T, t, U, V, J, by, r), ~NoCommand(J) \/ (J \in Resting /\ U # << >>)
  PROVE  r = "no"
<1>1. PICK i \in 0 .. Len(c.steps), j \in 0 .. Len(Handler(c)) : Talk(c, i, j, t, U, V, J, by, r)
  BY DEF UpTalk
<1> QED
  BY <1>1, TalkAwaited

\* S is the beginning of Z.
IsStart(S, Z) == Len(S) <= Len(Z) /\ \A k \in 1 .. Len(S) : S[k] = Z[k]

\* Where the first packets on the wire come from.
LEMMA FrontStarts ==
  ASSUME NEW P, NEW a \in Seq(P), NEW b \in Seq(P), NEW n \in 0 .. Len(a)
  PROVE  /\ Front(a, n) \in Seq(P) /\ IsStart(Front(a, n), a \o b) /\ IsStart(Front(a, n), a)
         /\ a = << >> => Front(a, n) = << >>
<1> DEFINE f == Front(a, n)
           z == a \o b
<1>1. f \in Seq(P) /\ Len(f) = n /\ \A k \in 1 .. n : f[k] = a[k]
  BY PrefixTaken DEF Front
<1>2. z \in Seq(P) /\ Len(z) = Len(a) + Len(b) /\ \A k \in 1 .. Len(a) : z[k] = a[k]
  BY Joined
<1>3. Len(a) \in Nat /\ Len(b) \in Nat /\ n \in Nat /\ n <= Len(a)
  OBVIOUS
<1> HIDE DEF f, z
<1>4. \A k \in 1 .. n : k \in 1 .. Len(a)
  BY <1>3
<1>5. IsStart(f, z)
  BY <1>1, <1>2, <1>3, <1>4 DEF IsStart
<1>6. IsStart(f, a)
  BY <1>1, <1>3 DEF IsStart
<1>7. a = << >> => f = << >>
  <2>1. a = << >> => Len(a) = 0
    BY NoElements
  <2>2. a = << >> => Len(f) = 0
    BY <1>1, <1>3, <2>1
  <2> QED
    BY <1>1, <2>2, NoElements
<1> QED
  BY <1>1, <1>5, <1>6, <1>7 DEF f, z

\* The connection is lost: the server.
LEMMA UpCutServer ==
  ASSUME NEW r, NEW c \in Calls, Conversation(c), NEW T, NEW t \in Threads, NEW by,
         NEW U \in Seq(PacketsA), NEW V \in Seq(PacketsA), NEW J,
         UpTalk(c, T, t, U, V, J, by, r), NEW S \in Seq(PacketsA), IsStart(S, U)
  PROVE  CutServer(S, J)
<1>1. PICK i \in 0 .. Len(c.steps), j \in 0 .. Len(Handler(c)) : Talk(c, i, j, t, U, V, J, by, r)
  BY DEF UpTalk
<1>2. Len(S) <= Len(U) /\ \A k \in 1 .. Len(S) : S[k] = U[k]
  BY DEF IsStart
<1> QED
  BY <1>1, <1>2, TalkCutServer

\* The connection is lost: the client.
LEMMA UpCutClient ==
  ASSUME NEW r, NEW c \in Calls, Conversation(c), NEW T, NEW t, NEW by,
         NEW U \in Seq(PacketsA), NEW V \in Seq(PacketsA), NEW J,
         UpTalk(c, T, t, U, V, J, by, r), NEW S \in Seq(PacketsA), IsStart(S, V),
         NEW B, B # << >> => U # << >>
  PROVE  CutTalk(c, T, t, B, S, FALSE, r)
<1>1. PICK i \in 0 .. Len(c.steps), j \in 0 .. Len(Handler(c)) :
        LeftAfter(c, i, T) /\ Talk(c, i, j, t, U, V, J, by, r)
  BY DEF UpTalk
<1>2. Len(S) <= Len(V) /\ \A k \in 1 .. Len(S) : S[k] = V[k]
  BY DEF IsStart
<1>3. RepliedOrFailed(c, i, Out(c, i), S, t)
  BY <1>1, <1>2, TalkCutClient
<1>4. B # << >> => S = << >>
  <2>1. U = << >> \/ V = << >>
    BY <1>1, TalkTurns
  <2>2. V = << >> => S = << >>
    BY <1>2, NoElements
  <2> QED
    BY <2>1, <2>2
<1>5. Told(c, i, S, r)
  BY <1>1, <1>2, TalkTold
<1> QED
  BY <1>1, <1>3, <1>4, <1>5 DEF CutTalk

\* A call begins without a connection.
LEMMA CutTalkStart ==
  ASSUME NEW r, NEW c \in Calls, Conversation(c), NEW t, NEW B, NEW l
  PROVE  CutTalk(c, c.steps, t, B, << >>, l, r)
<1>1. c.steps \in Seq(StepsA) /\ Len(c.steps) \in Nat
  BY ScriptTypes
<1>2. 0 \in 0 .. Len(c.steps) /\ In(c, 0) = 0
  BY <1>1, ClientCounts
<1>3. LeftAfter(c, 0, c.steps)
  BY <1>1, AllSteps DEF LeftAfter
<1>4. In(c, Len(c.steps)) > 0
  BY CommandFirst
<1>5. Told(c, 0, << >>, r)
  BY <1>2, <1>4, ToldNothing
<1> QED
  BY <1>2, <1>3, <1>5, NoReply DEF CutTalk

\* It writes, or has written and flushes.
LEMMA CutTalkWrite ==
  ASSUME NEW r, NEW c \in Calls, Conversation(c), NEW T, NEW t, NEW B, NEW S \in Seq(PacketsA), NEW l,
         CutTalk(c, T, t, B, S, l, r), NextIs(T, "write"), NEW B2
  PROVE  S = << >> /\ CutTalk(c, Tail(T), t, B2, S, l, r)
<1>1. PICK i \in 0 .. Len(c.steps) :
        /\ LeftAfter(c, i, T) /\ RepliedOrFailed(c, i, Out(c, i), S, t)
        /\ (l => In(c, i) = 0) /\ Told(c, i, S, r)
  BY DEF CutTalk
<1>2. /\ i < Len(c.steps) /\ i + 1 \in 0 .. Len(c.steps) /\ i \in Nat
      /\ Head(T) = c.steps[i + 1] /\ LeftAfter(c, i + 1, Tail(T))
  BY <1>1, LeftStep DEF NextIs
<1>3. c.steps[i + 1].do = "write"
  BY <1>2 DEF NextIs
<1>4. S = << >>
  BY <1>1, <1>2, <1>3, CutWrite
<1>5. In(c, i + 1) = In(c, i)
  BY <1>2, <1>3, ClientCounts
<1>6. RepliedOrFailed(c, i + 1, Out(c, i + 1), S, t)
  BY <1>4, NoReply
<1>7. Told(c, i + 1, S, r)
  BY <1>1, <1>5 DEF Told
<1> QED
  BY <1>1, <1>2, <1>4, <1>5, <1>6, <1>7 DEF CutTalk

\* It flushes.
LEMMA CutTalkFlush ==
  ASSUME NEW r, NEW c \in Calls, Conversation(c), NEW T, NEW t, NEW B, NEW S \in Seq(PacketsA), NEW l,
         CutTalk(c, T, t, B, S, l, r), NextIs(T, "flush")
  PROVE  (B # << >> => S = << >>) /\ CutTalk(c, Tail(T), t, << >>, S, l, r)
<1>1. PICK i \in 0 .. Len(c.steps) :
        /\ LeftAfter(c, i, T) /\ RepliedOrFailed(c, i, Out(c, i), S, t)
        /\ B # << >> => S = << >>
        /\ (l => S = << >> /\ In(c, i) = 0) /\ Told(c, i, S, r)
  BY DEF CutTalk
<1>2. /\ i < Len(c.steps) /\ i + 1 \in 0 .. Len(c.steps)
      /\ Head(T) = c.steps[i + 1] /\ LeftAfter(c, i + 1, Tail(T))
  BY <1>1, LeftStep DEF NextIs
<1>3. c.steps[i + 1].do = "flush"
  BY <1>2 DEF NextIs
<1>4. RepliedOrFailed(c, i + 1, Out(c, i + 1), S, t) /\ In(c, i + 1) = In(c, i)
  BY <1>1, <1>2, <1>3, CutFlush
<1>5. Told(c, i + 1, S, r)
  BY <1>1, <1>4 DEF Told
<1> QED
  BY <1>1, <1>2, <1>4, <1>5 DEF CutTalk

\* It reads.
LEMMA CutTalkRead ==
  ASSUME NEW r, NEW c \in Calls, Conversation(c), NEW T, NEW t, NEW B, NEW S \in Seq(PacketsA), NEW l,
         CutTalk(c, T, t, B, S, l, r), NextIs(T, "read"), S # << >>
  PROVE  /\ Head(S).ty \in {Head(T).ty, "Error"} /\ ~l
         /\ Head(S).ty = "Error" => Tail(S) = << >> /\ r = "failed"
         /\ Head(S).ty = Head(T).ty => CutTalk(c, Tail(T), t, B, Tail(S), l, r)
<1>1. PICK i \in 0 .. Len(c.steps) :
        /\ LeftAfter(c, i, T) /\ RepliedOrFailed(c, i, Out(c, i), S, t)
        /\ B = << >> /\ ~l /\ Told(c, i, S, r)
  BY DEF CutTalk
<1>2. /\ i < Len(c.steps) /\ i + 1 \in 0 .. Len(c.steps) /\ i \in Nat
      /\ Head(T) = c.steps[i + 1] /\ LeftAfter(c, i + 1, Tail(T))
  BY <1>1, LeftStep DEF NextIs
<1>3. c.steps[i + 1].do = "read"
  BY <1>2 DEF NextIs
<1>4. /\ Head(S).ty \in {c.steps[i + 1].ty, "Error"}
      /\ Head(S).ty = "Error" => Tail(S) = << >>
      /\ Head(S).ty = c.steps[i + 1].ty =>
           RepliedOrFailed(c, i + 1, Out(c, i + 1), Tail(S), t)
  BY <1>1, <1>2, <1>3, CutRead
<1>5. c.steps[i + 1].ty # "Error"
  <2>1. i + 1 \in 1 .. Len(c.steps)
    BY <1>2, ScriptTypes
  <2> QED
    BY <2>1 DEF Conversation, WellFormed
<1>6. /\ Head(S).ty = "Error" => r = "failed"
      /\ Head(S).ty # "Error" => Told(c, i + 1, Tail(S), r)
  BY <1>1, <1>2, <1>3, ToldRead
<1> QED
  BY <1>1, <1>2, <1>4, <1>5, <1>6 DEF CutTalk

\* It returns; a call that began too late does not get here.
LEMMA CutTalkReturn ==
  ASSUME NEW r, NEW c \in Calls, Conversation(c), NEW t, NEW B, NEW S \in Seq(PacketsA), NEW l,
         CutTalk(c, << >>, t, B, S, l, r)
  PROVE  S = << >> /\ ~l /\ r = "ok"
<1>1. PICK i \in 0 .. Len(c.steps) :
        /\ LeftAfter(c, i, << >>) /\ RepliedOrFailed(c, i, Out(c, i), S, t)
        /\ (l => In(c, i) = 0) /\ Told(c, i, S, r)
  BY DEF CutTalk
<1>2. i = Len(c.steps)
  BY <1>1, LeftStep
<1>3. S = << >>
  BY <1>1, <1>2, CutEnd
<1>4. In(c, i) > 0 /\ In(c, i) \in Nat
  <2>1. i \in Nat /\ i > 0 /\ i - 1 \in Nat /\ (i - 1) + 1 = i
    BY <1>2, ScriptTypes
  <2>2. c.steps[i].do = "read"
    BY <1>2 DEF Conversation, WellFormed
  <2>3. In(c, i) = In(c, i - 1) + 1 /\ In(c, i - 1) \in Nat
    BY <2>1, <2>2, ClientCounts
  <2> QED
    BY <2>3
<1>5. r = "ok"
  BY <1>1, <1>2, <1>3, <1>4, ToldNothing
<1> QED
  BY <1>1, <1>3, <1>4, <1>5

\* Fewer replies arrive.
LEMMA CutTalkShorter ==
  ASSUME NEW r, NEW c \in Calls, Conversation(c), NEW T, NEW t, NEW B, NEW S \in Seq(PacketsA), NEW l,
         CutTalk(c, T, t, B, S, l, r), NEW Z \in Seq(PacketsA), IsStart(Z, S)
  PROVE  CutTalk(c, T, t, B, Z, l, r)
<1>1. PICK i \in 0 .. Len(c.steps) :
        /\ LeftAfter(c, i, T) /\ RepliedOrFailed(c, i, Out(c, i), S, t)
        /\ B # << >> => S = << >>
        /\ (l => S = << >> /\ In(c, i) = 0) /\ Told(c, i, S, r)
  BY DEF CutTalk
<1>2. Len(Z) <= Len(S) /\ \A k \in 1 .. Len(Z) : Z[k] = S[k]
  BY DEF IsStart
<1>3. RepliedOrFailed(c, i, Out(c, i), Z, t)
  BY <1>1, <1>2, ReplyPrefix
<1>4. S = << >> => Z = << >>
  BY <1>2, NoElements
<1>5. Told(c, i, Z, r)
  BY <1>1, <1>2, ToldShorter
<1> QED
  BY <1>1, <1>3, <1>4, <1>5 DEF CutTalk

\* The command ends, after the connection was lost.
LEMMA CutTalkRan ==
  ASSUME NEW c, NEW T, NEW t, NEW B, NEW S, NEW l, CutTalk(c, T, t, B, S, l, "no"), NEW r
  PROVE  CutTalk(c, T, t, B, S, l, r)
  BY DEF CutTalk, Told

-----------------------------------------------------------------------------
(* What the parts of the actions do. *)

\* A call ends.
LEMMA FinishKeeps ==
  ASSUME ClientTypes, LockInv, NEW t \in Threads, NEW r \in Results, Finish(t, r),
         orphans' \subseteq Threads, phase[t] # "idle", client = "running", link' = link
  PROVE  /\ ClientTypes' /\ LockInv' /\ haveStream' = haveStream /\ late' = late
         /\ phase[t] = "locked" => lock' = NoThread
         /\ phase[t] = "called" => lock' = lock /\ lock # t
         /\ \A u \in Threads \ {t} : /\ call'[u] = call[u] /\ todo'[u] = todo[u]
                                     /\ result'[u] = result[u]
         /\ result'[t] = r
<1>0. NoThread \notin Threads
  BY ProtocolAssumption
<1>1. /\ phase' = [phase EXCEPT ![t] = "idle"] /\ call' = [call EXCEPT ![t] = NoCall]
      /\ todo' = [todo EXCEPT ![t] = << >>] /\ result' = [result EXCEPT ![t] = r]
      /\ lock' = (IF lock = t THEN NoThread ELSE lock)
      /\ haveStream' = haveStream /\ client' = client /\ late' = late
  BY DEF Finish
<1>2. /\ phase \in [Threads -> {"idle", "called", "locked"}]
      /\ call \in [Threads -> Calls \cup {NoCall}]
      /\ todo \in [Threads -> Seq(StepsA)]
      /\ result \in [Threads -> Results \cup {"none"}]
      /\ lock \in Threads \cup {NoThread}
  BY DEF ClientTypes
<1>3. /\ phase' \in [Threads -> {"idle", "called", "locked"}]
      /\ phase'[t] = "idle" /\ \A u \in Threads \ {t} : phase'[u] = phase[u]
  BY <1>1, <1>2
<1>4. /\ call' \in [Threads -> Calls \cup {NoCall}]
      /\ call'[t] = NoCall /\ \A u \in Threads \ {t} : call'[u] = call[u]
  BY <1>1, <1>2
<1>5. /\ todo' \in [Threads -> Seq(StepsA)]
      /\ \A u \in Threads \ {t} : todo'[u] = todo[u]
  <2>1. << >> \in Seq(StepsA)
    OBVIOUS
  <2> QED
    BY <1>1, <1>2, <2>1
<1>6. /\ result' \in [Threads -> Results \cup {"none"}] /\ result'[t] = r
      /\ \A u \in Threads \ {t} : result'[u] = result[u]
  BY <1>1, <1>2
<1>7. phase[t] = "locked" <=> lock = t
  BY DEF LockInv
<1>8. lock' \in Threads \cup {NoThread} /\ lock' # t
      /\ \A u \in Threads \ {t} : lock' = u <=> lock = u
  BY <1>0, <1>1, <1>2
<1>9. ClientTypes'
  BY <1>1, <1>3, <1>4, <1>5, <1>6, <1>8 DEF ClientTypes
<1>10. LockInv'
  <2>1. \A u \in Threads : phase'[u] = "locked" <=> lock' = u
    BY <1>3, <1>8 DEF LockInv
  <2>2. \A u \in Threads : phase'[u] # "idle" => call'[u] \in Calls
    BY <1>3, <1>4 DEF LockInv
  <2>3. \A u \in Threads :
          phase'[u] = "called" => todo'[u] = call'[u].steps /\ result'[u] = "none"
    BY <1>3, <1>4, <1>5, <1>6 DEF LockInv
  <2>4. \A u \in Threads : phase'[u] = "locked" => result'[u] = "none"
    BY <1>3, <1>6 DEF LockInv
  <2>5. \A u \in Threads : late'[u] => link' = "cut"
    BY <1>1 DEF LockInv
  <2> QED
    BY <1>1, <2>1, <2>2, <2>3, <2>4, <2>5 DEF LockInv
<1> QED
  BY <1>1, <1>4, <1>5, <1>6, <1>7, <1>9, <1>10

\* A call takes a step.
LEMMA ProceedKeeps ==
  ASSUME ClientTypes, LockInv, NEW t \in Threads, Proceed(t),
         phase[t] = "locked", todo[t] # << >>, link' = link
  PROVE  /\ ClientTypes' /\ LockInv' /\ lock = t /\ lock' = t
         /\ call' = call /\ late' = late /\ todo'[t] = Tail(todo[t]) /\ result' = result
<1>1. /\ todo' = [todo EXCEPT ![t] = Tail(@)]
      /\ haveStream' = haveStream /\ lock' = lock /\ phase' = phase /\ call' = call
      /\ result' = result /\ client' = client /\ orphans' = orphans /\ late' = late
  BY DEF Proceed
<1>2. todo \in [Threads -> Seq(StepsA)]
  BY DEF ClientTypes
<1>3. Tail(todo[t]) \in Seq(StepsA)
  BY <1>2, TailTaken
<1>4. /\ todo' \in [Threads -> Seq(StepsA)] /\ todo'[t] = Tail(todo[t])
      /\ \A u \in Threads \ {t} : todo'[u] = todo[u]
  <2> DEFINE x == Tail(todo[t])
  <2>1. todo' = [todo EXCEPT ![t] = x] /\ x \in Seq(StepsA)
    BY <1>1, <1>3
  <2> HIDE DEF x
  <2>2. /\ todo' \in [Threads -> Seq(StepsA)] /\ todo'[t] = x
        /\ \A u \in Threads \ {t} : todo'[u] = todo[u]
    BY <1>2, <2>1
  <2> QED
    BY <2>2 DEF x
<1>5. ClientTypes'
  BY <1>1, <1>4 DEF ClientTypes
<1>6. lock = t
  BY DEF LockInv
<1>7. LockInv'
  BY <1>1, <1>4 DEF LockInv
<1> QED
  BY <1>1, <1>4, <1>5, <1>6, <1>7

\* The client does nothing.
LEMMA ClientKeeps ==
  ASSUME ClientTypes, LockInv, UNCHANGED clientVars, link' = link \/ link' = "cut"
  PROVE  /\ ClientTypes' /\ LockInv' /\ lock' = lock /\ call' = call /\ todo' = todo
         /\ late' = late /\ result' = result
<1>1. /\ haveStream' = haveStream /\ lock' = lock /\ phase' = phase /\ call' = call
      /\ todo' = todo /\ result' = result /\ client' = client
      /\ orphans' = orphans /\ late' = late
  BY DEF clientVars
<1>2. ClientTypes'
  BY <1>1 DEF ClientTypes
<1>3. LockInv'
  BY <1>1 DEF LockInv
<1> QED
  BY <1>1, <1>2, <1>3

\* Nothing that concerns the thread that has the connection changes.
LEMMA HolderKeeps ==
  ASSUME UpInv, CutInv, UNCHANGED streamVars, UNCHANGED serverVars, lock' = lock,
         lock # NoThread => /\ call'[lock] = call[lock] /\ todo'[lock] = todo[lock]
                            /\ late'[lock] = late[lock] /\ ran'[lock] = ran[lock]
  PROVE  UpInv' /\ CutInv'
<1>1. /\ link' = link /\ cbuf' = cbuf /\ c2s' = c2s /\ sbuf' = sbuf /\ s2c' = s2c
      /\ server' = server /\ job' = job /\ request' = request
  BY DEF streamVars, serverVars
<1>2. UpInv'
  BY <1>1 DEF UpInv
<1>3. CutInv'
  BY <1>1 DEF CutInv, CutClient
<1> QED
  BY <1>2, <1>3

\* Streams and server keep their types.
LEMMA RestKeeps ==
  ASSUME Types
  PROVE  /\ UNCHANGED streamVars => StreamTypes'
         /\ UNCHANGED serverVars => ServerTypes'
         /\ UNCHANGED ran => ran' \in [Threads -> {"no", "ok", "failed"}]
  BY DEF Types, StreamTypes, ServerTypes, streamVars, serverVars

\* What is moved from the buffer to the socket stays in the stream.
LEMMA Moved ==
  ASSUME NEW s \in Seq(PacketsA), NEW b \in Seq(PacketsA), NEW k \in 0 .. Len(b)
  PROVE  /\ s \o Front(b, k) \in Seq(PacketsA) /\ Rest(b, k) \in Seq(PacketsA)
         /\ (s \o Front(b, k)) \o Rest(b, k) = s \o b
<1>1. Front(b, k) \in Seq(PacketsA)
  BY PrefixTaken DEF Front
<1>2. s \o Front(b, k) \in Seq(PacketsA)
  BY <1>1, Joined
<1>3. Rest(b, k) \in Seq(PacketsA)
  BY SuffixTaken DEF Rest
<1>4. (s \o Front(b, k)) \o Rest(b, k) = s \o b
  BY JoinMove DEF Front, Rest
<1> QED
  BY <1>2, <1>3, <1>4

\* A packet is of the type of the step that writes it.
LEMMA PacketType ==
  ASSUME NEW T \in Seq(StepsA), T # << >>, NEW o \in SUBSET STRING, NEW b \in Threads \cup {NoThread}
  PROVE  Packet(Head(T).ty, o, b) \in PacketsA
<1>1. Head(T) \in StepsA
  BY TailTaken
<1>2. Head(T).ty \in Tags
  BY <1>1 DEF StepsA
<1> QED
  BY <1>2 DEF Packet, PacketsA

\* The thread that has the connection.
LEMMA Holder ==
  ASSUME CallsAreConversations, IInv, NEW t \in Threads, phase[t] = "locked"
  PROVE  /\ lock = t /\ t # NoThread /\ lock # NoThread
         /\ call[t] \in Calls /\ Conversation(call[t]) /\ call[t] \in CallType
         /\ todo[t] \in Seq(StepsA)
         /\ c2s \in Seq(PacketsA) /\ cbuf \in Seq(PacketsA)
         /\ s2c \in Seq(PacketsA) /\ sbuf \in Seq(PacketsA)
         /\ c2s \o cbuf \in Seq(PacketsA) /\ s2c \o sbuf \in Seq(PacketsA)
<1>1. lock = t /\ call[t] \in Calls
  BY DEF IInv, Core, LockInv
<1>2. t # NoThread /\ call[t] \in CallType
  BY <1>1, ProtocolAssumption
<1>3. Conversation(call[t])
  BY <1>1 DEF CallsAreConversations
<1>4. /\ todo[t] \in Seq(StepsA)
      /\ c2s \in Seq(PacketsA) /\ cbuf \in Seq(PacketsA)
      /\ s2c \in Seq(PacketsA) /\ sbuf \in Seq(PacketsA)
  BY DEF IInv, Core, Types, ClientTypes, StreamTypes
<1>5. c2s \o cbuf \in Seq(PacketsA) /\ s2c \o sbuf \in Seq(PacketsA)
  BY <1>4, Joined
<1> QED
  BY <1>1, <1>2, <1>3, <1>4, <1>5

-----------------------------------------------------------------------------
(* The actions of the client. *)

\* The application calls a function.
LEMMA InvokeStep ==
  ASSUME CallsAreConversations, IInv, NEW t \in Threads, NEW c \in Calls, Invoke(t, c)
  PROVE  Core'
<1>1. /\ client = "running" /\ phase[t] = "idle"
      /\ phase' = [phase EXCEPT ![t] = "called"] /\ call' = [call EXCEPT ![t] = c]
      /\ todo' = [todo EXCEPT ![t] = c.steps] /\ result' = [result EXCEPT ![t] = "none"]
      /\ ran' = [ran EXCEPT ![t] = "no"] /\ late' = [late EXCEPT ![t] = (link = "cut")]
      /\ haveStream' = haveStream /\ lock' = lock /\ client' = client /\ orphans' = orphans
      /\ UNCHANGED streamVars /\ UNCHANGED serverVars
  BY DEF Invoke
<1>2. /\ phase \in [Threads -> {"idle", "called", "locked"}]
      /\ call \in [Threads -> Calls \cup {NoCall}]
      /\ todo \in [Threads -> Seq(StepsA)]
      /\ result \in [Threads -> Results \cup {"none"}]
      /\ late \in [Threads -> BOOLEAN] /\ ran \in [Threads -> {"no", "ok", "failed"}]
  BY DEF IInv, Core, Types, ClientTypes
<1>3. c.steps \in Seq(StepsA)
  BY ScriptTypes DEF CallsAreConversations
<1>4. /\ phase' \in [Threads -> {"idle", "called", "locked"}] /\ phase'[t] = "called"
      /\ \A u \in Threads \ {t} : phase'[u] = phase[u]
  BY <1>1, <1>2
<1>5. /\ call' \in [Threads -> Calls \cup {NoCall}] /\ call'[t] = c
      /\ \A u \in Threads \ {t} : call'[u] = call[u]
  BY <1>1, <1>2
<1>6. /\ todo' \in [Threads -> Seq(StepsA)] /\ todo'[t] = c.steps
      /\ \A u \in Threads \ {t} : todo'[u] = todo[u]
  <2> DEFINE x == c.steps
  <2>1. todo' = [todo EXCEPT ![t] = x] /\ x \in Seq(StepsA)
    BY <1>1, <1>3
  <2> HIDE DEF x
  <2>2. /\ todo' \in [Threads -> Seq(StepsA)] /\ todo'[t] = x
        /\ \A u \in Threads \ {t} : todo'[u] = todo[u]
    BY <1>2, <2>1
  <2> QED
    BY <2>2 DEF x
<1>7. /\ result' \in [Threads -> Results \cup {"none"}] /\ result'[t] = "none"
      /\ \A u \in Threads \ {t} : result'[u] = result[u]
  BY <1>1, <1>2
<1>8. /\ late' \in [Threads -> BOOLEAN] /\ (late'[t] => link = "cut")
      /\ \A u \in Threads \ {t} : late'[u] = late[u]
  <2> DEFINE x == (link = "cut")
  <2>1. late' = [late EXCEPT ![t] = x] /\ x \in BOOLEAN
    BY <1>1
  <2> HIDE DEF x
  <2>2. /\ late' \in [Threads -> BOOLEAN] /\ late'[t] = x
        /\ \A u \in Threads \ {t} : late'[u] = late[u]
    BY <1>2, <2>1
  <2> QED
    BY <2>2 DEF x
<1>9. /\ ran' \in [Threads -> {"no", "ok", "failed"}]
      /\ \A u \in Threads \ {t} : ran'[u] = ran[u]
  BY <1>1, <1>2
<1>10. ClientTypes'
  BY <1>1, <1>4, <1>5, <1>6, <1>7, <1>8 DEF IInv, Core, Types, ClientTypes
<1>11. Types'
  BY <1>1, <1>9, <1>10, RestKeeps DEF IInv, Core, Types
<1>12. lock # t
  BY <1>1 DEF IInv, Core, LockInv
<1>13. link' = link
  BY <1>1 DEF streamVars
<1>14. LockInv'
  <2>1. \A u \in Threads : phase'[u] = "locked" <=> lock' = u
    BY <1>1, <1>4, <1>12 DEF IInv, Core, LockInv
  <2>2. \A u \in Threads : phase'[u] # "idle" => call'[u] \in Calls
    BY <1>4, <1>5 DEF IInv, Core, LockInv
  <2>3. \A u \in Threads :
          phase'[u] = "called" => todo'[u] = call'[u].steps /\ result'[u] = "none"
    BY <1>4, <1>5, <1>6, <1>7 DEF IInv, Core, LockInv
  <2>4. \A u \in Threads : phase'[u] = "locked" => result'[u] = "none"
    BY <1>4, <1>7 DEF IInv, Core, LockInv
  <2>5. \A u \in Threads : late'[u] => link' = "cut"
    BY <1>8, <1>13 DEF IInv, Core, LockInv
  <2> QED
    BY <1>1, <2>1, <2>2, <2>3, <2>4, <2>5 DEF LockInv
<1>15. lock # NoThread => lock \in Threads \ {t}
  BY <1>12 DEF IInv, Core, Types, ClientTypes
<1>16. UpInv' /\ CutInv'
  BY <1>1, <1>5, <1>6, <1>8, <1>9, <1>15, HolderKeeps DEF IInv, Core
<1> QED
  BY <1>11, <1>14, <1>16 DEF IInv, Core

\* A call that has not the connection ends.
LEMMA LeaveStep ==
  ASSUME CallsAreConversations, IInv, NEW t \in Threads, NEW r \in Results, Finish(t, r),
         orphans' = orphans, phase[t] = "called", client = "running",
         UNCHANGED <<streamVars, serverVars, ran>>
  PROVE  Core'
<1>1. link' = link /\ UNCHANGED streamVars /\ UNCHANGED serverVars /\ UNCHANGED ran
  BY DEF streamVars
<1>2. orphans' \subseteq Threads /\ ClientTypes /\ LockInv
  BY DEF IInv, Core, Types, ClientTypes
<1>3. /\ ClientTypes' /\ LockInv' /\ late' = late /\ lock' = lock /\ lock # t
      /\ \A u \in Threads \ {t} : call'[u] = call[u] /\ todo'[u] = todo[u]
  BY <1>1, <1>2, FinishKeeps
<1>4. lock # NoThread => lock \in Threads \ {t}
  BY <1>3 DEF IInv, Core, Types, ClientTypes
<1>5. UpInv' /\ CutInv'
  BY <1>1, <1>3, <1>4, HolderKeeps DEF IInv, Core
<1> QED
  BY <1>1, <1>3, <1>5, RestKeeps DEF IInv, Core, Types

\* The arguments are refused.
LEMMA RejectStep ==
  ASSUME CallsAreConversations, IInv, NEW t \in Threads, Reject(t)
  PROVE  Core'
<1>1. "INVALID" \in Results
  BY DEF Results
<1> QED
  BY <1>1, LeaveStep DEF Reject

\* The connection is taken, or there is none.
LEMMA AcquireStep ==
  ASSUME CallsAreConversations, IInv, NEW t \in Threads, Acquire(t)
  PROVE  Core'
<1>1. /\ client = "running" /\ phase[t] = "called" /\ lock = NoThread
      /\ UNCHANGED streamVars /\ UNCHANGED serverVars /\ UNCHANGED ran
  BY DEF Acquire
<1>2. /\ call[t] \in Calls /\ todo[t] = call[t].steps /\ result[t] = "none" /\ ran[t] = "no"
  BY <1>1 DEF IInv, Core, LockInv, RanInv
<1>3. Conversation(call[t]) /\ call[t] \in CallType
  BY <1>2, ProtocolAssumption DEF CallsAreConversations
<1>4. CASE ~haveStream
  <2>1. Finish(t, call[t].nostream) /\ orphans' = orphans
    BY <1>4 DEF Acquire
  <2>2. call[t].nostream \in Results
    BY <1>3 DEF CallType
  <2> QED
    BY <1>1, <2>1, <2>2, LeaveStep
<1>5. CASE haveStream
  <2>1. /\ lock' = t /\ phase' = [phase EXCEPT ![t] = "locked"]
        /\ haveStream' = haveStream /\ call' = call /\ todo' = todo /\ result' = result
        /\ client' = client /\ orphans' = orphans /\ late' = late
    BY <1>5 DEF Acquire
  <2>2. phase \in [Threads -> {"idle", "called", "locked"}]
    BY DEF IInv, Core, Types, ClientTypes
  <2>3. /\ phase' \in [Threads -> {"idle", "called", "locked"}] /\ phase'[t] = "locked"
        /\ \A u \in Threads \ {t} : phase'[u] = phase[u]
    BY <2>1, <2>2
  <2>4. ClientTypes'
    BY <2>1, <2>3 DEF IInv, Core, Types, ClientTypes
  <2>5. Types'
    BY <1>1, <2>4, RestKeeps DEF IInv, Core, Types
  <2>6. /\ link' = link /\ cbuf' = cbuf /\ c2s' = c2s /\ sbuf' = sbuf /\ s2c' = s2c
        /\ server' = server /\ job' = job /\ request' = request /\ ran' = ran
    BY <1>1 DEF streamVars, serverVars
  <2>7. NoThread \notin Threads /\ t # NoThread
    BY ProtocolAssumption
  <2>8. LockInv'
    <3>1. \A u \in Threads : phase'[u] = "locked" <=> lock' = u
      BY <1>1, <2>1, <2>3, <2>7 DEF IInv, Core, LockInv
    <3>2. \A u \in Threads : phase'[u] # "idle" => call'[u] \in Calls
      BY <1>2, <2>1, <2>3 DEF IInv, Core, LockInv
    <3>3. \A u \in Threads :
            phase'[u] = "called" => todo'[u] = call'[u].steps /\ result'[u] = "none"
      BY <2>1, <2>3 DEF IInv, Core, LockInv
    <3>4. \A u \in Threads : phase'[u] = "locked" => result'[u] = "none"
      BY <1>2, <2>1, <2>3 DEF IInv, Core, LockInv
    <3>5. \A u \in Threads : late'[u] => link' = "cut"
      BY <2>1, <2>6 DEF IInv, Core, LockInv
    <3> QED
      BY <1>1, <2>1, <3>1, <3>2, <3>3, <3>4, <3>5 DEF LockInv
  <2>9. UpInv'
    <3> SUFFICES ASSUME link = "up"
                 PROVE  /\ server \in {"idle", "handling"}
                        /\ UpTalk(call[t], todo[t], t, c2s \o cbuf, s2c \o sbuf, job, request.by, ran[t])
      BY <2>1, <2>6, <2>7 DEF UpInv
    <3>1. /\ cbuf = << >> /\ c2s = << >> /\ sbuf = << >> /\ s2c = << >>
          /\ job \in Resting /\ server \in {"idle", "handling"}
      BY <1>1 DEF IInv, Core, UpInv
    <3>2. c2s \o cbuf = << >> /\ s2c \o sbuf = << >>
      BY <3>1
    <3>3. UpTalk(call[t], call[t].steps, t, << >>, << >>, job, request.by, ran[t])
      BY <1>2, <1>3, <3>1, UpStart
    <3> QED
      BY <1>2, <3>1, <3>2, <3>3
  <2>10. CutInv'
    <3> SUFFICES ASSUME link = "cut"
                 PROVE  /\ CutServer(c2s, job)
                        /\ CutTalk(call[t], todo[t], t, cbuf, s2c, late[t], ran[t])
      BY <2>1, <2>6, <2>7 DEF CutInv, CutClient
    <3>1. CutServer(c2s, job) /\ s2c = << >>
      BY <1>1 DEF IInv, Core, CutInv, CutClient
    <3>2. CutTalk(call[t], call[t].steps, t, cbuf, << >>, late[t], ran[t])
      BY <1>2, <1>3, CutTalkStart
    <3> QED
      BY <1>2, <3>1, <3>2
  <2> QED
    BY <2>5, <2>8, <2>9, <2>10 DEF IInv, Core
<1> QED
  BY <1>4, <1>5 DEF IInv, Core, Types, ClientTypes

\* The call that has the connection ends.
LEMMA ReleaseStep ==
  ASSUME CallsAreConversations, IInv, NEW t \in Threads, phase[t] = "locked", client = "running",
         NEW r \in Results, Finish(t, r), orphans' = orphans \/ orphans' = orphans \cup {t},
         UNCHANGED serverVars, UNCHANGED ran, link' = link, StreamTypes',
         link = "up" => /\ cbuf' = << >> /\ c2s' = << >> /\ sbuf' = << >> /\ s2c' = << >>
                        /\ job \in Resting,
         link = "cut" => c2s' = c2s /\ s2c' = << >>
  PROVE  Core'
<1>1. orphans' \subseteq Threads /\ ClientTypes /\ LockInv
  BY DEF IInv, Core, Types, ClientTypes
<1>2. ClientTypes' /\ LockInv' /\ lock' = NoThread
  BY <1>1, FinishKeeps
<1>3. Types'
  BY <1>2, RestKeeps DEF IInv, Core, Types
<1>4. server' = server /\ job' = job /\ request' = request
  BY DEF serverVars
<1>5. UpInv'
  BY <1>2, <1>4 DEF IInv, Core, UpInv
<1>6. CutInv'
  BY <1>2, <1>4 DEF IInv, Core, CutInv, CutClient
<1> QED
  BY <1>2, <1>3, <1>5, <1>6 DEF IInv, Core

\* It takes a step.
LEMMA ForwardStep ==
  ASSUME CallsAreConversations, IInv, NEW t \in Threads, phase[t] = "locked",
         todo[t] # << >>, Proceed(t),
         UNCHANGED serverVars, UNCHANGED ran, link' = link, StreamTypes',
         link = "up" => UpTalk(call[t], Tail(todo[t]), t, c2s' \o cbuf', s2c' \o sbuf', job, request.by, ran[t]),
         link = "cut" => c2s' = c2s /\ CutTalk(call[t], Tail(todo[t]), t, cbuf', s2c', late[t], ran[t])
  PROVE  Core'
<1>1. ClientTypes /\ LockInv
  BY DEF IInv, Core, Types
<1>2. /\ ClientTypes' /\ LockInv' /\ lock = t /\ lock' = t
      /\ call' = call /\ late' = late /\ todo'[t] = Tail(todo[t])
  BY <1>1, ProceedKeeps
<1>3. Types'
  BY <1>2, RestKeeps DEF IInv, Core, Types
<1>4. server' = server /\ job' = job /\ request' = request
  BY DEF serverVars
<1>5. t # NoThread
  BY ProtocolAssumption
<1>6. UpInv'
  BY <1>2, <1>4, <1>5 DEF IInv, Core, UpInv
<1>7. CutInv'
  BY <1>2, <1>4, <1>5 DEF IInv, Core, CutInv, CutClient
<1> QED
  BY <1>2, <1>3, <1>6, <1>7 DEF IInv, Core

\* The call writes.
LEMMA ClientWriteStep ==
  ASSUME CallsAreConversations, IInv, NEW t \in Threads, ClientWrite(t)
  PROVE  Core'
<1> DEFINE x == Packet(Head(todo[t]).ty, call[t].opts, t)
           all == Append(cbuf, x)
<1>1. /\ At(t, "write") /\ link' = link /\ sbuf' = sbuf /\ s2c' = s2c
      /\ UNCHANGED serverVars /\ UNCHANGED ran
      /\ \/ /\ link = "up"
            /\ \E k \in 0 .. Len(all) : c2s' = c2s \o Front(all, k) /\ cbuf' = Rest(all, k)
            /\ Proceed(t)
         \/ link = "cut" /\ cbuf' \in {<< >>, <<x>>} /\ Proceed(t) /\ c2s' = c2s
         \/ link = "cut" /\ cbuf' = <<x>> /\ Throws(t) /\ c2s' = c2s
  BY DEF ClientWrite
<1>2. client = "running" /\ phase[t] = "locked" /\ NextIs(todo[t], "write") /\ todo[t] # << >>
  BY <1>1 DEF At, NextIs
<1>3. /\ lock = t /\ lock # NoThread /\ call[t] \in Calls /\ Conversation(call[t])
      /\ call[t] \in CallType /\ todo[t] \in Seq(StepsA)
      /\ c2s \in Seq(PacketsA) /\ cbuf \in Seq(PacketsA)
      /\ s2c \in Seq(PacketsA) /\ sbuf \in Seq(PacketsA)
      /\ c2s \o cbuf \in Seq(PacketsA) /\ s2c \o sbuf \in Seq(PacketsA)
  BY <1>2, Holder
<1>4. x \in PacketsA
  <2>1. call[t].opts \in SUBSET STRING
    BY <1>3 DEF CallType
  <2> QED
    BY <1>2, <1>3, <2>1, PacketType
<1>5. all \in Seq(PacketsA)
  BY <1>3, <1>4, Appended
<1>6. <<x>> \in Seq(PacketsA) /\ << >> \in Seq(PacketsA)
  <2> HIDE DEF x
  <2> QED
    BY <1>4
<1>7. link \in {"up", "cut"}
  BY DEF IInv, Core, Types, StreamTypes
<1>8. CASE link = "up"
  <2>1. PICK k \in 0 .. Len(all) : c2s' = c2s \o Front(all, k) /\ cbuf' = Rest(all, k)
    BY <1>1, <1>8
  <2>2. Proceed(t)
    BY <1>1, <1>8
  <2>3. c2s' \in Seq(PacketsA) /\ cbuf' \in Seq(PacketsA) /\ c2s' \o cbuf' = c2s \o all
    <3> HIDE DEF all
    <3> QED
      BY <1>3, <1>5, <2>1, Moved
  <2>4. c2s \o all = Append(c2s \o cbuf, x)
    <3> HIDE DEF x
    <3> QED
      BY <1>3, <1>4, JoinAppend
  <2>5. UpTalk(call[t], todo[t], t, c2s \o cbuf, s2c \o sbuf, job, request.by, ran[t])
    BY <1>3, <1>8 DEF IInv, Core, UpInv
  <2>6. UpTalk(call[t], Tail(todo[t]), t, Append(c2s \o cbuf, x), s2c \o sbuf, job, request.by, ran[t])
    BY <1>2, <1>3, <1>4, <2>5, UpWrite
  <2>7. StreamTypes'
    BY <1>1, <1>3, <1>7, <2>3 DEF StreamTypes
  <2>8. UpTalk(call[t], Tail(todo[t]), t, c2s' \o cbuf', s2c' \o sbuf', job, request.by, ran[t])
    BY <1>1, <2>3, <2>4, <2>6
  <2> QED
    BY <1>1, <1>2, <1>8, <2>2, <2>7, <2>8, ForwardStep
<1>9. CASE link = "cut"
  <2>1. c2s' = c2s /\ cbuf' \in {<< >>, <<x>>}
    BY <1>1, <1>9
  <2>2. StreamTypes'
    BY <1>1, <1>3, <1>6, <1>7, <2>1 DEF StreamTypes
  <2>3. CutTalk(call[t], todo[t], t, cbuf, s2c, late[t], ran[t])
    BY <1>3, <1>9 DEF IInv, Core, CutInv, CutClient
  <2>4. s2c = << >> /\ CutTalk(call[t], Tail(todo[t]), t, cbuf', s2c, late[t], ran[t])
    BY <1>2, <1>3, <2>3, CutTalkWrite
  <2>5. CASE Proceed(t)
    BY <1>1, <1>2, <1>9, <2>1, <2>2, <2>4, <2>5, ForwardStep
  <2>6. CASE Throws(t)
    <3>1. Finish(t, call[t].loss) /\ orphans' = orphans \cup {t}
      BY <2>6 DEF Throws
    <3>2. call[t].loss \in Results
      BY <1>3 DEF CallType
    <3> QED
      BY <1>1, <1>2, <1>9, <2>1, <2>2, <2>4, <3>1, <3>2, ReleaseStep
  <2> QED
    BY <1>1, <1>9, <2>5, <2>6
<1> QED
  BY <1>7, <1>8, <1>9

\* The call flushes.
LEMMA ClientFlushStep ==
  ASSUME CallsAreConversations, IInv, NEW t \in Threads, ClientFlush(t)
  PROVE  Core'
<1>1. /\ At(t, "flush") /\ link' = link /\ sbuf' = sbuf /\ s2c' = s2c
      /\ UNCHANGED serverVars /\ UNCHANGED ran
      /\ \/ cbuf = << >> /\ Proceed(t) /\ cbuf' = cbuf /\ c2s' = c2s
         \/ /\ link = "up"
            /\ \E k \in 1 .. Len(cbuf) :
                 /\ c2s' = c2s \o Front(cbuf, k) /\ cbuf' = Rest(cbuf, k)
                 /\ IF k = Len(cbuf) THEN Proceed(t) ELSE UNCHANGED clientVars
         \/ link = "cut" /\ cbuf # << >> /\ cbuf' = << >> /\ Proceed(t) /\ c2s' = c2s
         \/ link = "cut" /\ cbuf # << >> /\ Throws(t) /\ cbuf' = cbuf /\ c2s' = c2s
  BY DEF ClientFlush
<1>2. client = "running" /\ phase[t] = "locked" /\ NextIs(todo[t], "flush") /\ todo[t] # << >>
  BY <1>1 DEF At, NextIs
<1>3. /\ lock = t /\ lock # NoThread /\ call[t] \in Calls /\ Conversation(call[t])
      /\ call[t] \in CallType /\ todo[t] \in Seq(StepsA)
      /\ c2s \in Seq(PacketsA) /\ cbuf \in Seq(PacketsA)
      /\ s2c \in Seq(PacketsA) /\ sbuf \in Seq(PacketsA)
      /\ c2s \o cbuf \in Seq(PacketsA) /\ s2c \o sbuf \in Seq(PacketsA)
  BY <1>2, Holder
<1>4. link \in {"up", "cut"} /\ << >> \in Seq(PacketsA)
  BY DEF IInv, Core, Types, StreamTypes
<1>5. ASSUME link = "up"
      PROVE  /\ UpTalk(call[t], todo[t], t, c2s \o cbuf, s2c \o sbuf, job, request.by, ran[t])
             /\ UpTalk(call[t], Tail(todo[t]), t, c2s \o cbuf, s2c \o sbuf, job, request.by, ran[t])
  <2>1. UpTalk(call[t], todo[t], t, c2s \o cbuf, s2c \o sbuf, job, request.by, ran[t])
    BY <1>3, <1>5 DEF IInv, Core, UpInv
  <2> QED
    BY <1>2, <1>3, <2>1, UpFlush
<1>6. ASSUME link = "cut"
      PROVE  /\ cbuf # << >> => s2c = << >>
             /\ CutTalk(call[t], Tail(todo[t]), t, << >>, s2c, late[t], ran[t])
  <2>1. CutTalk(call[t], todo[t], t, cbuf, s2c, late[t], ran[t])
    BY <1>3, <1>6 DEF IInv, Core, CutInv, CutClient
  <2> QED
    BY <1>2, <1>3, <2>1, CutTalkFlush
<1>7. CASE cbuf = << >> /\ Proceed(t) /\ cbuf' = cbuf /\ c2s' = c2s
  <2>1. StreamTypes'
    BY <1>1, <1>3, <1>4, <1>7 DEF StreamTypes
  <2> QED
    BY <1>1, <1>2, <1>5, <1>6, <1>7, <2>1, ForwardStep
<1>8. CASE link = "up" /\ \E k \in 1 .. Len(cbuf) :
             /\ c2s' = c2s \o Front(cbuf, k) /\ cbuf' = Rest(cbuf, k)
             /\ IF k = Len(cbuf) THEN Proceed(t) ELSE UNCHANGED clientVars
  <2>1. PICK k \in 1 .. Len(cbuf) :
          /\ c2s' = c2s \o Front(cbuf, k) /\ cbuf' = Rest(cbuf, k)
          /\ IF k = Len(cbuf) THEN Proceed(t) ELSE UNCHANGED clientVars
    BY <1>8
  <2>2. k \in 0 .. Len(cbuf)
    BY <1>3
  <2>3. c2s' \in Seq(PacketsA) /\ cbuf' \in Seq(PacketsA) /\ c2s' \o cbuf' = c2s \o cbuf
    BY <1>3, <2>1, <2>2, Moved
  <2>4. StreamTypes'
    BY <1>1, <1>3, <1>4, <2>3 DEF StreamTypes
  <2>5. CASE Proceed(t)
    <3>1. UpTalk(call[t], Tail(todo[t]), t, c2s' \o cbuf', s2c' \o sbuf', job, request.by, ran[t])
      BY <1>1, <1>5, <1>8, <2>3
    <3> QED
      BY <1>1, <1>2, <1>8, <2>4, <2>5, <3>1, ForwardStep
  <2>6. CASE UNCHANGED clientVars
    <3>1. ClientTypes /\ LockInv
      BY DEF IInv, Core, Types
    <3>2. /\ ClientTypes' /\ LockInv' /\ lock' = lock /\ call' = call /\ todo' = todo
      BY <1>1, <2>6, <3>1, ClientKeeps
    <3>3. Types'
      BY <1>1, <2>4, <3>2, RestKeeps DEF IInv, Core, Types
    <3>4. server' = server /\ job' = job /\ request' = request
      BY <1>1 DEF serverVars
    <3>5. UpTalk(call'[lock'], todo'[lock'], lock', c2s' \o cbuf', s2c' \o sbuf', job', request'.by, ran'[lock'])
      BY <1>1, <1>3, <1>5, <1>8, <2>3, <3>2, <3>4
    <3>6. UpInv'
      BY <1>1, <1>3, <3>2, <3>4, <3>5 DEF IInv, Core, UpInv
    <3>7. CutInv'
      BY <1>1, <1>8 DEF CutInv
    <3> QED
      BY <3>2, <3>3, <3>6, <3>7 DEF IInv, Core
  <2> QED
    BY <2>1, <2>5, <2>6
<1>9. CASE link = "cut" /\ cbuf # << >> /\ cbuf' = << >> /\ Proceed(t) /\ c2s' = c2s
  <2>1. StreamTypes'
    BY <1>1, <1>3, <1>4, <1>9 DEF StreamTypes
  <2> QED
    BY <1>1, <1>2, <1>6, <1>9, <2>1, ForwardStep
<1>10. CASE link = "cut" /\ cbuf # << >> /\ Throws(t) /\ cbuf' = cbuf /\ c2s' = c2s
  <2>1. StreamTypes'
    BY <1>1, <1>3, <1>4, <1>10 DEF StreamTypes
  <2>2. Finish(t, call[t].loss) /\ orphans' = orphans \cup {t}
    BY <1>10 DEF Throws
  <2>3. call[t].loss \in Results
    BY <1>3 DEF CallType
  <2>4. s2c' = << >>
    BY <1>1, <1>6, <1>10
  <2> QED
    BY <1>1, <1>2, <1>10, <2>1, <2>2, <2>3, <2>4, ReleaseStep
<1> QED
  BY <1>1, <1>7, <1>8, <1>9, <1>10

\* Nothing is nothing and nothing.
LEMMA JoinEmpty ==
  ASSUME NEW S, NEW s \in Seq(S), NEW z \in Seq(S), s \o z = << >>
  PROVE  s = << >> /\ z = << >>
<1>1. Len(s \o z) = Len(s) + Len(z) /\ Len(s) \in Nat /\ Len(z) \in Nat
  BY Joined
<1>2. Len(s \o z) = 0
  OBVIOUS
<1>3. Len(s) = 0 /\ Len(z) = 0
  BY <1>1, <1>2
<1> QED
  BY <1>3, NoElements

\* What the thread that has the connection finds when it reads.
LEMMA ClientFinds ==
  ASSUME CallsAreConversations, IInv, NEW t \in Threads, phase[t] = "locked",
         NextIs(todo[t], "read"), s2c # << >>
  PROVE  /\ Head(s2c).ty \in {Head(todo[t]).ty, "Error"}
         /\ Head(s2c).ty = Head(todo[t]).ty =>
              /\ link = "up" => UpTalk(call[t], Tail(todo[t]), t, c2s \o cbuf,
                                       Tail(s2c) \o sbuf, job, request.by, ran[t])
              /\ link = "cut" => CutTalk(call[t], Tail(todo[t]), t, cbuf, Tail(s2c), late[t], ran[t])
         /\ Head(s2c).ty = "Error" =>
              /\ ran[t] = "failed"
              /\ link = "up" => /\ cbuf = << >> /\ c2s = << >> /\ sbuf = << >>
                                /\ Tail(s2c) = << >> /\ job \in Resting
              /\ link = "cut" => Tail(s2c) = << >>
         /\ ~late[t]
<1>1. /\ lock = t /\ lock # NoThread /\ call[t] \in Calls /\ Conversation(call[t])
      /\ c2s \in Seq(PacketsA) /\ cbuf \in Seq(PacketsA)
      /\ s2c \in Seq(PacketsA) /\ sbuf \in Seq(PacketsA)
      /\ c2s \o cbuf \in Seq(PacketsA) /\ s2c \o sbuf \in Seq(PacketsA)
  BY Holder
<1>2. link \in {"up", "cut"} /\ (late[t] => link = "cut")
  BY DEF IInv, Core, Types, StreamTypes, LockInv
<1>3. CASE link = "up"
  <2>1. UpTalk(call[t], todo[t], t, c2s \o cbuf, s2c \o sbuf, job, request.by, ran[t])
    BY <1>1, <1>3 DEF IInv, Core, UpInv
  <2>2. s2c \o sbuf # << >> /\ Head(s2c \o sbuf) = Head(s2c) /\ Tail(s2c) \o sbuf = Tail(s2c \o sbuf)
    BY <1>1, JoinTail
  <2> DEFINE U == c2s \o cbuf
             V == s2c \o sbuf
             r == ran[t]
             T == todo[t]
             c == call[t]
             J == job
  <2>3. /\ Head(V).ty \in {Head(T).ty, "Error"}
        /\ Head(V).ty = Head(T).ty => UpTalk(c, Tail(T), t, U, Tail(V), J, request.by, r)
        /\ Head(V).ty = "Error" => Reported(U, Tail(V), J, r)
    <3>1. /\ U \in Seq(PacketsA) /\ V \in Seq(PacketsA) /\ V # << >>
          /\ UpTalk(c, T, t, U, V, J, request.by, r) /\ c \in Calls /\ Conversation(c) /\ NextIs(T, "read")
      BY <1>1, <2>1, <2>2
    <3> HIDE DEF U, V, r, T, c, J
    <3> QED
      BY <3>1, UpRead
  <2>4. Tail(s2c) \in Seq(PacketsA)
    BY <1>1, TailTaken
  <2>5. U = << >> => c2s = << >> /\ cbuf = << >>
    BY <1>1, JoinEmpty
  <2>6. Tail(V) = << >> => Tail(s2c) = << >> /\ sbuf = << >>
    BY <1>1, <2>2, <2>4, JoinEmpty
  <2> QED
    BY <1>2, <1>3, <2>2, <2>3, <2>5, <2>6 DEF Reported
<1>4. CASE link = "cut"
  <2>1. CutTalk(call[t], todo[t], t, cbuf, s2c, late[t], ran[t])
    BY <1>1, <1>4 DEF IInv, Core, CutInv, CutClient
  <2>2. /\ Head(s2c).ty \in {Head(todo[t]).ty, "Error"} /\ ~late[t]
        /\ Head(s2c).ty = "Error" => Tail(s2c) = << >> /\ ran[t] = "failed"
        /\ Head(s2c).ty = Head(todo[t]).ty =>
             CutTalk(call[t], Tail(todo[t]), t, cbuf, Tail(s2c), late[t], ran[t])
    <3> DEFINE r == ran[t]
               T == todo[t]
               c == call[t]
               S == s2c
               B == cbuf
               l == late[t]
    <3>1. /\ CutTalk(c, T, t, B, S, l, r) /\ c \in Calls /\ Conversation(c) /\ NextIs(T, "read")
          /\ S \in Seq(PacketsA) /\ S # << >>
      BY <1>1, <2>1
    <3> HIDE DEF r, T, c, S, B, l
    <3>2. /\ Head(S).ty \in {Head(T).ty, "Error"} /\ ~l
          /\ Head(S).ty = "Error" => Tail(S) = << >> /\ r = "failed"
          /\ Head(S).ty = Head(T).ty => CutTalk(c, Tail(T), t, B, Tail(S), l, r)
      BY <3>1, CutTalkRead
    <3> QED
      BY <3>2 DEF r, T, c, S, B, l
  <2> QED
    BY <1>4, <2>2
<1> QED
  BY <1>2, <1>3, <1>4

\* The call reads.
LEMMA ClientReadStep ==
  ASSUME CallsAreConversations, IInv, NEW t \in Threads, ClientRead(t)
  PROVE  Core'
<1>1. At(t, "read") /\ UNCHANGED serverVars /\ UNCHANGED ran
  BY DEF ClientRead
<1>2. client = "running" /\ phase[t] = "locked" /\ NextIs(todo[t], "read") /\ todo[t] # << >>
  BY <1>1 DEF At, NextIs
<1>3. /\ call[t] \in CallType /\ c2s \in Seq(PacketsA) /\ cbuf \in Seq(PacketsA)
      /\ s2c \in Seq(PacketsA) /\ sbuf \in Seq(PacketsA)
  BY <1>2, Holder
<1>4. link \in {"up", "cut"}
  BY DEF IInv, Core, Types, StreamTypes
<1>5. CASE /\ s2c # << >> /\ Head(s2c).ty = Head(todo[t]).ty /\ s2c' = Tail(s2c) /\ Proceed(t)
           /\ UNCHANGED <<link, cbuf, c2s, sbuf>>
  <2>1. Tail(s2c) \in Seq(PacketsA)
    BY <1>3, <1>5, TailTaken
  <2>2. StreamTypes'
    BY <1>3, <1>4, <1>5, <2>1 DEF StreamTypes
  <2>3. link = "up" => UpTalk(call[t], Tail(todo[t]), t, c2s' \o cbuf', s2c' \o sbuf', job, request.by, ran[t])
    BY <1>2, <1>5, ClientFinds
  <2>4. link = "cut" => c2s' = c2s /\ CutTalk(call[t], Tail(todo[t]), t, cbuf', s2c', late[t], ran[t])
    BY <1>2, <1>5, ClientFinds
  <2> QED
    BY <1>1, <1>2, <1>5, <2>2, <2>3, <2>4, ForwardStep
<1>6. CASE /\ s2c # << >> /\ Head(s2c).ty = "Error" /\ s2c' = Tail(s2c)
           /\ Finish(t, call[t].error) /\ UNCHANGED <<link, cbuf, c2s, sbuf, orphans>>
  <2>1. Tail(s2c) \in Seq(PacketsA)
    BY <1>3, <1>6, TailTaken
  <2>2. StreamTypes'
    BY <1>3, <1>4, <1>6, <2>1 DEF StreamTypes
  <2>3. call[t].error \in Results
    BY <1>3 DEF CallType
  <2>4. /\ link = "up" => /\ cbuf' = << >> /\ c2s' = << >> /\ sbuf' = << >> /\ s2c' = << >>
                          /\ job \in Resting
        /\ link = "cut" => c2s' = c2s /\ s2c' = << >>
    BY <1>2, <1>6, ClientFinds
  <2> QED
    BY <1>1, <1>2, <1>6, <2>2, <2>3, <2>4, ReleaseStep
<1>7. CASE s2c = << >> /\ link = "cut" /\ Throws(t) /\ UNCHANGED streamVars
  <2>1. /\ link' = link /\ c2s' = c2s /\ s2c' = s2c /\ StreamTypes'
    BY <1>7, RestKeeps DEF IInv, Core, streamVars
  <2>2. Finish(t, call[t].loss) /\ orphans' = orphans \cup {t}
    BY <1>7 DEF Throws
  <2>3. call[t].loss \in Results
    BY <1>3 DEF CallType
  <2> QED
    BY <1>1, <1>2, <1>7, <2>1, <2>2, <2>3, ReleaseStep
<1>8. CASE s2c # << >> /\ Head(s2c).ty \notin {Head(todo[t]).ty, "Error"}
  BY <1>2, <1>8, ClientFinds
<1> QED
  BY <1>5, <1>6, <1>7, <1>8 DEF ClientRead

\* The call returns.
LEMMA ReturnStep ==
  ASSUME CallsAreConversations, IInv, NEW t \in Threads, Return(t)
  PROVE  Core' /\ ~late[t] /\ ran[t] = "ok"
<1>1. /\ client = "running" /\ phase[t] = "locked" /\ todo[t] = << >> /\ Finish(t, "SUCCESS")
      /\ orphans' = orphans /\ UNCHANGED streamVars /\ UNCHANGED serverVars /\ UNCHANGED ran
  BY DEF Return
<1>2. /\ lock = t /\ lock # NoThread /\ call[t] \in Calls /\ Conversation(call[t])
      /\ c2s \in Seq(PacketsA) /\ cbuf \in Seq(PacketsA)
      /\ s2c \in Seq(PacketsA) /\ sbuf \in Seq(PacketsA)
      /\ c2s \o cbuf \in Seq(PacketsA) /\ s2c \o sbuf \in Seq(PacketsA)
  BY <1>1, Holder
<1>3. /\ link' = link /\ c2s' = c2s /\ s2c' = s2c /\ cbuf' = cbuf /\ sbuf' = sbuf
      /\ StreamTypes' /\ link \in {"up", "cut"} /\ (late[t] => link = "cut")
  BY <1>1, RestKeeps DEF IInv, Core, streamVars, Types, StreamTypes, LockInv
<1>4. ASSUME link = "up"
      PROVE  /\ cbuf = << >> /\ c2s = << >> /\ sbuf = << >> /\ s2c = << >> /\ job \in Resting
             /\ ran[t] = "ok"
  <2> DEFINE U == c2s \o cbuf
             V == s2c \o sbuf
  <2>1. UpTalk(call[t], << >>, t, U, V, job, request.by, ran[t])
    BY <1>1, <1>2, <1>4 DEF IInv, Core, UpInv
  <2>2. U \in Seq(PacketsA) /\ V \in Seq(PacketsA)
    BY <1>2
  <2>3. U = << >> /\ V = << >> /\ job \in Resting /\ ran[t] = "ok"
    <3> HIDE DEF U, V
    <3> QED
      BY <1>2, <2>1, <2>2, UpReturn
  <2> QED
    BY <1>2, <2>3, JoinEmpty
<1>5. ASSUME link = "cut"
      PROVE  s2c = << >> /\ ~late[t] /\ ran[t] = "ok"
  <2>1. CutTalk(call[t], << >>, t, cbuf, s2c, late[t], ran[t])
    BY <1>1, <1>2, <1>5 DEF IInv, Core, CutInv, CutClient
  <2> QED
    BY <1>2, <2>1, CutTalkReturn
<1>6. "SUCCESS" \in Results
  BY DEF Results
<1>7. Core'
  BY <1>1, <1>3, <1>4, <1>5, <1>6, ReleaseStep
<1> QED
  BY <1>3, <1>4, <1>5, <1>7

\* The process of the client ends.
LEMMA ExitStep ==
  ASSUME CallsAreConversations, IInv, Exit
  PROVE  Core'
<1> DEFINE last == Packet("Terminate", {}, NoThread)
<1>1. /\ client = "running" /\ (\A t \in Threads : phase[t] = "idle")
      /\ client' = "exited" /\ link' = "cut"
      /\ c2s' = (IF haveStream /\ link = "up" THEN c2s \o cbuf \o <<last>> ELSE c2s)
      /\ cbuf' = << >> /\ sbuf' = << >> /\ s2c' = << >>
      /\ haveStream' = haveStream /\ lock' = lock /\ phase' = phase /\ call' = call
      /\ todo' = todo /\ result' = result /\ orphans' = orphans /\ late' = late
      /\ UNCHANGED serverVars /\ UNCHANGED ran
  BY DEF Exit
<1>2. lock = NoThread
  BY <1>1 DEF IInv, Core, Types, ClientTypes, LockInv
<1>3. ClientTypes'
  BY <1>1 DEF IInv, Core, Types, ClientTypes
<1>4. LockInv'
  BY <1>1, <1>2 DEF IInv, Core, LockInv
<1>5. last \in PacketsA /\ last.ty = "Terminate"
  <2>1. "Terminate" \in Tags
    BY DEF Tags
  <2> QED
    BY <2>1 DEF Packet, PacketsA
<1>6. ASSUME link = "up"
      PROVE  /\ job \in Resting /\ c2s' \in Seq(PacketsA)
             /\ c2s' = << >> \/ (Len(c2s') = 1 /\ c2s'[1].ty = "Terminate")
  <2>1. c2s = << >> /\ cbuf = << >> /\ job \in Resting
    BY <1>2, <1>6 DEF IInv, Core, UpInv
  <2> HIDE DEF last
  <2>2. c2s \o cbuf \o <<last>> = <<last>>
    BY <2>1
  <2>3. <<last>> \in Seq(PacketsA) /\ Len(<<last>>) = 1 /\ <<last>>[1].ty = "Terminate"
    BY <1>5
  <2>4. c2s' = << >> \/ c2s' = <<last>>
    BY <1>1, <2>1, <2>2
  <2>5. << >> \in Seq(PacketsA)
    OBVIOUS
  <2>6. c2s' \in Seq(PacketsA)
    BY <2>3, <2>4, <2>5
  <2>7. c2s' = << >> \/ (Len(c2s') = 1 /\ c2s'[1].ty = "Terminate")
    BY <2>3, <2>4
  <2> QED
    BY <2>1, <2>6, <2>7
<1>7. ASSUME link = "cut"
      PROVE  c2s' = c2s
  BY <1>1, <1>7
<1>8. link \in {"up", "cut"} /\ c2s \in Seq(PacketsA) /\ << >> \in Seq(PacketsA)
  BY DEF IInv, Core, Types, StreamTypes
<1>9. c2s' \in Seq(PacketsA)
  BY <1>6, <1>7, <1>8
<1>10. Types'
  BY <1>1, <1>3, <1>8, <1>9, RestKeeps DEF IInv, Core, Types, StreamTypes
<1>11. UpInv'
  BY <1>1 DEF UpInv
<1>12. job' = job
  BY <1>1 DEF serverVars
<1>13. CutServer(c2s', job)
  <2>1. CASE link = "up"
    BY <1>6, <2>1 DEF CutServer, AtRest
  <2>2. CASE link = "cut"
    BY <1>7, <2>2 DEF IInv, Core, CutInv
  <2> QED
    BY <1>8, <2>1, <2>2
<1>14. CutInv'
  BY <1>1, <1>2, <1>12, <1>13 DEF CutInv, CutClient
<1> QED
  BY <1>4, <1>10, <1>11, <1>14 DEF IInv, Core

-----------------------------------------------------------------------------
(* The actions of the server, and the loss of the connection. *)

\* What is left to the client when the connection is lost, or packets are lost
\* after that.
LEMMA LoseClient ==
  ASSUME CallsAreConversations, IInv, UNCHANGED clientVars, UNCHANGED ran, cbuf' = cbuf,
         NEW n \in 0 .. Len(s2c), s2c' = Front(s2c, n)
  PROVE  CutClient' /\ s2c' \in Seq(PacketsA)
<1>1. lock' = lock /\ call' = call /\ todo' = todo /\ late' = late /\ ran' = ran
  BY DEF clientVars
<1>2. /\ c2s \in Seq(PacketsA) /\ cbuf \in Seq(PacketsA)
      /\ s2c \in Seq(PacketsA) /\ sbuf \in Seq(PacketsA)
      /\ link \in {"up", "cut"} /\ lock \in Threads \cup {NoThread} /\ late \in [Threads -> BOOLEAN]
  BY DEF IInv, Core, Types, ClientTypes, StreamTypes
<1>3. /\ s2c' \in Seq(PacketsA) /\ IsStart(s2c', s2c \o sbuf) /\ IsStart(s2c', s2c)
      /\ s2c = << >> => s2c' = << >>
  BY <1>2, FrontStarts
<1>4. CASE lock = NoThread
  <2>1. s2c = << >>
    BY <1>2, <1>4 DEF IInv, Core, UpInv, CutInv, CutClient
  <2> QED
    BY <1>1, <1>3, <1>4, <2>1 DEF CutClient
<1>5. CASE lock \in Threads
  <2>1. phase[lock] = "locked"
    BY <1>5 DEF IInv, Core, LockInv
  <2>2. /\ lock # NoThread /\ call[lock] \in Calls /\ Conversation(call[lock])
        /\ c2s \o cbuf \in Seq(PacketsA) /\ s2c \o sbuf \in Seq(PacketsA)
    BY <1>5, <2>1, Holder
  <2>3. CASE link = "up"
    <3>1. UpTalk(call[lock], todo[lock], lock, c2s \o cbuf, s2c \o sbuf, job, request.by, ran[lock])
      BY <2>2, <2>3 DEF IInv, Core, UpInv
    <3>2. cbuf # << >> => c2s \o cbuf # << >>
      BY <1>2, JoinEmpty
    <3>3. late[lock] = FALSE
      BY <1>2, <1>5, <2>3 DEF IInv, Core, LockInv
    <3> DEFINE U == c2s \o cbuf
               V == s2c \o sbuf
    <3>4. /\ U \in Seq(PacketsA) /\ V \in Seq(PacketsA) /\ IsStart(s2c', V)
          /\ UpTalk(call[lock], todo[lock], lock, U, V, job, request.by, ran[lock]) /\ (cbuf # << >> => U # << >>)
      BY <1>3, <2>2, <3>1, <3>2
    <3>5. CutTalk(call[lock], todo[lock], lock, cbuf, s2c', FALSE, ran[lock])
      <4> DEFINE r == ran[lock]
                 T == todo[lock]
                 c == call[lock]
                 S == s2c'
      <4>1. /\ U \in Seq(PacketsA) /\ V \in Seq(PacketsA) /\ IsStart(S, V) /\ S \in Seq(PacketsA)
            /\ UpTalk(c, T, lock, U, V, job, request.by, r) /\ (cbuf # << >> => U # << >>)
            /\ c \in Calls /\ Conversation(c)
        BY <1>3, <2>2, <3>4
      <4> HIDE DEF U, V, r, T, c, S
      <4>2. CutTalk(c, T, lock, cbuf, S, FALSE, r)
        BY <4>1, UpCutClient
      <4> QED
        BY <4>2 DEF r, T, c, S
    <3> QED
      BY <1>1, <1>3, <2>2, <3>3, <3>5 DEF CutClient
  <2>4. CASE link = "cut"
    <3>1. CutTalk(call[lock], todo[lock], lock, cbuf, s2c, late[lock], ran[lock])
      BY <2>2, <2>4 DEF IInv, Core, CutInv, CutClient
    <3>2. CutTalk(call[lock], todo[lock], lock, cbuf, s2c', late[lock], ran[lock])
      <4> DEFINE r == ran[lock]
                 T == todo[lock]
                 c == call[lock]
                 S == s2c
                 Z == s2c'
                 l == late[lock]
      <4>1. /\ S \in Seq(PacketsA) /\ Z \in Seq(PacketsA) /\ IsStart(Z, S)
            /\ CutTalk(c, T, lock, cbuf, S, l, r) /\ c \in Calls /\ Conversation(c)
        BY <1>2, <1>3, <2>2, <3>1
      <4> HIDE DEF r, T, c, S, Z, l
      <4>2. CutTalk(c, T, lock, cbuf, Z, l, r)
        BY <4>1, CutTalkShorter
      <4> QED
        BY <4>2 DEF r, T, c, Z, l
    <3> QED
      BY <1>1, <1>3, <2>2, <3>2 DEF CutClient
  <2> QED
    BY <1>2, <2>3, <2>4
<1> QED
  BY <1>2, <1>4, <1>5, <1>3

\* The connection is lost.
LEMMA CutStep ==
  ASSUME CallsAreConversations, IInv, Cut
  PROVE  Core'
<1>1. /\ link = "up" /\ link' = "cut" /\ cbuf' = cbuf /\ sbuf' = sbuf
      /\ UNCHANGED clientVars /\ UNCHANGED serverVars /\ UNCHANGED ran
      /\ \E n \in 0 .. Len(c2s) : c2s' = Front(c2s, n)
      /\ \E n \in 0 .. Len(s2c) : s2c' = Front(s2c, n)
  BY DEF Cut, Lose
<1>2. CutClient' /\ s2c' \in Seq(PacketsA)
  BY <1>1, LoseClient
<1>3. /\ c2s \in Seq(PacketsA) /\ cbuf \in Seq(PacketsA) /\ sbuf \in Seq(PacketsA)
      /\ lock \in Threads \cup {NoThread} /\ ClientTypes /\ LockInv
  BY DEF IInv, Core, Types, ClientTypes, StreamTypes
<1>4. /\ c2s' \in Seq(PacketsA) /\ IsStart(c2s', c2s \o cbuf)
      /\ c2s = << >> => c2s' = << >>
  <2>1. PICK n \in 0 .. Len(c2s) : c2s' = Front(c2s, n)
    BY <1>1
  <2> QED
    BY <1>3, <2>1, FrontStarts
<1>5. ClientTypes' /\ LockInv'
  BY <1>1, <1>3, ClientKeeps
<1>6. StreamTypes'
  BY <1>1, <1>2, <1>3, <1>4 DEF StreamTypes
<1>7. CutServer(c2s', job)
  <2>1. CASE lock = NoThread
    <3>1. c2s' = << >> /\ job \in Resting
      BY <1>1, <1>4, <2>1 DEF IInv, Core, UpInv
    <3> QED
      BY <3>1 DEF CutServer, AtRest
  <2>2. CASE lock \in Threads
    <3>1. phase[lock] = "locked"
      BY <2>2 DEF IInv, Core, LockInv
    <3>2. /\ lock # NoThread /\ call[lock] \in Calls /\ Conversation(call[lock])
          /\ c2s \o cbuf \in Seq(PacketsA) /\ s2c \o sbuf \in Seq(PacketsA)
      BY <2>2, <3>1, Holder
    <3> DEFINE U == c2s \o cbuf
               V == s2c \o sbuf
    <3>3. /\ U \in Seq(PacketsA) /\ V \in Seq(PacketsA) /\ IsStart(c2s', U)
          /\ UpTalk(call[lock], todo[lock], lock, U, V, job, request.by, ran[lock])
      BY <1>1, <1>4, <3>2 DEF IInv, Core, UpInv
    <3> HIDE DEF U, V
    <3> QED
      BY <1>4, <2>2, <3>2, <3>3, UpCutServer
  <2> QED
    BY <1>3, <2>1, <2>2
<1>8. job' = job
  BY <1>1 DEF serverVars
<1>9. CutInv'
  BY <1>2, <1>7, <1>8 DEF CutInv
<1>10. UpInv'
  BY <1>1 DEF UpInv
<1>11. Types'
  BY <1>1, <1>5, <1>6, RestKeeps DEF IInv, Core, Types
<1> QED
  BY <1>5, <1>9, <1>10, <1>11 DEF IInv, Core

\* The server stops.
LEMMA StopsStep ==
  ASSUME CallsAreConversations, IInv, NEW how \in {"ended", "aborted"}, ServerStops(how),
         UNCHANGED clientVars, UNCHANGED ran
  PROVE  Core'
<1>1. /\ server' = how /\ job' = << >> /\ request' = NoPacket /\ link' = "cut"
      /\ c2s' = << >> /\ sbuf' = << >> /\ userEvent' = userEvent /\ cbuf' = cbuf
      /\ \E n \in 0 .. Len(s2c) : s2c' = Front(s2c, n)
  BY DEF ServerStops
<1>2. CutClient' /\ s2c' \in Seq(PacketsA)
  BY <1>1, LoseClient
<1>3. ClientTypes /\ LockInv /\ cbuf \in Seq(PacketsA) /\ userEvent \in {"pending", "complete"}
  BY DEF IInv, Core, Types, StreamTypes, ServerTypes
<1>4. ClientTypes' /\ LockInv'
  BY <1>1, <1>3, ClientKeeps
<1>5. << >> \in Seq(PacketsA) /\ << >> \in Seq(StepsA) /\ NoPacket \in PacketsA
  <2>1. NoPacket \in PacketsA
    BY DEF NoPacket, Packet, PacketsA, Tags
  <2> QED
    BY <2>1
<1>6. StreamTypes'
  BY <1>1, <1>2, <1>3, <1>5 DEF StreamTypes
<1>7. ServerTypes'
  BY <1>1, <1>3, <1>5 DEF ServerTypes
<1>8. Types'
  BY <1>4, <1>6, <1>7, RestKeeps DEF IInv, Core, Types
<1>9. CutServer(<< >>, << >>)
  BY DEF CutServer, AtRest, Resting
<1>10. CutInv'
  BY <1>1, <1>2, <1>9 DEF CutInv
<1>11. UpInv'
  BY <1>1 DEF UpInv
<1> QED
  BY <1>4, <1>8, <1>10, <1>11 DEF IInv, Core

\* The server goes on with its handler.
LEMMA GoesOnStep ==
  ASSUME CallsAreConversations, IInv, NEW steps \in Seq(StepsA), ServerGoesOn(steps),
         UNCHANGED clientVars, ran' \in [Threads -> {"no", "ok", "failed"}],
         userEvent' \in {"pending", "complete"}, link' = link, StreamTypes',
         link = "up" /\ lock = NoThread =>
           /\ cbuf' = << >> /\ c2s' = << >> /\ sbuf' = << >> /\ s2c' = << >> /\ steps \in Resting,
         link = "up" /\ lock # NoThread =>
           UpTalk(call[lock], todo[lock], lock, c2s' \o cbuf', s2c' \o sbuf', steps, request.by, ran'[lock]),
         link = "cut" => CutServer(c2s', steps) /\ s2c' = s2c /\ cbuf' = cbuf,
         link = "cut" /\ lock # NoThread => ran'[lock] = ran[lock] \/ ran[lock] = "no"
  PROVE  Core'
<1>1. /\ job' = steps
      /\ steps = << >> => server' = "idle" /\ request' = NoPacket
      /\ steps # << >> => server' = "handling" /\ request' = request
  BY DEF ServerGoesOn
<1>2. ClientTypes /\ LockInv /\ request \in PacketsA /\ lock \in Threads \cup {NoThread}
  BY DEF IInv, Core, Types, ServerTypes, ClientTypes
<1>3. /\ ClientTypes' /\ LockInv' /\ lock' = lock /\ call' = call /\ todo' = todo /\ late' = late
  BY <1>2, ClientKeeps
<1>4. NoPacket \in PacketsA
  BY DEF NoPacket, Packet, PacketsA, Tags
<1>5. ServerTypes'
  <2>1. CASE steps = << >>
    BY <1>1, <1>4, <2>1 DEF ServerTypes
  <2>2. CASE steps # << >>
    BY <1>1, <1>2, <2>2 DEF ServerTypes
  <2> QED
    BY <2>1, <2>2
<1>6. Types'
  BY <1>3, <1>5 DEF Types
<1>7. ASSUME link = "up", lock # NoThread
      PROVE  UpTalk(call[lock], todo[lock], lock, c2s' \o cbuf', s2c' \o sbuf', job', request'.by, ran'[lock])
  <2>1. lock \in Threads /\ phase[lock] = "locked"
    BY <1>2, <1>7 DEF LockInv
  <2>2. call[lock] \in Calls /\ Conversation(call[lock])
    BY <2>1, Holder
  <2>3. CASE steps = << >>
    BY <1>1, <1>7, <2>2, <2>3, UpAnyBy
  <2>4. CASE steps # << >>
    BY <1>1, <1>7, <2>4
  <2> QED
    BY <2>3, <2>4
<1>8. server' \in {"idle", "handling"}
  BY <1>1
<1>9. UpInv'
  BY <1>1, <1>3, <1>7, <1>8 DEF UpInv
<1>10. CutInv'
  <2> SUFFICES ASSUME link = "cut", lock # NoThread
               PROVE  CutTalk(call[lock], todo[lock], lock, cbuf, s2c, late[lock], ran'[lock])
    BY <1>1, <1>3 DEF IInv, Core, CutInv, CutClient
  <2>1. CutTalk(call[lock], todo[lock], lock, cbuf, s2c, late[lock], ran[lock])
    BY DEF IInv, Core, CutInv, CutClient
  <2> QED
    BY <2>1, CutTalkRan
<1> QED
  BY <1>3, <1>6, <1>9, <1>10 DEF IInv, Core

\* The call that has the connection, and what is said in it.
LEMMA UpHolder ==
  ASSUME CallsAreConversations, IInv, link = "up", lock # NoThread
  PROVE  /\ lock \in Threads /\ call[lock] \in Calls /\ Conversation(call[lock])
         /\ c2s \o cbuf \in Seq(PacketsA) /\ s2c \o sbuf \in Seq(PacketsA)
         /\ UpTalk(call[lock], todo[lock], lock, c2s \o cbuf, s2c \o sbuf, job, request.by, ran[lock])
<1>1. lock \in Threads
  BY DEF IInv, Core, Types, ClientTypes
<1>2. phase[lock] = "locked"
  BY <1>1 DEF IInv, Core, LockInv
<1>3. /\ call[lock] \in Calls /\ Conversation(call[lock])
      /\ c2s \o cbuf \in Seq(PacketsA) /\ s2c \o sbuf \in Seq(PacketsA)
  BY <1>1, <1>2, Holder
<1>4. UpTalk(call[lock], todo[lock], lock, c2s \o cbuf, s2c \o sbuf, job, request.by, ran[lock])
  BY DEF IInv, Core, UpInv
<1> QED
  BY <1>1, <1>3, <1>4

\* What the server finds when it waits for a request.
LEMMA ServerFindsRequest ==
  ASSUME CallsAreConversations, IInv, server = "idle", c2s # << >>
  PROVE  /\ Head(c2s).ty \in Requests \cup {"Terminate"}
         /\ Head(c2s).ty \in Requests =>
              /\ \E d \in Calls : Append(Handlers(Head(c2s).opts)[Head(c2s).ty], F) = Handler(d)
              /\ link = "up" =>
                   /\ lock # NoThread
                   /\ UpTalk(call[lock], todo[lock], lock, c2s \o cbuf, s2c \o sbuf,
                             Append(Handlers(Head(c2s).opts)[Head(c2s).ty], F), Head(c2s).by, ran[lock])
              /\ link = "cut" =>
                   CutServer(c2s, Append(Handlers(Head(c2s).opts)[Head(c2s).ty], F))
<1>1. /\ job = << >> /\ link \in {"up", "cut"}
      /\ c2s \in Seq(PacketsA) /\ cbuf \in Seq(PacketsA)
  BY DEF IInv, Core, Types, ServerTypes, StreamTypes
<1>2. CASE link = "up"
  <2>1. lock # NoThread
    BY <1>2 DEF IInv, Core, UpInv
  <2> DEFINE U == c2s \o cbuf
             V == s2c \o sbuf
  <2>2. /\ call[lock] \in Calls /\ Conversation(call[lock])
        /\ U \in Seq(PacketsA) /\ V \in Seq(PacketsA)
        /\ UpTalk(call[lock], todo[lock], lock, U, V, << >>, request.by, ran[lock])
    BY <1>1, <1>2, <2>1, UpHolder
  <2>3. U # << >> /\ Head(U) = Head(c2s)
    BY <1>1, JoinTail
  <2> HIDE DEF U, V
  <2>4. /\ Head(U).ty \in Requests
        /\ Append(Handlers(Head(U).opts)[Head(U).ty], F) = Handler(call[lock])
        /\ UpTalk(call[lock], todo[lock], lock, U, V,
                  Append(Handlers(Head(U).opts)[Head(U).ty], F), Head(U).by, ran[lock])
    BY <2>2, <2>3, UpPeek
  <2> QED
    BY <1>2, <2>1, <2>2, <2>3, <2>4 DEF U, V
<1>3. CASE link = "cut"
  <2>1. CutServer(c2s, << >>)
    BY <1>1, <1>3 DEF IInv, Core, CutInv
  <2> QED
    BY <1>1, <1>3, <2>1, CutPeek
<1> QED
  BY <1>1, <1>2, <1>3

\* The server takes a request, or ends.
LEMMA ServerPeekStep ==
  ASSUME CallsAreConversations, IInv, ServerPeek
  PROVE  Core'
<1>1. server = "idle" /\ UNCHANGED clientVars /\ UNCHANGED ran
  BY DEF ServerPeek
<1>2. CASE /\ c2s # << >> /\ Head(c2s).ty \in Requests
           /\ server' = "handling" /\ request' = Head(c2s)
           /\ job' = Append(Handlers(Head(c2s).opts)[Head(c2s).ty], F)
           /\ UNCHANGED <<userEvent, streamVars>>
  <2> DEFINE H == Append(Handlers(Head(c2s).opts)[Head(c2s).ty], F)
  <2>1. /\ \E d \in Calls : H = Handler(d)
        /\ link = "up" => /\ lock # NoThread
                          /\ UpTalk(call[lock], todo[lock], lock, c2s \o cbuf, s2c \o sbuf,
                                    H, Head(c2s).by, ran[lock])
        /\ link = "cut" => CutServer(c2s, H)
    BY <1>1, <1>2, ServerFindsRequest
  <2>2. job' = H
    BY <1>2
  <2> HIDE DEF H
  <2>3. H \in Seq(StepsA) /\ H # << >>
    <3>1. PICK d \in Calls : H = Handler(d)
      BY <2>1
    <3>2. Conversation(d)
      BY DEF CallsAreConversations
    <3>3. Handler(d) \in Seq(StepsA) /\ Len(Handler(d)) > 0
      BY <3>2, ScriptTypes
    <3> QED
      BY <3>1, <3>3, NoElements
  <2>4. Head(c2s) \in PacketsA /\ userEvent \in {"pending", "complete"}
    <3>1. c2s \in Seq(PacketsA) /\ userEvent \in {"pending", "complete"}
      BY DEF IInv, Core, Types, StreamTypes, ServerTypes
    <3> QED
      BY <1>2, <3>1, TailTaken
  <2>5. ServerTypes'
    BY <1>2, <2>2, <2>3, <2>4 DEF ServerTypes
  <2>6. /\ UNCHANGED streamVars /\ link' = link /\ cbuf' = cbuf /\ c2s' = c2s
        /\ sbuf' = sbuf /\ s2c' = s2c /\ request'.by = Head(c2s).by /\ ran' = ran
    BY <1>1, <1>2 DEF streamVars
  <2>7. ClientTypes /\ LockInv
    BY DEF IInv, Core, Types
  <2>8. ClientTypes' /\ LockInv' /\ lock' = lock /\ call' = call /\ todo' = todo /\ late' = late
    BY <1>1, <2>6, <2>7, ClientKeeps
  <2>9. Types'
    BY <1>1, <2>5, <2>6, <2>8, RestKeeps DEF IInv, Core, Types
  <2>10. UpInv'
    BY <1>2, <2>1, <2>2, <2>6, <2>8 DEF UpInv
  <2>11. CutInv'
    BY <2>1, <2>2, <2>6, <2>8 DEF IInv, Core, CutInv, CutClient
  <2> QED
    BY <2>8, <2>9, <2>10, <2>11 DEF IInv, Core
<1>3. CASE \E how \in {"ended", "aborted"} : ServerStops(how)
  BY <1>1, <1>3, StopsStep
<1> QED
  BY <1>2, <1>3 DEF ServerPeek

\* Between two calls the server only flushes.
LEMMA Busy ==
  ASSUME IInv, link = "up", NEW do, NextIs(job, do), do # "flush"
  PROVE  lock # NoThread
<1> SUFFICES ASSUME lock = NoThread PROVE FALSE
  OBVIOUS
<1>1. job \in Resting /\ job # << >>
  BY DEF IInv, Core, UpInv, NextIs
<1>2. job = <<F>>
  BY <1>1 DEF Resting
<1> QED
  BY <1>2, FirstSteps DEF NextIs

\* What the server finds when it reads.
LEMMA ServerFinds ==
  ASSUME CallsAreConversations, IInv, NextIs(job, "read"), c2s # << >>
  PROVE  /\ Head(c2s).ty = Head(job).ty
         /\ link = "up" =>
              /\ lock # NoThread
              /\ UpTalk(call[lock], todo[lock], lock, Tail(c2s) \o cbuf, s2c \o sbuf,
                        Tail(job), request.by, ran[lock])
         /\ link = "cut" => CutServer(Tail(c2s), Tail(job))
<1>1. /\ link \in {"up", "cut"} /\ c2s \in Seq(PacketsA) /\ cbuf \in Seq(PacketsA)
  BY DEF IInv, Core, Types, StreamTypes
<1>2. CASE link = "up"
  <2>1. lock # NoThread
    BY <1>2, Busy
  <2> DEFINE U == c2s \o cbuf
             V == s2c \o sbuf
  <2>2. /\ call[lock] \in Calls /\ Conversation(call[lock])
        /\ U \in Seq(PacketsA) /\ V \in Seq(PacketsA)
        /\ UpTalk(call[lock], todo[lock], lock, U, V, job, request.by, ran[lock])
    BY <1>1, <1>2, <2>1, UpHolder
  <2>3. U # << >> /\ Head(U) = Head(c2s) /\ Tail(c2s) \o cbuf = Tail(U)
    BY <1>1, JoinTail
  <2> HIDE DEF U, V
  <2>4. Head(U).ty = Head(job).ty /\ UpTalk(call[lock], todo[lock], lock, Tail(U), V, Tail(job), request.by, ran[lock])
    BY <2>2, <2>3, UpServerRead
  <2> QED
    BY <1>2, <2>1, <2>3, <2>4 DEF V
<1>3. CASE link = "cut"
  <2>1. CutServer(c2s, job)
    BY <1>3 DEF IInv, Core, CutInv
  <2> QED
    BY <1>1, <1>3, <2>1, CutServerRead DEF NextIs
<1> QED
  BY <1>1, <1>2, <1>3

\* The server reads.
LEMMA ServerReadStep ==
  ASSUME CallsAreConversations, IInv, ServerRead
  PROVE  Core'
<1>1. Doing("read") /\ UNCHANGED clientVars /\ UNCHANGED ran
  BY DEF ServerRead
<1>2. NextIs(job, "read") /\ job # << >>
  BY <1>1 DEF Doing, NextIs
<1>3. CASE /\ c2s # << >> /\ c2s' = Tail(c2s) /\ ServerGoesOn(Tail(job))
           /\ UNCHANGED <<link, cbuf, sbuf, s2c, userEvent>>
  <2>1. /\ c2s \in Seq(PacketsA) /\ job \in Seq(StepsA) /\ StreamTypes
        /\ userEvent \in {"pending", "complete"} /\ ran \in [Threads -> {"no", "ok", "failed"}]
    BY DEF IInv, Core, Types, StreamTypes, ServerTypes
  <2>2. Tail(c2s) \in Seq(PacketsA)
    BY <1>3, <2>1, TailTaken
  <2>3. Tail(job) \in Seq(StepsA)
    BY <1>2, <2>1, TailTaken
  <2>4. StreamTypes'
    BY <1>3, <2>1, <2>2 DEF StreamTypes
  <2>5. /\ link = "up" =>
             /\ lock # NoThread
             /\ UpTalk(call[lock], todo[lock], lock, c2s' \o cbuf', s2c' \o sbuf', Tail(job), request.by, ran[lock])
        /\ link = "cut" => CutServer(c2s', Tail(job))
    BY <1>2, <1>3, ServerFinds
  <2> DEFINE steps == Tail(job)
  <2>6. /\ steps \in Seq(StepsA) /\ ServerGoesOn(steps)
        /\ link = "up" =>
             /\ lock # NoThread
             /\ UpTalk(call[lock], todo[lock], lock, c2s' \o cbuf', s2c' \o sbuf', steps, request.by, ran[lock])
        /\ link = "cut" => CutServer(c2s', steps)
    BY <1>3, <2>3, <2>5
  <2> HIDE DEF steps
  <2>7. /\ ran' \in [Threads -> {"no", "ok", "failed"}] /\ userEvent' \in {"pending", "complete"}
        /\ link' = link /\ s2c' = s2c /\ cbuf' = cbuf
    BY <1>1, <1>3, <2>1
  <2> QED
    BY <1>1, <2>4, <2>6, <2>7, GoesOnStep
<1>4. CASE \E how \in {"ended", "aborted"} : ServerStops(how)
  BY <1>1, <1>4, StopsStep
<1> QED
  BY <1>3, <1>4 DEF ServerRead

\* The server has the rest of its handler left, and what else it needs.
LEMMA ServerHas ==
  ASSUME IInv, job # << >>
  PROVE  /\ job \in Seq(StepsA) /\ Tail(job) \in Seq(StepsA) /\ Head(job) \in StepsA
         /\ request.by \in Threads \cup {NoThread} /\ link \in {"up", "cut"}
         /\ s2c \in Seq(PacketsA) /\ sbuf \in Seq(PacketsA)
         /\ StreamTypes /\ userEvent \in {"pending", "complete"}
         /\ ran \in [Threads -> {"no", "ok", "failed"}]
<1>1. /\ job \in Seq(StepsA) /\ request \in PacketsA /\ link \in {"up", "cut"}
      /\ s2c \in Seq(PacketsA) /\ sbuf \in Seq(PacketsA)
      /\ StreamTypes /\ userEvent \in {"pending", "complete"}
      /\ ran \in [Threads -> {"no", "ok", "failed"}]
  BY DEF IInv, Core, Types, StreamTypes, ServerTypes
<1>2. Tail(job) \in Seq(StepsA) /\ Head(job) \in StepsA
  BY <1>1, TailTaken
<1>3. request.by \in Threads \cup {NoThread}
  BY <1>1 DEF PacketsA
<1> QED
  BY <1>1, <1>2, <1>3

\* After the loss of the connection the server takes a step that reads nothing.
LEMMA CutGoesOn ==
  ASSUME CallsAreConversations, IInv, link = "cut", NEW do, NextIs(job, do), do # "read"
  PROVE  CutServer(c2s, Tail(job))
<1>1. CutServer(c2s, job) /\ c2s \in Seq(PacketsA)
  BY DEF IInv, Core, CutInv, Types, StreamTypes
<1>2. job # << >> /\ Head(job).do # "read"
  BY DEF NextIs
<1> QED
  BY <1>1, <1>2, CutServerStep

\* The server writes.
LEMMA ServerWriteStep ==
  ASSUME CallsAreConversations, IInv, ServerWrite
  PROVE  Core'
<1> DEFINE packet == Packet(Head(job).ty, {}, request.by)
           all    == Append(sbuf, packet)
           steps  == Tail(job)
<1>1. Doing("write") /\ UNCHANGED clientVars /\ UNCHANGED ran
  BY DEF ServerWrite
<1>2. NextIs(job, "write") /\ job # << >>
  BY <1>1 DEF Doing, NextIs
<1>3. /\ job \in Seq(StepsA) /\ steps \in Seq(StepsA) /\ request.by \in Threads \cup {NoThread}
      /\ s2c \in Seq(PacketsA) /\ sbuf \in Seq(PacketsA)
      /\ StreamTypes /\ userEvent \in {"pending", "complete"}
      /\ ran \in [Threads -> {"no", "ok", "failed"}]
  BY <1>2, ServerHas
<1>4. packet \in PacketsA
  BY <1>2, <1>3, PacketType
<1>5. ASSUME link = "up"
      PROVE  /\ lock # NoThread
             /\ UpTalk(call[lock], todo[lock], lock, c2s \o cbuf, Append(s2c \o sbuf, packet),
                       steps, request.by, ran[lock])
  <2>1. lock # NoThread
    BY <1>2, <1>5, Busy
  <2> DEFINE U == c2s \o cbuf
             V == s2c \o sbuf
  <2>2. /\ call[lock] \in Calls /\ Conversation(call[lock])
        /\ U \in Seq(PacketsA) /\ V \in Seq(PacketsA)
        /\ UpTalk(call[lock], todo[lock], lock, U, V, job, request.by, ran[lock])
    BY <1>5, <2>1, UpHolder
  <2> DEFINE x == packet
  <2>3. x = Packet(Head(job).ty, {}, request.by) /\ x \in PacketsA
    BY <1>4
  <2> HIDE DEF U, V, x
  <2>4. UpTalk(call[lock], todo[lock], lock, U, Append(V, x), Tail(job), request.by, ran[lock])
    BY <1>2, <2>2, <2>3, UpServerWrite
  <2> QED
    BY <2>1, <2>4 DEF U, V, x
<1>6. link = "cut" => CutServer(c2s, steps)
  BY <1>2, CutGoesOn
<1>7. CASE /\ link = "up"
           /\ \E k \in 0 .. Len(all) : s2c' = s2c \o Front(all, k) /\ sbuf' = Rest(all, k)
           /\ ServerGoesOn(steps) /\ UNCHANGED <<link, cbuf, c2s, userEvent>>
  <2>1. ServerGoesOn(steps) /\ link = "up" /\ link' = link /\ cbuf' = cbuf /\ c2s' = c2s
        /\ userEvent' = userEvent
    BY <1>7
  <2>2. PICK k \in 0 .. Len(all) : s2c' = s2c \o Front(all, k) /\ sbuf' = Rest(all, k)
    BY <1>7
  <2> HIDE DEF steps, packet
  <2>3. all \in Seq(PacketsA)
    BY <1>3, <1>4, Appended
  <2>4. s2c \o all = Append(s2c \o sbuf, packet)
    BY <1>3, <1>4, JoinAppend
  <2> HIDE DEF all
  <2>5. s2c' \in Seq(PacketsA) /\ sbuf' \in Seq(PacketsA) /\ s2c' \o sbuf' = s2c \o all
    <3>1. s2c \in Seq(PacketsA)
      BY <1>3
    <3>2. /\ s2c \o Front(all, k) \in Seq(PacketsA) /\ Rest(all, k) \in Seq(PacketsA)
          /\ (s2c \o Front(all, k)) \o Rest(all, k) = s2c \o all
      BY <2>3, <3>1, Moved
    <3> QED
      BY <2>2, <3>2
  <2>6. StreamTypes'
    BY <1>3, <2>1, <2>5 DEF StreamTypes
  <2>7. /\ lock # NoThread
        /\ UpTalk(call[lock], todo[lock], lock, c2s' \o cbuf', s2c' \o sbuf', steps, request.by, ran[lock])
    BY <1>5, <2>1, <2>4, <2>5
  <2>8. /\ ran' \in [Threads -> {"no", "ok", "failed"}] /\ userEvent' \in {"pending", "complete"}
    BY <1>1, <1>3, <2>1
  <2> QED
    BY <1>1, <1>3, <2>1, <2>6, <2>7, <2>8, GoesOnStep
<1>8. CASE /\ link = "cut" /\ sbuf' \in {<< >>, <<packet>>}
           /\ ServerGoesOn(steps) /\ UNCHANGED <<link, cbuf, c2s, s2c, userEvent>>
  <2>1. /\ ServerGoesOn(steps) /\ link = "cut" /\ link' = link /\ cbuf' = cbuf /\ c2s' = c2s
        /\ s2c' = s2c /\ userEvent' = userEvent
    BY <1>8
  <2> HIDE DEF steps
  <2>2. sbuf' \in Seq(PacketsA)
    <3>1. sbuf' \in {<< >>, <<packet>>}
      BY <1>8
    <3> HIDE DEF packet
    <3>2. << >> \in Seq(PacketsA) /\ <<packet>> \in Seq(PacketsA)
      BY <1>4
    <3> QED
      BY <3>1, <3>2
  <2>3. StreamTypes'
    BY <1>3, <2>1, <2>2 DEF StreamTypes
  <2>4. /\ ran' \in [Threads -> {"no", "ok", "failed"}] /\ userEvent' \in {"pending", "complete"}
    BY <1>1, <1>3, <2>1
  <2> QED
    BY <1>1, <1>3, <1>6, <2>1, <2>3, <2>4, GoesOnStep
<1>9. CASE ServerStops("ended")
  BY <1>1, <1>9, StopsStep
<1> QED
  BY <1>7, <1>8, <1>9 DEF ServerWrite

\* The server flushes.
LEMMA ServerFlushStep ==
  ASSUME CallsAreConversations, IInv, ServerFlush
  PROVE  Core'
<1> DEFINE rest == Tail(job)
<1>1. Doing("flush") /\ UNCHANGED clientVars /\ UNCHANGED ran
  BY DEF ServerFlush
<1>2. NextIs(job, "flush") /\ job # << >>
  BY <1>1 DEF Doing, NextIs
<1>3. /\ job \in Seq(StepsA) /\ rest \in Seq(StepsA)
      /\ s2c \in Seq(PacketsA) /\ sbuf \in Seq(PacketsA)
      /\ StreamTypes /\ userEvent \in {"pending", "complete"}
      /\ ran \in [Threads -> {"no", "ok", "failed"}]
  BY <1>2, ServerHas
<1>4. ASSUME link = "up", lock # NoThread
      PROVE  UpTalk(call[lock], todo[lock], lock, c2s \o cbuf, s2c \o sbuf, rest, request.by, ran[lock])
  <2> DEFINE U == c2s \o cbuf
             V == s2c \o sbuf
  <2>1. /\ call[lock] \in Calls /\ Conversation(call[lock])
        /\ U \in Seq(PacketsA) /\ V \in Seq(PacketsA)
        /\ UpTalk(call[lock], todo[lock], lock, U, V, job, request.by, ran[lock])
    BY <1>4, UpHolder
  <2> HIDE DEF U, V
  <2>2. UpTalk(call[lock], todo[lock], lock, U, V, Tail(job), request.by, ran[lock])
    BY <1>2, <2>1, UpServerFlush
  <2> QED
    BY <2>2 DEF U, V
<1>5. link = "cut" => CutServer(c2s, rest)
  BY <1>2, CutGoesOn
<1>6. ASSUME link = "up", lock = NoThread
      PROVE  cbuf = << >> /\ c2s = << >> /\ sbuf = << >> /\ s2c = << >> /\ rest \in Resting
  <2>1. cbuf = << >> /\ c2s = << >> /\ sbuf = << >> /\ s2c = << >> /\ job \in Resting
    BY <1>6 DEF IInv, Core, UpInv
  <2>2. job = <<F>>
    BY <1>2, <2>1 DEF Resting
  <2>3. rest = << >>
    BY <2>2, FirstSteps
  <2> QED
    BY <2>1, <2>3 DEF Resting
<1>7. CASE sbuf = << >> /\ ServerGoesOn(rest) /\ UNCHANGED <<streamVars, userEvent>>
  <2>1. /\ ServerGoesOn(rest) /\ UNCHANGED streamVars
        /\ link' = link /\ cbuf' = cbuf /\ c2s' = c2s /\ sbuf' = sbuf /\ s2c' = s2c
        /\ userEvent' = userEvent
    BY <1>7 DEF streamVars
  <2>2. /\ ran' \in [Threads -> {"no", "ok", "failed"}] /\ userEvent' \in {"pending", "complete"}
        /\ StreamTypes'
    BY <1>1, <1>3, <2>1 DEF StreamTypes
  <2> HIDE DEF rest
  <2> QED
    BY <1>1, <1>3, <1>4, <1>5, <1>6, <2>1, <2>2, GoesOnStep
<1>8. ASSUME link = "up", NEW k \in 1 .. Len(sbuf),
             s2c' = s2c \o Front(sbuf, k), sbuf' = Rest(sbuf, k),
             ServerGoesOn(IF k = Len(sbuf) THEN rest ELSE job),
             UNCHANGED <<link, cbuf, c2s, userEvent>>
      PROVE  Core'
  <2> DEFINE steps == IF k = Len(sbuf) THEN rest ELSE job
  <2>1. k \in 0 .. Len(sbuf) /\ sbuf # << >>
    BY <1>3, <1>8
  <2>2. lock # NoThread
    BY <1>6, <1>8, <2>1
  <2>3. /\ s2c' \in Seq(PacketsA) /\ sbuf' \in Seq(PacketsA) /\ s2c' \o sbuf' = s2c \o sbuf
    <3>1. s2c \in Seq(PacketsA) /\ sbuf \in Seq(PacketsA)
      BY <1>3
    <3>2. /\ s2c \o Front(sbuf, k) \in Seq(PacketsA) /\ Rest(sbuf, k) \in Seq(PacketsA)
          /\ (s2c \o Front(sbuf, k)) \o Rest(sbuf, k) = s2c \o sbuf
      BY <2>1, <3>1, Moved
    <3> QED
      BY <1>8, <3>2
  <2>4. StreamTypes'
    BY <1>3, <1>8, <2>3 DEF StreamTypes
  <2>5. /\ ran' \in [Threads -> {"no", "ok", "failed"}] /\ userEvent' \in {"pending", "complete"}
        /\ c2s' = c2s /\ cbuf' = cbuf /\ link' = link /\ link = "up"
    BY <1>1, <1>3, <1>8
  <2>6. UpTalk(call[lock], todo[lock], lock, c2s \o cbuf, s2c \o sbuf, job, request.by, ran[lock])
    BY <1>8, <2>2, UpHolder
  <2>7. UpTalk(call[lock], todo[lock], lock, c2s' \o cbuf', s2c' \o sbuf', steps, request.by, ran[lock])
    BY <1>4, <1>8, <2>2, <2>3, <2>5, <2>6
  <2>8. steps \in Seq(StepsA) /\ ServerGoesOn(steps)
    BY <1>3, <1>8
  <2> HIDE DEF steps
  <2> QED
    BY <1>1, <2>2, <2>4, <2>5, <2>7, <2>8, GoesOnStep
<1>9. CASE /\ link = "cut" /\ sbuf' = << >> /\ ServerGoesOn(rest)
           /\ UNCHANGED <<link, cbuf, c2s, s2c, userEvent>>
  <2>1. /\ ServerGoesOn(rest) /\ link = "cut" /\ link' = link /\ cbuf' = cbuf /\ c2s' = c2s
        /\ s2c' = s2c /\ userEvent' = userEvent
    BY <1>9
  <2>2. << >> \in Seq(PacketsA)
    OBVIOUS
  <2>3. StreamTypes'
    BY <1>3, <1>9, <2>1, <2>2 DEF StreamTypes
  <2>4. /\ ran' \in [Threads -> {"no", "ok", "failed"}] /\ userEvent' \in {"pending", "complete"}
    BY <1>1, <1>3, <2>1
  <2> HIDE DEF rest
  <2> QED
    BY <1>1, <1>3, <1>5, <2>1, <2>3, <2>4, GoesOnStep
<1>10. CASE ServerStops("ended")
  BY <1>1, <1>10, StopsStep
<1> QED
  BY <1>7, <1>8, <1>9, <1>10 DEF ServerFlush

\* A command has ended.
LEMMA EndedType ==
  ASSUME IInv, NEW outcome \in {"ok", "failed"}, Ended(outcome)
  PROVE  /\ ran' \in [Threads -> {"no", "ok", "failed"}]
         /\ \A u \in Threads \ {request.by} : ran'[u] = ran[u]
         /\ request.by \in orphans => ran' = ran
         /\ request.by \in Threads \ orphans => ran'[request.by] = outcome
<1>1. ran \in [Threads -> {"no", "ok", "failed"}]
  BY DEF IInv, Core, Types
<1> QED
  BY <1>1 DEF Ended

\* The server calls the driver.
LEMMA ServerCallStep ==
  ASSUME CallsAreConversations, IInv, ServerCall
  PROVE  Core'
<1> DEFINE step == Head(job)
           rest == Tail(job)
           fail == Failure(step, rest)
<1>1. /\ \E do \in Commands : Doing(do)
      /\ UNCHANGED clientVars /\ UNCHANGED streamVars
  BY DEF ServerCall
<1>2. PICK do \in Commands : Doing(do)
  BY <1>1
<1>3. NextIs(job, do) /\ job # << >> /\ do \notin {"read", "write", "flush"} /\ step.do \in Commands
  BY <1>2 DEF Doing, NextIs, Commands
<1>4. /\ job \in Seq(StepsA) /\ rest \in Seq(StepsA) /\ link \in {"up", "cut"}
      /\ StreamTypes /\ userEvent \in {"pending", "complete"}
      /\ ran \in [Threads -> {"no", "ok", "failed"}]
  BY <1>3, ServerHas
<1>5. link' = link /\ cbuf' = cbuf /\ c2s' = c2s /\ sbuf' = sbuf /\ s2c' = s2c /\ StreamTypes'
  BY <1>1, <1>4 DEF streamVars, StreamTypes
<1>6. ASSUME link = "up"
      PROVE  /\ lock # NoThread
             /\ ran[lock] = "no" /\ request.by = lock /\ lock \in Threads \ orphans
             /\ UpTalk(call[lock], todo[lock], lock, c2s \o cbuf, s2c \o sbuf, rest, request.by, Carried(rest))
             /\ UpTalk(call[lock], todo[lock], lock, c2s \o cbuf, s2c \o sbuf, fail, request.by, "failed")
  <2>1. lock # NoThread
    BY <1>3, <1>6, Busy
  <2> DEFINE U == c2s \o cbuf
             V == s2c \o sbuf
  <2>4. lock \in Threads \ orphans
    BY <1>6, <2>1, UpHolder DEF IInv, RanInv
  <2>2. /\ call[lock] \in Calls /\ Conversation(call[lock])
        /\ U \in Seq(PacketsA) /\ V \in Seq(PacketsA)
        /\ UpTalk(call[lock], todo[lock], lock, U, V, job, request.by, ran[lock])
    BY <1>6, <2>1, UpHolder
  <2> HIDE DEF U, V
  <2>3. /\ ran[lock] = "no" /\ request.by = lock
        /\ UpTalk(call[lock], todo[lock], lock, U, V, Tail(job), request.by, Carried(Tail(job)))
        /\ UpTalk(call[lock], todo[lock], lock, U, V, Failure(Head(job), Tail(job)), request.by, "failed")
    <3> DEFINE r == ran[lock]
               T == todo[lock]
               c == call[lock]
               J == job
               by == request.by
    <3>1. /\ c \in Calls /\ Conversation(c) /\ U \in Seq(PacketsA) /\ V \in Seq(PacketsA)
          /\ UpTalk(c, T, lock, U, V, J, by, r) /\ NextIs(J, do)
      BY <1>3, <2>2
    <3> HIDE DEF r, T, c, J, by
    <3>2. /\ r = "no" /\ by = lock
          /\ UpTalk(c, T, lock, U, V, Tail(J), by, Carried(Tail(J)))
          /\ UpTalk(c, T, lock, U, V, Failure(Head(J), Tail(J)), by, "failed")
      BY <3>1, UpCommand
    <3> QED
      BY <3>2 DEF r, T, c, J, by
  <2> QED
    BY <2>1, <2>3, <2>4 DEF U, V
<1>7. link = "cut" => CutServer(c2s, rest) /\ CutServer(c2s, fail)
  <2> SUFFICES ASSUME link = "cut" PROVE CutServer(c2s, rest) /\ CutServer(c2s, fail)
    OBVIOUS
  <2>1. CutServer(c2s, job) /\ c2s \in Seq(PacketsA)
    BY DEF IInv, Core, CutInv, Types, StreamTypes
  <2>2. CutServer(c2s, fail)
    BY <1>3, <2>1, CutServerFails
  <2>3. CutServer(c2s, rest)
    BY <1>3, CutGoesOn
  <2> QED
    BY <2>2, <2>3
<1>11. link = "cut" /\ lock # NoThread =>
         (lock \notin orphans /\ request.by = lock => ran[lock] = "no")
  <2> SUFFICES ASSUME link = "cut", lock # NoThread, lock \notin orphans, request.by = lock
               PROVE  ran[lock] = "no"
    OBVIOUS
  <2>1. ~NoCommand(job) /\ lock \in Threads
    BY <1>3, <1>4, TailCommands DEF IInv, Core, Types, ClientTypes
  <2> QED
    BY <2>1 DEF IInv, RanInv, Awaited
<1>12. ASSUME NEW outcome \in {"ok", "failed"}, Ended(outcome)
       PROVE  /\ ran' \in [Threads -> {"no", "ok", "failed"}]
              /\ link = "up" => ran'[lock] = outcome
              /\ link = "cut" /\ lock # NoThread => ran'[lock] = ran[lock] \/ ran[lock] = "no"
  <2>1. /\ ran' \in [Threads -> {"no", "ok", "failed"}]
        /\ \A u \in Threads \ {request.by} : ran'[u] = ran[u]
        /\ request.by \in orphans => ran' = ran
        /\ request.by \in Threads \ orphans => ran'[request.by] = outcome
    BY <1>12, EndedType
  <2>2. lock \in Threads \cup {NoThread}
    BY DEF IInv, Core, Types, ClientTypes
  <2> QED
    BY <1>6, <1>11, <2>1, <2>2
<1>8. fail \in Seq(StepsA)
  <2>1. W("Error") \in StepsA /\ F \in StepsA
    BY DEF W, F, StepsA, Tags
  <2>2. <<W("Error")>> \in Seq(StepsA) /\ <<F>> \in Seq(StepsA)
    BY <2>1
  <2>3. <<W("Error")>> \o rest \in Seq(StepsA) /\ <<W("Error")>> \o <<F>> \in Seq(StepsA)
    BY <1>4, <2>2, Joined
  <2> QED
    BY <2>3 DEF Failure
<1>9. CASE /\ ServerGoesOn(rest)
           /\ userEvent' = (IF step.do = "complete" THEN "complete" ELSE userEvent)
           /\ IF NoCommand(rest) THEN Ended("ok") ELSE UNCHANGED ran
  <2>1. userEvent' \in {"pending", "complete"} /\ ServerGoesOn(rest)
    BY <1>4, <1>9
  <2>2. /\ ran' \in [Threads -> {"no", "ok", "failed"}]
        /\ link = "up" => ran'[lock] = Carried(rest)
        /\ link = "cut" /\ lock # NoThread => ran'[lock] = ran[lock] \/ ran[lock] = "no"
    <3>1. CASE NoCommand(rest)
      BY <1>9, <1>12, <3>1 DEF Carried
    <3>2. CASE ~NoCommand(rest)
      BY <1>4, <1>6, <1>9, <3>2 DEF Carried
    <3> QED
      BY <3>1, <3>2
  <2>3. /\ link = "up" => lock # NoThread
        /\ link = "up" /\ lock # NoThread =>
             UpTalk(call[lock], todo[lock], lock, c2s' \o cbuf', s2c' \o sbuf', rest, request.by, ran'[lock])
    BY <1>5, <1>6, <2>2
  <2> HIDE DEF step, rest, fail
  <2> QED
    BY <1>1, <1>4, <1>5, <1>7, <2>1, <2>2, <2>3, GoesOnStep
<1>10. CASE ServerGoesOn(fail) /\ Ended("failed") /\ UNCHANGED userEvent
  <2>1. userEvent' \in {"pending", "complete"} /\ ServerGoesOn(fail)
    BY <1>4, <1>10
  <2>2. /\ ran' \in [Threads -> {"no", "ok", "failed"}]
        /\ link = "up" => ran'[lock] = "failed"
        /\ link = "cut" /\ lock # NoThread => ran'[lock] = ran[lock] \/ ran[lock] = "no"
    BY <1>10, <1>12
  <2>3. /\ link = "up" => lock # NoThread
        /\ link = "up" /\ lock # NoThread =>
             UpTalk(call[lock], todo[lock], lock, c2s' \o cbuf', s2c' \o sbuf', fail, request.by, ran'[lock])
    BY <1>5, <1>6, <2>2
  <2> HIDE DEF step, rest, fail
  <2> QED
    BY <1>1, <1>5, <1>7, <1>8, <2>1, <2>2, <2>3, GoesOnStep
<1> QED
  BY <1>9, <1>10 DEF ServerCall

-----------------------------------------------------------------------------
(* For whom the server works. *)

\* A step of one thread.
LEMMA ThreadRan ==
  ASSUME IInv, NEW t \in Threads, \A u \in Threads \ {t} : phase'[u] = phase[u],
         phase'[t] = phase[t] \/ phase'[t] # "called",
         UNCHANGED serverVars, UNCHANGED ran, link' = link, link = "cut" => c2s' = c2s,
         orphans' = orphans \/ (link = "cut" /\ orphans' = orphans \cup {t}),
         phase'[t] = phase[t] \/ t \in orphans' \/ phase[t] # "locked" \/ ran[t] # "no"
  PROVE  RanInv'
<1>1. job' = job /\ request' = request /\ ran' = ran
  BY DEF serverVars
<1>2. \A u \in Threads : phase'[u] = "called" => ran'[u] = "no"
  BY <1>1 DEF IInv, RanInv
<1>3. link' = "up" => orphans' = {}
  BY DEF IInv, RanInv
<1>4. ASSUME link = "cut", NEW u \in Threads \ orphans', Awaited(u)'
      PROVE  phase'[u] = "locked" /\ ran'[u] = "no"
  <2>1. u \in Threads \ orphans /\ Awaited(u)
    BY <1>1, <1>4 DEF Awaited
  <2>2. phase[u] = "locked" /\ ran[u] = "no"
    BY <1>4, <2>1 DEF IInv, RanInv
  <2> QED
    BY <1>1, <1>4, <2>2
<1> QED
  BY <1>2, <1>3, <1>4 DEF RanInv

\* A thread calls.
LEMMA InvokeRan ==
  ASSUME CallsAreConversations, IInv, NEW t \in Threads, NEW c \in Calls, Invoke(t, c)
  PROVE  RanInv'
<1>1. /\ phase[t] = "idle" /\ phase' = [phase EXCEPT ![t] = "called"]
      /\ ran' = [ran EXCEPT ![t] = "no"] /\ orphans' = orphans
      /\ link' = link /\ c2s' = c2s /\ job' = job /\ request' = request
  BY DEF Invoke, streamVars, serverVars
<1>2. /\ phase \in [Threads -> {"idle", "called", "locked"}]
      /\ ran \in [Threads -> {"no", "ok", "failed"}]
  BY DEF IInv, Core, Types, ClientTypes
<1>3. /\ phase'[t] = "called" /\ ran'[t] = "no"
      /\ \A u \in Threads \ {t} : phase'[u] = phase[u] /\ ran'[u] = ran[u]
  BY <1>1, <1>2
<1>4. \A u \in Threads : phase'[u] = "called" => ran'[u] = "no"
  BY <1>3 DEF IInv, RanInv
<1>5. link' = "up" => orphans' = {}
  BY <1>1 DEF IInv, RanInv
<1>6. ASSUME link = "cut", NEW u \in Threads \ orphans', Awaited(u)'
      PROVE  phase'[u] = "locked" /\ ran'[u] = "no"
  <2>1. u \in Threads \ orphans /\ Awaited(u)
    BY <1>1, <1>6 DEF Awaited
  <2>2. phase[u] = "locked" /\ ran[u] = "no"
    BY <1>6, <2>1 DEF IInv, RanInv
  <2> QED
    BY <1>1, <1>3, <2>2
<1> QED
  BY <1>1, <1>4, <1>5, <1>6 DEF RanInv

\* What the end of a call changes for the threads.
LEMMA FinishPhase ==
  ASSUME IInv, NEW t \in Threads, NEW r, Finish(t, r)
  PROVE  phase'[t] = "idle" /\ \A u \in Threads \ {t} : phase'[u] = phase[u]
<1>1. phase' = [phase EXCEPT ![t] = "idle"]
  BY DEF Finish
<1>2. phase \in [Threads -> {"idle", "called", "locked"}]
  BY DEF IInv, Core, Types, ClientTypes
<1> QED
  BY <1>1, <1>2

\* A thread is refused, or gets the connection, or there is none.
LEMMA EnterRan ==
  ASSUME CallsAreConversations, IInv, NEW t \in Threads, Reject(t) \/ Acquire(t)
  PROVE  RanInv'
<1>1. /\ phase[t] = "called" /\ orphans' = orphans /\ link' = link /\ c2s' = c2s
      /\ UNCHANGED serverVars /\ UNCHANGED ran
  BY DEF Reject, Acquire, streamVars
<1>2. phase'[t] # "called" /\ \A u \in Threads \ {t} : phase'[u] = phase[u]
  <2>1. CASE \E r : Finish(t, r)
    BY <2>1, FinishPhase
  <2>2. CASE phase' = [phase EXCEPT ![t] = "locked"]
    <3>1. phase \in [Threads -> {"idle", "called", "locked"}]
      BY DEF IInv, Core, Types, ClientTypes
    <3> QED
      BY <2>2, <3>1
  <2> QED
    BY <2>1, <2>2 DEF Reject, Acquire
<1> QED
  BY <1>1, <1>2, ThreadRan

\* A thread goes on with its call, or gives it up.
LEMMA HoldRan ==
  ASSUME CallsAreConversations, IInv, NEW t \in Threads,
         Proceed(t) \/ UNCHANGED clientVars \/ (Throws(t) /\ link = "cut"),
         UNCHANGED serverVars, UNCHANGED ran, link' = link, link = "cut" => c2s' = c2s
  PROVE  RanInv'
<1>1. CASE Proceed(t) \/ UNCHANGED clientVars
  <2>1. phase' = phase /\ orphans' = orphans
    BY <1>1 DEF Proceed, clientVars
  <2> QED
    BY <2>1, ThreadRan
<1>2. CASE Throws(t) /\ link = "cut"
  <2>1. Finish(t, call[t].loss) /\ orphans' = orphans \cup {t} /\ link = "cut"
    BY <1>2 DEF Throws
  <2>2. phase'[t] = "idle" /\ \A u \in Threads \ {t} : phase'[u] = phase[u]
    BY <2>1, FinishPhase
  <2>3. t \in orphans'
    BY <2>1
  <2> QED
    BY <2>1, <2>2, <2>3, ThreadRan
<1> QED
  BY <1>1, <1>2

\* A call of which the command has ended returns.
LEMMA DoneRan ==
  ASSUME CallsAreConversations, IInv, NEW t \in Threads, NEW r, Finish(t, r), ran[t] # "no",
         UNCHANGED serverVars, UNCHANGED ran, link' = link, c2s' = c2s, orphans' = orphans
  PROVE  RanInv'
<1>1. phase'[t] = "idle" /\ \A u \in Threads \ {t} : phase'[u] = phase[u]
  BY FinishPhase
<1> QED
  BY <1>1, ThreadRan

\* A step of the thread that has the connection.
LEMMA HolderRan ==
  ASSUME CallsAreConversations, IInv, NEW t \in Threads, HolderStep(t)
  PROVE  RanInv'
<1>1. CASE ClientWrite(t)
  <2>1. UNCHANGED serverVars /\ UNCHANGED ran /\ link' = link
    BY <1>1 DEF ClientWrite
  <2>2. /\ Proceed(t) \/ UNCHANGED clientVars \/ (Throws(t) /\ link = "cut")
        /\ link = "cut" => c2s' = c2s
    BY <1>1 DEF ClientWrite
  <2> QED
    BY <2>1, <2>2, HoldRan
<1>2. CASE ClientFlush(t)
  <2>1. UNCHANGED serverVars /\ UNCHANGED ran /\ link' = link
    BY <1>2 DEF ClientFlush
  <2>2. /\ Proceed(t) \/ UNCHANGED clientVars \/ (Throws(t) /\ link = "cut")
        /\ link = "cut" => c2s' = c2s
    BY <1>2 DEF ClientFlush
  <2> QED
    BY <2>1, <2>2, HoldRan
<1>3. CASE ClientRead(t)
  <2>1. At(t, "read") /\ UNCHANGED serverVars /\ UNCHANGED ran
    BY <1>3 DEF ClientRead
  <2>2. phase[t] = "locked" /\ NextIs(todo[t], "read")
    BY <2>1 DEF At, NextIs
  <2>3. CASE Proceed(t) /\ UNCHANGED <<link, cbuf, c2s, sbuf>>
    BY <2>1, <2>3, HoldRan
  <2>4. CASE /\ s2c # << >> /\ Head(s2c).ty = "Error"
             /\ Finish(t, call[t].error) /\ UNCHANGED <<link, cbuf, c2s, sbuf, orphans>>
    <3>1. ran[t] # "no"
      BY <2>2, <2>4, ClientFinds
    <3> QED
      BY <2>1, <2>4, <3>1, DoneRan
  <2>5. CASE link = "cut" /\ Throws(t) /\ UNCHANGED streamVars
    BY <2>1, <2>5, HoldRan DEF streamVars
  <2>6. CASE s2c # << >> /\ Head(s2c).ty \notin {Head(todo[t]).ty, "Error"}
    BY <2>2, <2>6, ClientFinds
  <2> QED
    BY <1>3, <2>3, <2>4, <2>5, <2>6 DEF ClientRead
<1>4. CASE Return(t)
  <2>1. ran[t] # "no"
    BY <1>4, ReturnStep
  <2> QED
    BY <1>4, <2>1, DoneRan DEF Return, streamVars
<1> QED
  BY <1>1, <1>2, <1>3, <1>4 DEF HolderStep

\* The process of the client ends.
LEMMA ExitRan ==
  ASSUME CallsAreConversations, IInv, Exit
  PROVE  RanInv'
<1> DEFINE last == Packet("Terminate", {}, NoThread)
<1>1. /\ \A t \in Threads : phase[t] = "idle"
      /\ c2s' = (IF haveStream /\ link = "up" THEN c2s \o cbuf \o <<last>> ELSE c2s)
      /\ link' = "cut" /\ phase' = phase /\ orphans' = orphans /\ ran' = ran
      /\ job' = job /\ request' = request
  BY DEF Exit, serverVars
<1>2. lock = NoThread /\ link \in {"up", "cut"}
  BY <1>1 DEF IInv, Core, Types, ClientTypes, StreamTypes, LockInv
<1>3. CASE link = "up"
  <2>1. c2s = << >> /\ cbuf = << >> /\ job \in Resting
    BY <1>2, <1>3 DEF IInv, Core, UpInv
  <2>2. last.by = NoThread
    BY DEF Packet
  <2> HIDE DEF last
  <2>3. c2s' = << >> \/ c2s' = <<last>>
    <3>1. c2s \o cbuf \o <<last>> = <<last>>
      BY <2>1
    <3> QED
      BY <1>1, <2>1, <3>1
  <2>4. \A k \in 1 .. Len(c2s') : c2s'[k].by = NoThread
    <3>1. Len(<< >>) = 0 /\ Len(<<last>>) = 1 /\ <<last>>[1] = last
      OBVIOUS
    <3> QED
      BY <2>2, <2>3, <3>1
  <2>5. NoCommand(job)'
    BY <1>1, <2>1, RestingCarried
  <2>6. \A t \in Threads : ~Awaited(t)'
    BY <2>4, <2>5, ProtocolAssumption DEF Awaited
  <2> QED
    BY <1>1, <2>6 DEF RanInv
<1>4. CASE link = "cut"
  <2>1. c2s' = c2s
    BY <1>1, <1>4
  <2>2. \A t \in Threads : Awaited(t)' => Awaited(t)
    BY <1>1, <2>1 DEF Awaited
  <2> QED
    BY <1>1, <1>4, <2>2 DEF IInv, RanInv
<1> QED
  BY <1>2, <1>3, <1>4

\* The connection is lost: the server works only for the thread that has it.
LEMMA CutRan ==
  ASSUME CallsAreConversations, IInv, Cut
  PROVE  RanInv'
<1>1. /\ link = "up" /\ link' = "cut" /\ phase' = phase /\ orphans' = orphans /\ ran' = ran
      /\ job' = job /\ request' = request /\ \E n \in 0 .. Len(c2s) : c2s' = Front(c2s, n)
  BY DEF Cut, Lose, clientVars, serverVars
<1>2. /\ c2s \in Seq(PacketsA) /\ cbuf \in Seq(PacketsA) /\ job \in Seq(StepsA)
  BY DEF IInv, Core, Types, StreamTypes, ServerTypes
<1>3. /\ c2s' \in Seq(PacketsA) /\ IsStart(c2s', c2s \o cbuf)
      /\ c2s = << >> => c2s' = << >>
  <2>1. PICK n \in 0 .. Len(c2s) : c2s' = Front(c2s, n)
    BY <1>1
  <2> QED
    BY <1>2, <2>1, FrontStarts
<1>4. ASSUME NEW u \in Threads, Awaited(u)'
      PROVE  phase[u] = "locked" /\ ran[u] = "no"
  <2>1. ~NoCommand(job) \/ (job \in Resting /\ c2s' # << >>)
    <3>1. Len(<< >>) = 0
      OBVIOUS
    <3> QED
      BY <1>1, <1>4, <3>1 DEF Awaited
  <2>2. lock # NoThread
    BY <1>1, <1>3, <2>1, RestingCarried DEF IInv, Core, UpInv
  <2> DEFINE U == c2s \o cbuf
             V == s2c \o sbuf
             r == ran[lock]
             T == todo[lock]
             c == call[lock]
             J == job
             by == request.by
             S == c2s'
  <2>3. /\ c \in Calls /\ Conversation(c) /\ U \in Seq(PacketsA) /\ V \in Seq(PacketsA)
        /\ J \in Seq(StepsA) /\ UpTalk(c, T, lock, U, V, J, by, r)
        /\ S \in Seq(PacketsA) /\ IsStart(S, U)
        /\ ~NoCommand(J) \/ (J \in Resting /\ S # << >>)
    BY <1>1, <1>2, <1>3, <2>1, <2>2, UpHolder
  <2>4. (~NoCommand(J) /\ by = u) \/ \E k \in 1 .. Len(S) : S[k].by = u
    BY <1>1, <1>4 DEF Awaited
  <2> HIDE DEF U, V, r, T, c, J, by, S
  <2>5. Len(S) <= Len(U) /\ \A k \in 1 .. Len(S) : S[k] = U[k]
    BY <2>3 DEF IsStart
  <2>6. Len(U) \in Nat /\ Len(S) \in Nat
    BY <2>3
  <2>7. \A k \in 1 .. Len(S) : k \in 1 .. Len(U) /\ S[k] = U[k]
    BY <2>5, <2>6
  <2>8. S # << >> => U # << >>
    BY <2>3, <2>5, NoElements
  <2>9. r = "no"
    BY <2>3, <2>8, UpAwaited
  <2>10. Owned(U, V, J, by, lock)
    BY <2>3, UpOwn
  <2>11. u = lock
    BY <2>4, <2>7, <2>10 DEF Owned
  <2> QED
    BY <2>9, <2>11 DEF IInv, Core, LockInv, r
<1>5. \A u \in Threads : Awaited(u)' => phase'[u] = "locked" /\ ran'[u] = "no"
  BY <1>1, <1>4
<1> QED
  BY <1>1, <1>5 DEF IInv, RanInv

\* The server stops.
LEMMA StopsRan ==
  ASSUME IInv, NEW how, ServerStops(how), UNCHANGED clientVars, UNCHANGED ran
  PROVE  RanInv'
<1>1. /\ job' = << >> /\ link' = "cut" /\ c2s' = << >>
      /\ phase' = phase /\ ran' = ran /\ orphans' = orphans
  BY DEF ServerStops, clientVars
<1>2. \A t \in Threads : ~Awaited(t)'
  <2>1. NoCommand(<< >>) /\ Len(<< >>) = 0
    BY RestingCarried DEF Resting
  <2> QED
    BY <1>1, <2>1 DEF Awaited
<1> QED
  BY <1>1, <1>2 DEF IInv, RanInv

\* The server works for nobody else than before.
LEMMA ServerRan ==
  ASSUME IInv, UNCHANGED clientVars, UNCHANGED ran, link' = link,
         link = "cut" => \A t \in Threads : Awaited(t)' => Awaited(t)
  PROVE  RanInv'
<1>1. phase' = phase /\ ran' = ran /\ orphans' = orphans
  BY DEF clientVars
<1> QED
  BY <1>1 DEF IInv, RanInv

\* It goes on with its handler.
LEMMA GoesOnAwaited ==
  ASSUME IInv, NEW steps, ServerGoesOn(steps), NoCommand(job) => NoCommand(steps),
         steps \in Resting => c2s' = << >> \/ (job \in Resting /\ c2s' = c2s),
         NEW t, Awaited(t)'
  PROVE  Awaited(t)
<1>1. /\ job' = steps /\ (steps # << >> => request' = request)
  BY DEF ServerGoesOn
<1>2. NoCommand(<< >>) /\ Len(<< >>) = 0
  BY RestingCarried DEF Resting
<1>3. CASE ~NoCommand(steps) /\ request'.by = t
  BY <1>1, <1>2, <1>3 DEF Awaited
<1>4. CASE steps \in Resting /\ \E k \in 1 .. Len(c2s') : c2s'[k].by = t
  <2>1. c2s' # << >>
    BY <1>2, <1>4
  <2> QED
    BY <1>4, <2>1 DEF Awaited
<1> QED
  BY <1>1, <1>3, <1>4 DEF Awaited

\* After the loss of the connection the server does what is left of its handler,
\* but for the driver calls.
LEMMA QuietRan ==
  ASSUME CallsAreConversations, IInv, NEW do, NextIs(job, do), do # "read",
         UNCHANGED clientVars, UNCHANGED ran, link' = link,
         link = "cut" => c2s' = c2s /\ ServerGoesOn(Tail(job))
  PROVE  RanInv'
<1>1. job \in Seq(StepsA) /\ job # << >> /\ Head(job).do # "read" /\ c2s \in Seq(PacketsA)
  BY DEF IInv, Core, Types, ServerTypes, StreamTypes, NextIs
<1>2. NoCommand(job) => NoCommand(Tail(job))
  BY <1>1, TailCommands
<1>3. ASSUME link = "cut"
      PROVE  Tail(job) \in Resting => c2s' = << >> \/ (job \in Resting /\ c2s' = c2s)
  <2>1. CutServer(c2s, job)
    BY <1>3 DEF IInv, Core, CutInv
  <2> QED
    BY <1>1, <1>3, <2>1, CutServerStep
<1>4. link = "cut" => \A t \in Threads : Awaited(t)' => Awaited(t)
  <2> DEFINE steps == Tail(job)
  <2>1. /\ NoCommand(job) => NoCommand(steps)
        /\ link = "cut" => /\ ServerGoesOn(steps)
                           /\ steps \in Resting => c2s' = << >> \/ (job \in Resting /\ c2s' = c2s)
    BY <1>2, <1>3
  <2> HIDE DEF steps
  <2> QED
    BY <2>1, GoesOnAwaited
<1> QED
  BY <1>4, ServerRan

\* The server takes a request: it was sent by the thread that it now works for.
LEMMA PeekRan ==
  ASSUME CallsAreConversations, IInv, ServerPeek
  PROVE  RanInv'
<1>1. server = "idle" /\ UNCHANGED clientVars /\ UNCHANGED ran
  BY DEF ServerPeek
<1>2. CASE /\ c2s # << >> /\ Head(c2s).ty \in Requests /\ request' = Head(c2s)
           /\ job' = Append(Handlers(Head(c2s).opts)[Head(c2s).ty], F)
           /\ UNCHANGED <<userEvent, streamVars>>
  <2> DEFINE H == Append(Handlers(Head(c2s).opts)[Head(c2s).ty], F)
  <2>1. \E d \in Calls : H = Handler(d)
    BY <1>1, <1>2, ServerFindsRequest
  <2>2. job' = H
    BY <1>2
  <2> HIDE DEF H
  <2>3. ~NoCommand(H)
    BY <2>1, HandlerCarried DEF CallsAreConversations
  <2>4. H \notin Resting
    BY <2>3, RestingCarried
  <2>5. job = << >> /\ job \in Resting /\ c2s \in Seq(PacketsA)
    BY <1>1 DEF IInv, Core, Types, ServerTypes, StreamTypes, Resting
  <2>6. Head(c2s) = c2s[1] /\ 1 \in 1 .. Len(c2s)
    <3>1. Len(c2s) \in Nat /\ Len(c2s) > 0 /\ Head(c2s) = c2s[1]
      BY <1>2, <2>5, TailTaken
    <3> QED
      BY <3>1
  <2>7. ASSUME NEW t \in Threads, Awaited(t)'
        PROVE  Awaited(t)
    <3>1. request'.by = t
      BY <2>2, <2>4, <2>7 DEF Awaited
    <3>2. c2s[1].by = t
      BY <1>2, <2>6, <3>1
    <3> QED
      BY <2>5, <2>6, <3>2 DEF Awaited
  <2>8. link' = link
    BY <1>2 DEF streamVars
  <2> QED
    BY <1>1, <2>7, <2>8, ServerRan
<1>3. CASE \E how \in {"ended", "aborted"} : ServerStops(how)
  BY <1>1, <1>3, StopsRan
<1> QED
  BY <1>2, <1>3 DEF ServerPeek

\* The server reads.
LEMMA ReadRan ==
  ASSUME CallsAreConversations, IInv, ServerRead
  PROVE  RanInv'
<1>1. Doing("read") /\ UNCHANGED clientVars /\ UNCHANGED ran
  BY DEF ServerRead
<1>2. job # << >> /\ Head(job).do = "read" /\ job \in Seq(StepsA) /\ c2s \in Seq(PacketsA)
  BY <1>1 DEF Doing, IInv, Core, Types, ServerTypes, StreamTypes
<1>3. CASE /\ c2s # << >> /\ c2s' = Tail(c2s) /\ ServerGoesOn(Tail(job))
           /\ UNCHANGED <<link, cbuf, sbuf, s2c, userEvent>>
  <2> DEFINE steps == Tail(job)
  <2>1. NoCommand(job) => NoCommand(steps)
    BY <1>2, TailCommands
  <2>2. link = "cut" => (steps \in Resting => c2s' = << >>)
    <3> SUFFICES ASSUME link = "cut" PROVE steps \in Resting => c2s' = << >>
      OBVIOUS
    <3>1. CutServer(c2s, job)
      BY DEF IInv, Core, CutInv
    <3> QED
      BY <1>2, <1>3, <3>1, CutServerRead
  <2>3. ServerGoesOn(steps) /\ link' = link
    BY <1>3
  <2> HIDE DEF steps
  <2>4. link = "cut" => \A t \in Threads : Awaited(t)' => Awaited(t)
    BY <2>1, <2>2, <2>3, GoesOnAwaited
  <2> QED
    BY <1>1, <2>3, <2>4, ServerRan
<1>4. CASE \E how \in {"ended", "aborted"} : ServerStops(how)
  BY <1>1, <1>4, StopsRan
<1> QED
  BY <1>3, <1>4 DEF ServerRead

\* The server writes or flushes.
LEMMA WriteRan ==
  ASSUME CallsAreConversations, IInv, ServerWrite \/ ServerFlush
  PROVE  RanInv'
<1>1. UNCHANGED clientVars /\ UNCHANGED ran
  BY DEF ServerWrite, ServerFlush
<1>2. PICK do \in {"write", "flush"} : Doing(do)
  BY DEF ServerWrite, ServerFlush
<1>3. NextIs(job, do) /\ do # "read"
  BY <1>2 DEF Doing, NextIs
<1>4. CASE \E how \in {"ended", "aborted"} : ServerStops(how)
  BY <1>1, <1>4, StopsRan
<1>5. CASE link' = link /\ (link = "cut" => c2s' = c2s /\ ServerGoesOn(Tail(job)))
  BY <1>1, <1>3, <1>5, QuietRan
<1>6. CASE ServerWrite
  BY <1>4, <1>5, <1>6 DEF ServerWrite
<1>7. CASE ServerFlush
  BY <1>4, <1>5, <1>7 DEF ServerFlush, streamVars
<1> QED
  BY <1>6, <1>7

\* A command is carried out for the thread that waits for it, once.
LEMMA CommandOwner ==
  ASSUME CallsAreConversations, IInv, NEW do \in Commands, NextIs(job, do),
         request.by \in Threads \ orphans
  PROVE  phase[request.by] = "locked" /\ ran[request.by] = "no"
<1>1. /\ job \in Seq(StepsA) /\ job # << >> /\ Head(job).do \in Commands /\ link \in {"up", "cut"}
      /\ do \notin {"read", "write", "flush"}
  BY DEF IInv, Core, Types, ServerTypes, StreamTypes, NextIs, Commands
<1>2. ~NoCommand(job)
  BY <1>1, TailCommands
<1>3. CASE link = "up"
  <2>1. lock # NoThread
    BY <1>1, <1>3, Busy
  <2> DEFINE U == c2s \o cbuf
             V == s2c \o sbuf
             r == ran[lock]
             T == todo[lock]
             c == call[lock]
             J == job
             by == request.by
  <2>2. /\ c \in Calls /\ Conversation(c) /\ U \in Seq(PacketsA) /\ V \in Seq(PacketsA)
        /\ UpTalk(c, T, lock, U, V, J, by, r) /\ NextIs(J, do) /\ lock \in Threads
    BY <1>3, <2>1, UpHolder
  <2> HIDE DEF U, V, r, T, c, J, by
  <2>3. /\ r = "no" /\ by = lock
        /\ UpTalk(c, T, lock, U, V, Tail(J), by, Carried(Tail(J)))
        /\ UpTalk(c, T, lock, U, V, Failure(Head(J), Tail(J)), by, "failed")
    BY <2>2, UpCommand
  <2> QED
    BY <2>2, <2>3 DEF r, by, IInv, Core, LockInv
<1>4. CASE link = "cut"
  BY <1>2, <1>4 DEF IInv, RanInv, Awaited
<1> QED
  BY <1>1, <1>3, <1>4

\* The server calls the driver.
LEMMA CallRan ==
  ASSUME CallsAreConversations, IInv, ServerCall
  PROVE  RanInv'
<1> DEFINE rest == Tail(job)
           fail == Failure(Head(job), Tail(job))
<1>1. /\ \E do \in Commands : Doing(do)
      /\ UNCHANGED clientVars /\ UNCHANGED streamVars
  BY DEF ServerCall
<1>2. PICK do \in Commands : Doing(do)
  BY <1>1
<1>3. /\ NextIs(job, do) /\ job # << >> /\ Head(job).do \in Commands /\ Head(job).do # "read"
      /\ job \in Seq(StepsA) /\ c2s \in Seq(PacketsA)
  BY <1>2 DEF Doing, NextIs, Commands, IInv, Core, Types, ServerTypes, StreamTypes
<1>4. /\ phase' = phase /\ orphans' = orphans /\ link' = link /\ c2s' = c2s
  BY <1>1 DEF clientVars, streamVars
<1>5. request.by \in Threads \ orphans => phase[request.by] = "locked" /\ ran[request.by] = "no"
  BY <1>3, CommandOwner
<1>6. ~NoCommand(job) /\ job \notin Resting
  BY <1>3, TailCommands, RestingCarried
<1>7. \/ ran' = ran
      \/ \A u \in Threads : ran'[u] = ran[u] \/ (u = request.by /\ u \notin orphans)
  <2>1. CASE \E outcome \in {"ok", "failed"} : Ended(outcome)
    BY <2>1, EndedType
  <2> QED
    BY <2>1 DEF ServerCall
<1>8. \A u \in Threads : phase'[u] = "called" => ran'[u] = "no"
  BY <1>4, <1>5, <1>7 DEF IInv, RanInv
<1>9. link' = "up" => orphans' = {}
  BY <1>4 DEF IInv, RanInv
<1>10. ASSUME link = "cut", NEW u \in Threads \ orphans, Awaited(u)'
       PROVE  phase[u] = "locked" /\ ran'[u] = "no"
  <2>1. CutServer(c2s, job)
    BY <1>10 DEF IInv, Core, CutInv
  <2>2. rest \in Resting => c2s' = << >>
    BY <1>3, <1>4, <1>6, <2>1, CutServerStep
  <2>3. CASE ServerGoesOn(rest) /\ (IF NoCommand(rest) THEN Ended("ok") ELSE UNCHANGED ran)
    <3>1. /\ NoCommand(job) => NoCommand(rest)
          /\ ServerGoesOn(rest) /\ job' = rest
      BY <1>6, <2>3 DEF ServerGoesOn
    <3>2. ~NoCommand(rest)
      <4>1. Len(<< >>) = 0
        OBVIOUS
      <4> QED
        BY <1>10, <2>2, <3>1, <4>1 DEF Awaited
    <3>3. ran' = ran
      BY <2>3, <3>2
    <3> HIDE DEF rest
    <3>4. Awaited(u)
      BY <1>10, <2>2, <3>1, GoesOnAwaited
    <3> QED
      BY <1>10, <3>3, <3>4 DEF IInv, RanInv
  <2>4. CASE ServerGoesOn(fail)
    <3>1. fail = ErrorSteps
      BY <1>3, <2>1, CutServerFails
    <3>2. job' = ErrorSteps
      BY <2>4, <3>1 DEF ServerGoesOn
    <3> QED
      BY <1>10, <3>2, ErrorCarried DEF Awaited
  <2> QED
    BY <2>3, <2>4 DEF ServerCall
<1> QED
  BY <1>4, <1>8, <1>9, <1>10 DEF RanInv

-----------------------------------------------------------------------------
(* The invariant holds. *)

\* It does at the beginning: with a connection nothing has been said, without
\* one there is nothing to read.
LEMMA InitInv ==
  ASSUME Init
  PROVE  IInv
<1>1. /\ haveStream \in BOOLEAN /\ lock = NoThread /\ client = "running"
      /\ phase = [t \in Threads |-> "idle"] /\ call = [t \in Threads |-> NoCall]
      /\ todo = [t \in Threads |-> << >>] /\ result = [t \in Threads |-> "none"]
      /\ link \in {"up", "cut"}
      /\ cbuf = << >> /\ c2s = << >> /\ sbuf = << >> /\ s2c = << >>
      /\ server = "idle" /\ job = << >> /\ request = NoPacket /\ userEvent = "pending"
      /\ ran = [t \in Threads |-> "no"] /\ orphans = {} /\ late = [t \in Threads |-> FALSE]
  BY DEF Init
<1>2. << >> \in Seq(StepsA) /\ << >> \in Seq(PacketsA)
  OBVIOUS
<1>3. ClientTypes
  BY <1>1, <1>2 DEF ClientTypes
<1>4. StreamTypes
  BY <1>1, <1>2 DEF StreamTypes
<1>5. NoPacket \in PacketsA
  BY DEF NoPacket, Packet, PacketsA, Tags
<1>6. ServerTypes
  BY <1>1, <1>2, <1>5 DEF ServerTypes
<1>7. Types
  BY <1>1, <1>3, <1>4, <1>6 DEF Types
<1>8. LockInv
  BY <1>1, ProtocolAssumption DEF LockInv
<1>9. UpInv
  BY <1>1 DEF UpInv, Resting
<1>10. CutInv
  BY <1>1 DEF CutInv, CutServer, CutClient, AtRest, Resting
<1>11. RanInv
  <2>1. \A t \in Threads : ~Awaited(t)
    <3>1. Len(<< >>) = 0 /\ NoCommand(<< >>)
      BY DEF NoCommand
    <3> QED
      BY <1>1, <3>1 DEF Awaited
  <2> QED
    BY <1>1, <2>1 DEF RanInv
<1> QED
  BY <1>7, <1>8, <1>9, <1>10, <1>11 DEF IInv, Core

\* A read that has no end changes nothing of what the invariants are about.
Still == UNCHANGED <<clientVars, streamVars, serverVars, ran>>

LEMMA NextSteps ==
  ASSUME [Next]_vars
  PROVE  Step \/ Still
  BY DEF Next, Over, ClientSpins, ServerSpins, Still, vars

\* Every step keeps it.
LEMMA NextInv ==
  ASSUME CallsAreConversations, IInv, [Next]_vars
  PROVE  Core'
<1>1. ASSUME NEW t \in Threads, NEW c \in Calls, Invoke(t, c)
      PROVE  Core'
  BY <1>1, InvokeStep
<1>2. ASSUME NEW t \in Threads, Reject(t) \/ Acquire(t) \/ HolderStep(t)
      PROVE  Core'
  BY <1>2, RejectStep, AcquireStep, ClientWriteStep, ClientFlushStep, ClientReadStep, ReturnStep
     DEF HolderStep
<1>3. CASE ServerStep
  BY <1>3, ServerPeekStep, ServerReadStep, ServerWriteStep, ServerFlushStep, ServerCallStep
     DEF ServerStep
<1>4. CASE Cut
  BY <1>4, CutStep
<1>5. CASE Exit
  BY <1>5, ExitStep
<1>6. CASE Still
  <2>1. UNCHANGED clientVars /\ UNCHANGED streamVars /\ UNCHANGED serverVars /\ UNCHANGED ran
    BY <1>6 DEF Still
  <2>2. link' = link /\ ClientTypes /\ LockInv
    BY <2>1 DEF streamVars, IInv, Core, Types
  <2>3. /\ ClientTypes' /\ LockInv' /\ lock' = lock /\ call' = call /\ todo' = todo /\ late' = late
    BY <2>1, <2>2, ClientKeeps
  <2>4. UpInv' /\ CutInv'
    BY <2>1, <2>3, HolderKeeps DEF IInv, Core
  <2>5. Types'
    BY <2>1, <2>3, RestKeeps DEF IInv, Core, Types
  <2> QED
    BY <2>3, <2>4, <2>5 DEF IInv, Core
<1> QED
  BY <1>1, <1>2, <1>3, <1>4, <1>5, <1>6, NextSteps DEF Step

\* The last part of it is kept as well.
LEMMA NextRan ==
  ASSUME CallsAreConversations, IInv, [Next]_vars
  PROVE  RanInv'
<1>1. ASSUME NEW t \in Threads, NEW c \in Calls, Invoke(t, c)
      PROVE  RanInv'
  BY <1>1, InvokeRan
<1>2. ASSUME NEW t \in Threads, Reject(t) \/ Acquire(t) \/ HolderStep(t)
      PROVE  RanInv'
  BY <1>2, EnterRan, HolderRan
<1>3. CASE ServerStep
  BY <1>3, PeekRan, ReadRan, WriteRan, CallRan DEF ServerStep
<1>4. CASE Cut
  BY <1>4, CutRan
<1>5. CASE Exit
  BY <1>5, ExitRan
<1>6. CASE Still
  <2>1. /\ phase' = phase /\ orphans' = orphans /\ link' = link /\ c2s' = c2s /\ ran' = ran
        /\ job' = job /\ request' = request
    BY <1>6 DEF Still, clientVars, streamVars, serverVars
  <2> QED
    BY <2>1 DEF IInv, RanInv, Awaited
<1> QED
  BY <1>1, <1>2, <1>3, <1>4, <1>5, <1>6, NextSteps DEF Step

\* So it always holds.
LEMMA AlwaysIInv ==
  ASSUME CallsAreConversations
  PROVE  Spec => []IInv
<1>1. Init => IInv
  BY InitInv
<1>2. IInv /\ [Next]_vars => IInv'
  BY NextInv, NextRan DEF IInv
<1> QED
  BY <1>1, <1>2, PTL DEF Spec

-----------------------------------------------------------------------------
(* What follows from it. *)

\* The variables keep their ranges.
LEMMA TypeOKFollows ==
  ASSUME IInv, spinning \subseteq {"client", "server"}
  PROVE  TypeOK
  BY DEF IInv, Core, Types, ClientTypes, StreamTypes, ServerTypes, TypeOK

\* Whoever reads finds what it expects.
LEMMA TypesAgreeFollows ==
  ASSUME CallsAreConversations, IInv
  PROVE  TypesAgree
<1>1. ASSUME NEW t \in Threads, At(t, "read"), s2c # << >>
      PROVE  Head(s2c).ty \in {Head(todo[t]).ty, "Error"}
  <2>1. phase[t] = "locked" /\ NextIs(todo[t], "read")
    BY <1>1 DEF At, NextIs
  <2> QED
    BY <1>1, <2>1, ClientFinds
<1>2. ASSUME Doing("read"), c2s # << >>
      PROVE  Head(c2s).ty \in {Head(job).ty, "Terminate"}
  <2>1. NextIs(job, "read")
    BY <1>2 DEF Doing, NextIs
  <2> QED
    BY <1>2, <2>1, ServerFinds
<1>3. ASSUME server = "idle", c2s # << >>
      PROVE  Head(c2s).ty \in Requests \cup {"Terminate"}
  BY <1>3, ServerFindsRequest
<1> QED
  BY <1>1, <1>2, <1>3 DEF TypesAgree

\* No call leaves anything behind.
LEMMA QuietFollows ==
  ASSUME IInv
  PROVE  QuietBetweenCalls
  BY DEF IInv, Core, UpInv, QuietBetweenCalls, Resting

\* The packets on their way are those of the thread that has the connection.
LEMMA OwnPacketsFollows ==
  ASSUME CallsAreConversations, IInv
  PROVE  OwnPackets
<1> SUFFICES ASSUME lock # NoThread, link = "up"
             PROVE  /\ \A s \in {cbuf, c2s, sbuf, s2c} : \A i \in 1 .. Len(s) : s[i].by = lock
                    /\ ~NoCommand(job) => request.by = lock
  BY DEF OwnPackets
<1> DEFINE U == c2s \o cbuf
           V == s2c \o sbuf
<1>1. /\ call[lock] \in Calls /\ Conversation(call[lock])
      /\ U \in Seq(PacketsA) /\ V \in Seq(PacketsA)
      /\ UpTalk(call[lock], todo[lock], lock, U, V, job, request.by, ran[lock])
  BY UpHolder
<1>2. /\ cbuf \in Seq(PacketsA) /\ c2s \in Seq(PacketsA) /\ sbuf \in Seq(PacketsA)
      /\ s2c \in Seq(PacketsA) /\ job \in Seq(StepsA)
  BY DEF IInv, Core, Types, StreamTypes, ServerTypes
<1>3. /\ Len(U) = Len(c2s) + Len(cbuf)
      /\ \A i \in 1 .. Len(c2s) : U[i] = c2s[i]
      /\ \A i \in 1 .. Len(cbuf) : U[Len(c2s) + i] = cbuf[i]
  BY <1>2, Joined
<1>4. /\ Len(V) = Len(s2c) + Len(sbuf)
      /\ \A i \in 1 .. Len(s2c) : V[i] = s2c[i]
      /\ \A i \in 1 .. Len(sbuf) : V[Len(s2c) + i] = sbuf[i]
  BY <1>2, Joined
<1> HIDE DEF U, V
<1>11. Owned(U, V, job, request.by, lock)
  BY <1>1, <1>2, UpOwn
<1>5. /\ \A k \in 1 .. Len(U) : U[k].by = lock
      /\ \A k \in 1 .. Len(V) : V[k].by = lock
      /\ ~NoCommand(job) => request.by = lock
  BY <1>11 DEF Owned
<1>6. Len(c2s) \in Nat /\ Len(cbuf) \in Nat /\ Len(s2c) \in Nat /\ Len(sbuf) \in Nat
  BY <1>2
<1>7. \A i \in 1 .. Len(c2s) : c2s[i].by = lock
  BY <1>3, <1>5, <1>6
<1>8. \A i \in 1 .. Len(cbuf) : cbuf[i].by = lock
  <2> TAKE i \in 1 .. Len(cbuf)
  <2>1. Len(c2s) + i \in 1 .. Len(U)
    BY <1>3, <1>6
  <2> QED
    BY <1>3, <1>5, <2>1
<1>9. \A i \in 1 .. Len(s2c) : s2c[i].by = lock
  BY <1>4, <1>5, <1>6
<1>10. \A i \in 1 .. Len(sbuf) : sbuf[i].by = lock
  <2> TAKE i \in 1 .. Len(sbuf)
  <2>1. Len(s2c) + i \in 1 .. Len(V)
    BY <1>4, <1>6
  <2> QED
    BY <1>4, <1>5, <2>1
<1> QED
  BY <1>5, <1>7, <1>8, <1>9, <1>10

\* TypeOK: the ranges of all variables, and that the server is inside a handler
\* exactly while that handler has steps left (run, handleNextPacket).
THEOREM ProtocolTypes ==
  ASSUME CallsAreConversations
  PROVE  Spec => []TypeOK
<1> DEFINE SpinnersOnly == spinning \subseteq {"client", "server"}
<1>1. Init => SpinnersOnly
  BY DEF Init
<1>2. SpinnersOnly /\ [Next]_vars => SpinnersOnly'
  <2> SUFFICES ASSUME SpinnersOnly, [Next]_vars PROVE SpinnersOnly'
    OBVIOUS
  <2>1. ASSUME NEW t \in Threads, ClientSpins(t) PROVE SpinnersOnly'
    BY <2>1 DEF ClientSpins
  <2>2. CASE ServerSpins
    BY <2>2 DEF ServerSpins
  <2>3. CASE UNCHANGED spinning
    BY <2>3
  <2> QED
    BY <2>1, <2>2, <2>3 DEF Next, Over, vars
<1>3. IInv /\ SpinnersOnly => TypeOK
  BY TypeOKFollows
<1> QED
  BY <1>1, <1>2, <1>3, AlwaysIInv, PTL DEF Spec

\* Each side finds the packets it reads to be of the types it expects, and the
\* server finds nothing but requests between two requests, whatever fails: no
\* assertion of PacketStream::read or of handleNextPacket fails.
THEOREM PacketsHaveExpectedTypes ==
  ASSUME CallsAreConversations
  PROVE  Spec => []TypesAgree
<1>1. IInv => TypesAgree
  BY TypesAgreeFollows
<1> QED
  BY <1>1, AlwaysIInv, PTL

\* A call leaves neither stream nor server with anything of it, whether it
\* succeeded or failed.
THEOREM CallsLeaveNothingBehind ==
  ASSUME CallsAreConversations
  PROVE  Spec => []QuietBetweenCalls
<1>1. IInv => QuietBetweenCalls
  BY QuietFollows
<1> QED
  BY <1>1, AlwaysIInv, PTL

\* The lock of the connection separates the calls of the threads: all packets on
\* their way, and the request that is served, belong to the thread that holds it.
THEOREM ConnectionIsExclusive ==
  ASSUME CallsAreConversations
  PROVE  Spec => []OwnPackets
<1>1. IInv => OwnPackets
  BY OwnPacketsFollows
<1> QED
  BY <1>1, AlwaysIInv, PTL

-----------------------------------------------------------------------------
(* A connection that was lost is reported. *)

\* What the theorem assumes of the calls besides.
CallsReportLoss == \A c \in Calls : ReportsLoss(c)

\* Nothing that the property is about changes.
LEMMA DroppedKeeps ==
  ASSUME DroppedMeansNotAvailable, late' = late, result' = result
  PROVE  DroppedMeansNotAvailable'
  BY DEF DroppedMeansNotAvailable

\* A call ends, with a result that it may have.
LEMMA DroppedFinish ==
  ASSUME IInv, DroppedMeansNotAvailable, NEW t \in Threads, NEW r, Finish(t, r),
         ~late[t] \/ r \in {"NOT_AVAILABLE", "INVALID"}
  PROVE  DroppedMeansNotAvailable'
<1>1. result' = [result EXCEPT ![t] = r] /\ late' = late
  BY DEF Finish
<1>2. result \in [Threads -> Results \cup {"none"}]
  BY DEF IInv, Core, Types, ClientTypes
<1>3. result'[t] = r /\ \A u \in Threads \ {t} : result'[u] = result[u]
  BY <1>1, <1>2
<1> QED
  BY <1>1, <1>3 DEF DroppedMeansNotAvailable

\* A call begins.
LEMMA DroppedInvoke ==
  ASSUME IInv, DroppedMeansNotAvailable, NEW t \in Threads, NEW c \in Calls, Invoke(t, c)
  PROVE  DroppedMeansNotAvailable'
<1>1. /\ result' = [result EXCEPT ![t] = "none"]
      /\ late' = [late EXCEPT ![t] = (link = "cut")]
  BY DEF Invoke
<1>2. result \in [Threads -> Results \cup {"none"}] /\ late \in [Threads -> BOOLEAN]
  BY DEF IInv, Core, Types, ClientTypes
<1>3. result'[t] = "none" /\ \A u \in Threads \ {t} : result'[u] = result[u]
  BY <1>1, <1>2
<1>4. \A u \in Threads \ {t} : late'[u] = late[u]
  BY <1>1, <1>2
<1> QED
  BY <1>3, <1>4 DEF DroppedMeansNotAvailable

\* A call throws for want of a connection.
LEMMA DroppedThrows ==
  ASSUME CallsReportLoss, IInv, DroppedMeansNotAvailable, NEW t \in Threads,
         phase[t] = "locked", Throws(t)
  PROVE  DroppedMeansNotAvailable'
<1>1. call[t].loss = "NOT_AVAILABLE"
  BY DEF IInv, Core, LockInv, CallsReportLoss, ReportsLoss
<1>2. Finish(t, call[t].loss)
  BY DEF Throws
<1> QED
  BY <1>1, <1>2, DroppedFinish

\* Every step keeps the property.
LEMMA DroppedStep ==
  ASSUME CallsAreConversations, CallsReportLoss, IInv, DroppedMeansNotAvailable, [Next]_vars
  PROVE  DroppedMeansNotAvailable'
<1>1. ASSUME NEW t \in Threads, NEW c \in Calls, Invoke(t, c)
      PROVE  DroppedMeansNotAvailable'
  BY <1>1, DroppedInvoke
<1>2. ASSUME NEW t \in Threads, Reject(t)
      PROVE  DroppedMeansNotAvailable'
  BY <1>2, DroppedFinish DEF Reject
<1>3. ASSUME NEW t \in Threads, Acquire(t)
      PROVE  DroppedMeansNotAvailable'
  <2>1. phase[t] = "called"
    BY <1>3 DEF Acquire
  <2>2. call[t].nostream = "NOT_AVAILABLE"
    BY <2>1 DEF IInv, Core, LockInv, CallsReportLoss, ReportsLoss
  <2>3. (late' = late /\ result' = result) \/ Finish(t, call[t].nostream)
    BY <1>3 DEF Acquire
  <2> QED
    BY <2>2, <2>3, DroppedKeeps, DroppedFinish
<1>4. ASSUME NEW t \in Threads, ClientWrite(t) \/ ClientFlush(t)
      PROVE  DroppedMeansNotAvailable'
  <2>1. phase[t] = "locked"
    BY <1>4 DEF ClientWrite, ClientFlush, At
  <2>2. (late' = late /\ result' = result) \/ Throws(t)
    BY <1>4 DEF ClientWrite, ClientFlush, Proceed, clientVars
  <2> QED
    BY <2>1, <2>2, DroppedKeeps, DroppedThrows
<1>5. ASSUME NEW t \in Threads, ClientRead(t)
      PROVE  DroppedMeansNotAvailable'
  <2>1. phase[t] = "locked" /\ NextIs(todo[t], "read")
    BY <1>5 DEF ClientRead, At, NextIs
  <2>2. s2c # << >> => ~late[t]
    BY <2>1, ClientFinds
  <2>3. \/ late' = late /\ result' = result
        \/ s2c # << >> /\ Finish(t, call[t].error)
        \/ Throws(t)
    BY <1>5 DEF ClientRead, Proceed
  <2> QED
    BY <2>1, <2>2, <2>3, DroppedKeeps, DroppedFinish, DroppedThrows
<1>6. ASSUME NEW t \in Threads, Return(t)
      PROVE  DroppedMeansNotAvailable'
  <2>1. ~late[t]
    BY <1>6, ReturnStep
  <2>2. Finish(t, "SUCCESS")
    BY <1>6 DEF Return
  <2> QED
    BY <2>1, <2>2, DroppedFinish
<1>7. CASE ServerStep \/ Cut \/ Exit \/ Still
  <2>1. late' = late /\ result' = result
    BY <1>7 DEF ServerStep, ServerPeek, ServerRead, ServerWrite, ServerFlush, ServerCall,
                Cut, Exit, Still, clientVars
  <2> QED
    BY <2>1, DroppedKeeps
<1> QED
  BY <1>1, <1>2, <1>3, <1>4, <1>5, <1>6, <1>7, NextSteps DEF Step, HolderStep

\* Calls that begin after the loss of the connection return
\* CL_DEVICE_NOT_AVAILABLE (README.md line 41), unless their arguments are
\* refused: no stale reply is taken for theirs.
THEOREM LostConnectionIsReported ==
  ASSUME CallsAreConversations, CallsReportLoss
  PROVE  Spec => []DroppedMeansNotAvailable
<1>1. Init => DroppedMeansNotAvailable
  BY DEF Init, DroppedMeansNotAvailable
<1>2. IInv /\ DroppedMeansNotAvailable /\ [Next]_vars => DroppedMeansNotAvailable'
  BY DroppedStep
<1> QED
  BY <1>1, <1>2, AlwaysIInv, PTL DEF Spec

-----------------------------------------------------------------------------
(* The refinement. *)

CallsReportFailure == \A c \in Calls : ReportsFailure(c)

\* Which threads are inside a call.
Active == [t \in Threads |-> phase[t] # "idle"]

\* One thread enters or leaves a call.
LEMMA ActiveSet ==
  ASSUME NEW t \in Threads, \A u \in Threads \ {t} : (phase'[u] # "idle") <=> (phase[u] # "idle"),
         NEW b \in BOOLEAN, b <=> (phase'[t] # "idle")
  PROVE  Active' = [Active EXCEPT ![t] = b]
  BY Zenon DEF Active

\* No thread does.
LEMMA ActiveSame ==
  ASSUME \A u \in Threads : (phase'[u] # "idle") <=> (phase[u] # "idle")
  PROVE  Active' = Active
  BY Zenon DEF Active

\* A step of which the application notices nothing.
LEMMA RemoteStutters ==
  ASSUME \A u \in Threads : (phase'[u] # "idle") <=> (phase[u] # "idle"), ran' = ran, result' = result
  PROVE  UNCHANGED Remote!vars
<1>1. Active' = Active
  BY ActiveSame
<1> QED
  BY <1>1 DEF Active, Remote!vars

\* A call ends.
LEMMA RemoteReturns ==
  ASSUME IInv, NEW t \in Threads, NEW r, Finish(t, r), phase[t] # "idle", UNCHANGED ran,
         r \in Remote!Allowed(ran[t])
  PROVE  Remote!Return(t)
<1>1. phase'[t] = "idle" /\ \A u \in Threads \ {t} : phase'[u] = phase[u]
  BY FinishPhase
<1>2. Active' = [Active EXCEPT ![t] = FALSE]
  BY <1>1, ActiveSet
<1>3. result' = [result EXCEPT ![t] = r]
  BY DEF Finish
<1>4. Active[t]
  BY DEF Active
<1> QED
  BY <1>2, <1>3, <1>4 DEF Active, Remote!Return

\* A call begins.
LEMMA RemoteInvokes ==
  ASSUME IInv, NEW t \in Threads, NEW c, Invoke(t, c)
  PROVE  Remote!Invoke(t)
<1>1. /\ phase[t] = "idle" /\ phase' = [phase EXCEPT ![t] = "called"]
      /\ ran' = [ran EXCEPT ![t] = "no"] /\ result' = [result EXCEPT ![t] = "none"]
  BY DEF Invoke
<1>2. phase \in [Threads -> {"idle", "called", "locked"}]
  BY DEF IInv, Core, Types, ClientTypes
<1>3. phase'[t] = "called" /\ \A u \in Threads \ {t} : phase'[u] = phase[u]
  BY <1>1, <1>2
<1>4. Active' = [Active EXCEPT ![t] = TRUE]
  BY <1>3, ActiveSet
<1>5. ~Active[t]
  BY <1>1 DEF Active
<1> QED
  BY <1>1, <1>4, <1>5 DEF Active, Remote!Invoke

\* The driver answers: the command of the call that waits for it is carried out,
\* or nobody waits.
LEMMA RemoteExecutes ==
  ASSUME CallsAreConversations, IInv, ServerCall
  PROVE  Remote!Next \/ UNCHANGED Remote!vars
<1>1. PICK do \in Commands : Doing(do)
  BY DEF ServerCall
<1>2. NextIs(job, do)
  BY <1>1 DEF Doing, NextIs
<1>3. phase' = phase /\ result' = result /\ NoThread \notin Threads
  BY ProtocolAssumption DEF ServerCall, clientVars
<1>4. request.by \in Threads \cup {NoThread} /\ ran \in [Threads -> {"no", "ok", "failed"}]
  BY <1>2, ServerHas DEF NextIs
<1>5. CASE ran' = ran
  BY <1>3, <1>5, RemoteStutters
<1>6. ASSUME NEW outcome \in {"ok", "failed"}, Ended(outcome)
      PROVE  Remote!Next \/ UNCHANGED Remote!vars
  <2>1. CASE request.by \in orphans \/ request.by = NoThread
    <3>1. ran' = ran
      BY <1>3, <1>4, <1>6, <2>1 DEF Ended
    <3> QED
      BY <1>5, <3>1
  <2>2. CASE request.by \in Threads \ orphans
    <3> DEFINE t == request.by
    <3>1. phase[t] = "locked" /\ ran[t] = "no"
      BY <1>2, <2>2, CommandOwner
    <3>2. ran' = [ran EXCEPT ![t] = outcome]
      BY <1>6, <2>2 DEF Ended
    <3>3. t \in Threads
      BY <2>2
    <3> HIDE DEF t
    <3>4. Active' = Active /\ Active[t]
      <4>1. Active' = Active
        BY <1>3, ActiveSame
      <4>2. Active[t]
        BY <3>1, <3>3 DEF Active
      <4> QED
        BY <4>1, <4>2
    <3>5. Remote!Execute(t)
      BY <1>3, <1>6, <3>1, <3>2, <3>4 DEF Active, Remote!Execute
    <3> QED
      BY <3>3, <3>5 DEF Remote!Next
  <2> QED
    BY <1>4, <2>1, <2>2
<1> QED
  BY <1>5, <1>6 DEF ServerCall

\* A call gives up because the connection is lost.
LEMMA RemoteThrows ==
  ASSUME CallsReportLoss, IInv, NEW t \in Threads, phase[t] = "locked", Throws(t), UNCHANGED ran
  PROVE  Remote!Return(t)
<1>1. call[t].loss = "NOT_AVAILABLE"
  BY DEF IInv, Core, LockInv, CallsReportLoss, ReportsLoss
<1>2. Finish(t, "NOT_AVAILABLE")
  BY <1>1 DEF Throws
<1>3. "NOT_AVAILABLE" \in Remote!Allowed(ran[t])
  BY DEF Remote!Allowed
<1> QED
  BY <1>2, <1>3, RemoteReturns

\* A step of a thread that the application does not notice.
LEMMA RemoteWaits ==
  ASSUME IInv, NEW t \in Threads, Proceed(t) \/ UNCHANGED clientVars, UNCHANGED ran
  PROVE  UNCHANGED Remote!vars
<1>1. phase' = phase /\ result' = result
  BY DEF Proceed, clientVars
<1> QED
  BY <1>1, RemoteStutters

\* The steps of a thread that is inside a call.
LEMMA RemoteThread ==
  ASSUME CallsAreConversations, CallsReportLoss, CallsReportFailure, IInv, NEW t \in Threads,
         Reject(t) \/ Acquire(t) \/ HolderStep(t)
  PROVE  Remote!Return(t) \/ UNCHANGED Remote!vars
<1>1. CASE Reject(t)
  <2>1. phase[t] = "called" /\ Finish(t, "INVALID") /\ UNCHANGED ran
    BY <1>1 DEF Reject
  <2>2. ran[t] = "no"
    BY <2>1 DEF IInv, RanInv
  <2>3. "INVALID" \in Remote!Allowed(ran[t])
    BY <2>2 DEF Remote!Allowed
  <2> QED
    BY <2>1, <2>3, RemoteReturns
<1>2. CASE Acquire(t)
  <2>1. phase[t] = "called" /\ UNCHANGED ran
    BY <1>2 DEF Acquire
  <2>2. CASE Finish(t, call[t].nostream)
    <3>1. call[t].nostream = "NOT_AVAILABLE"
      BY <2>1 DEF IInv, Core, LockInv, CallsReportLoss, ReportsLoss
    <3>2. Finish(t, "NOT_AVAILABLE")
      BY <2>2, <3>1
    <3>3. "NOT_AVAILABLE" \in Remote!Allowed(ran[t])
      BY DEF Remote!Allowed
    <3> QED
      BY <2>1, <3>2, <3>3, RemoteReturns
  <2>3. CASE phase' = [phase EXCEPT ![t] = "locked"] /\ result' = result
    <3>1. phase \in [Threads -> {"idle", "called", "locked"}]
      BY DEF IInv, Core, Types, ClientTypes
    <3>2. \A u \in Threads : (phase'[u] # "idle") <=> (phase[u] # "idle")
      BY <2>1, <2>3, <3>1
    <3> QED
      BY <2>1, <2>3, <3>2, RemoteStutters
  <2> QED
    BY <1>2, <2>2, <2>3 DEF Acquire
<1>3. CASE ClientWrite(t) \/ ClientFlush(t)
  <2>1. phase[t] = "locked" /\ UNCHANGED ran
    BY <1>3 DEF ClientWrite, ClientFlush, At
  <2>2. Proceed(t) \/ UNCHANGED clientVars \/ Throws(t)
    BY <1>3 DEF ClientWrite, ClientFlush
  <2> QED
    BY <2>1, <2>2, RemoteThrows, RemoteWaits
<1>4. CASE ClientRead(t)
  <2>1. phase[t] = "locked" /\ NextIs(todo[t], "read") /\ UNCHANGED ran
    BY <1>4 DEF ClientRead, At, NextIs
  <2>2. CASE s2c # << >> /\ Head(s2c).ty = "Error" /\ Finish(t, call[t].error)
    <3>1. ran[t] = "failed"
      BY <2>1, <2>2, ClientFinds
    <3>2. call[t].error \in {"ERROR", "NOT_AVAILABLE"}
      BY <2>1 DEF IInv, Core, LockInv, CallsReportFailure, ReportsFailure
    <3>3. call[t].error \in Remote!Allowed(ran[t])
      BY <3>1, <3>2 DEF Remote!Allowed
    <3> QED
      BY <2>1, <2>2, <3>3, RemoteReturns
  <2>3. CASE Proceed(t) \/ Throws(t)
    BY <2>1, <2>3, RemoteThrows, RemoteWaits
  <2>4. CASE s2c # << >> /\ Head(s2c).ty \notin {Head(todo[t]).ty, "Error"}
    BY <2>1, <2>4, ClientFinds
  <2> QED
    BY <1>4, <2>2, <2>3, <2>4 DEF ClientRead
<1>5. CASE Return(t)
  <2>1. phase[t] = "locked" /\ Finish(t, "SUCCESS") /\ UNCHANGED ran
    BY <1>5 DEF Return
  <2>2. ran[t] = "ok"
    BY <1>5, ReturnStep
  <2>3. "SUCCESS" \in Remote!Allowed(ran[t])
    BY <2>2 DEF Remote!Allowed
  <2> QED
    BY <2>1, <2>3, RemoteReturns
<1> QED
  BY <1>1, <1>2, <1>3, <1>4, <1>5 DEF HolderStep

\* Every step is one of RemoteCall, or is not noticed.
LEMMA RemoteStep ==
  ASSUME CallsAreConversations, CallsReportLoss, CallsReportFailure, IInv, [Next]_vars
  PROVE  [Remote!Next]_(Remote!vars)
<1> SUFFICES Remote!Next \/ UNCHANGED Remote!vars
  OBVIOUS
<1>1. ASSUME NEW t \in Threads, NEW c \in Calls, Invoke(t, c)
      PROVE  Remote!Next
  BY <1>1, RemoteInvokes DEF Remote!Next
<1>2. ASSUME NEW t \in Threads, Reject(t) \/ Acquire(t) \/ HolderStep(t)
      PROVE  Remote!Next \/ UNCHANGED Remote!vars
  BY <1>2, RemoteThread DEF Remote!Next
<1>3. CASE ServerCall
  BY <1>3, RemoteExecutes
<1>4. CASE ServerPeek \/ ServerRead \/ ServerWrite \/ ServerFlush \/ Cut \/ Exit \/ Still
  <2>1. phase' = phase /\ result' = result /\ ran' = ran
    BY <1>4 DEF ServerPeek, ServerRead, ServerWrite, ServerFlush, Cut, Exit, Still, clientVars
  <2> QED
    BY <2>1, RemoteStutters
<1> QED
  BY <1>1, <1>2, <1>3, <1>4, NextSteps DEF Step, ServerStep

\* ImplementsRemoteCall: the locking, the streams, the handlers and the reporting
\* of errors together forward calls.  The command of a call is carried out at most
\* once, and the call returns CL_SUCCESS only if it was carried out, an error only
\* if it failed, and neither if its arguments were refused.
THEOREM CallsAreForwarded ==
  ASSUME CallsAreConversations, CallsReportLoss, CallsReportFailure
  PROVE  Spec => ImplementsRemoteCall
<1>1. Init => Remote!Init
  <2> SUFFICES ASSUME Init PROVE Remote!Init
    OBVIOUS
  <2>1. /\ phase = [t \in Threads |-> "idle"] /\ ran = [t \in Threads |-> "no"]
        /\ result = [t \in Threads |-> "none"]
    BY DEF Init
  <2>2. \A t \in Threads : ~(phase[t] # "idle")
    BY <2>1
  <2>3. [t \in Threads |-> phase[t] # "idle"] = [t \in Threads |-> FALSE]
    BY <2>2, Zenon
  <2> QED
    BY <2>1, <2>3 DEF Remote!Init
<1>2. IInv /\ [Next]_vars => [Remote!Next]_(Remote!vars)
  BY RemoteStep
<1> QED
  BY <1>1, <1>2, AlwaysIInv, PTL DEF Spec, ImplementsRemoteCall, Remote!Spec

\* A step of RemoteCall keeps SuccessMeansExecuted: a command is carried out only
\* for a call that has not returned.
LEMMA SuccessStep ==
  ASSUME IInv, SuccessMeansExecuted, [Remote!Next]_(Remote!vars)
  PROVE  SuccessMeansExecuted'
<1>1. ran \in [Threads -> {"no", "ok", "failed"}] /\ result \in [Threads -> Results \cup {"none"}]
  BY DEF IInv, Core, Types, ClientTypes
<1>2. CASE UNCHANGED Remote!vars
  BY <1>2 DEF Remote!vars, SuccessMeansExecuted
<1>3. ASSUME NEW t \in Threads, Remote!Invoke(t)
      PROVE  SuccessMeansExecuted'
  <2>1. ran' = [ran EXCEPT ![t] = "no"] /\ result' = [result EXCEPT ![t] = "none"]
    BY <1>3 DEF Remote!Invoke
  <2>2. result'[t] = "none" /\ \A u \in Threads \ {t} : result'[u] = result[u] /\ ran'[u] = ran[u]
    BY <1>1, <2>1
  <2> QED
    BY <2>2 DEF SuccessMeansExecuted
<1>4. ASSUME NEW t \in Threads, Remote!Execute(t)
      PROVE  SuccessMeansExecuted'
  <2>1. phase[t] # "idle" /\ result' = result
    BY <1>4 DEF Remote!Execute
  <2>2. result[t] = "none"
    BY <2>1 DEF IInv, Core, Types, ClientTypes, LockInv
  <2>3. \A u \in Threads \ {t} : ran'[u] = ran[u]
    BY <1>1, <1>4 DEF Remote!Execute
  <2> QED
    BY <2>1, <2>2, <2>3 DEF SuccessMeansExecuted
<1>5. ASSUME NEW t \in Threads, Remote!Return(t)
      PROVE  SuccessMeansExecuted'
  <2>1. PICK r \in Remote!Allowed(ran[t]) : result' = [result EXCEPT ![t] = r]
    BY <1>5 DEF Remote!Return
  <2>2. ran' = ran
    BY <1>5 DEF Remote!Return
  <2>3. result'[t] = r /\ \A u \in Threads \ {t} : result'[u] = result[u]
    BY <1>1, <2>1
  <2>4. r = "SUCCESS" => ran[t] = "ok"
    BY <2>1 DEF Remote!Allowed
  <2> QED
    BY <2>2, <2>3, <2>4 DEF SuccessMeansExecuted
<1> QED
  BY <1>2, <1>3, <1>4, <1>5 DEF Remote!Next

\* SuccessMeansExecuted: CL_SUCCESS is returned for a command that the driver
\* carried out (PacketType::Success, packet.h line 36).
THEOREM SuccessIsTrue ==
  ASSUME CallsAreConversations, CallsReportLoss, CallsReportFailure
  PROVE  Spec => []SuccessMeansExecuted
<1>1. Init => SuccessMeansExecuted
  BY DEF Init, SuccessMeansExecuted
<1>2. IInv /\ SuccessMeansExecuted /\ [Next]_vars => SuccessMeansExecuted'
  BY RemoteStep, SuccessStep
<1> QED
  BY <1>1, <1>2, AlwaysIInv, PTL DEF Spec

-----------------------------------------------------------------------------
(* Somebody always goes on. *)

\* What the theorem assumes of the calls besides.
CallsAreUnblocked == \A c \in Calls : Unblocked(c)

\* While the connection is up: what is in a write buffer will be flushed before its
\* writer reads again; and a handler that refuses has not carried its command out.
ClientDue == link = "up" /\ cbuf # << >> => FlushDue(todo[lock])
ServerDue == link = "up" /\ sbuf # << >> => FlushDue(job)
NotRefused == link = "up" /\ lock # NoThread /\ Refuses(call[lock]) => ran[lock] # "ok"
DueInv == ClientDue /\ ServerDue /\ NotRefused

\* With a flush due the next step is not a read, and after any but a flush it is still due.
LEMMA DueTail ==
  ASSUME NEW s \in Seq(StepsA), FlushDue(s)
  PROVE  s # << >> /\ Head(s).do # "read" /\ (Head(s).do # "flush" => FlushDue(Tail(s)))
<1>1. PICK q \in 1 .. Len(s) : s[q].do = "flush" /\ \A k \in 1 .. q : s[k].do # "read"
  BY DEF FlushDue
<1>2. Len(s) \in Nat /\ q \in Nat /\ q >= 1 /\ q <= Len(s) /\ s # << >>
  BY <1>1
<1>3. /\ Tail(s) \in Seq(StepsA) /\ Len(Tail(s)) = Len(s) - 1
      /\ \A i \in 1 .. Len(s) - 1 : Tail(s)[i] = s[i + 1]
      /\ Head(s) = s[1]
  BY <1>2, TailTaken
<1>4. Head(s).do # "read"
  BY <1>1, <1>2, <1>3
<1>5. ASSUME Head(s).do # "flush"
      PROVE  FlushDue(Tail(s))
  <2> DEFINE T == Tail(s)
             n == Len(s)
             p == q - 1
  <2>1. q # 1
    BY <1>1, <1>3, <1>5
  <2>2. p \in 1 .. n - 1 /\ p + 1 = q
    BY <1>2, <2>1
  <2>3. T[p].do = "flush"
    BY <1>1, <1>3, <2>2
  <2>4. ASSUME NEW k \in 1 .. p
        PROVE  T[k].do # "read"
    <3>1. k \in 1 .. n - 1 /\ k + 1 \in 1 .. q
      BY <1>2, <2>2
    <3> QED
      BY <1>1, <1>3, <3>1
  <2>5. p \in 1 .. Len(T)
    BY <1>3, <2>2
  <2> HIDE DEF T, p
  <2> QED
    BY <2>3, <2>4, <2>5 DEF FlushDue, T
<1> QED
  BY <1>2, <1>4, <1>5

\* A handler that has failed, and run(), still flush.
LEMMA DueAtEnd ==
  FlushDue(<<F>>) /\ FlushDue(ErrorSteps)
<1>1. FlushDue(<<F>>)
  <2> DEFINE s == <<F>>
  <2>1. Len(s) = 1 /\ s[1] = F /\ F.do = "flush"
    BY DEF F
  <2> HIDE DEF s
  <2>2. 1 \in 1 .. Len(s) /\ \A k \in 1 .. 1 : k = 1
    BY <2>1
  <2>3. s[1].do = "flush" /\ \A k \in 1 .. 1 : s[k].do # "read"
    BY <2>1, <2>2
  <2> QED
    BY <2>2, <2>3 DEF FlushDue, s
<1>2. FlushDue(ErrorSteps)
  <2> DEFINE s == ErrorSteps
  <2>1. Len(s) = 2 /\ s[1] = W("Error") /\ s[2] = F
    BY DEF ErrorSteps
  <2>2. F.do = "flush" /\ W("Error").do = "write"
    BY DEF F, W
  <2> HIDE DEF s
  <2>3. 2 \in 1 .. Len(s) /\ \A k \in 1 .. 2 : k = 1 \/ k = 2
    BY <2>1
  <2>4. s[2].do = "flush" /\ \A k \in 1 .. 2 : s[k].do # "read"
    BY <2>1, <2>2, <2>3
  <2> QED
    BY <2>3, <2>4 DEF FlushDue, s
<1> QED
  BY <1>1, <1>2

\* After a write a flush is due.
LEMMA WriteDue ==
  ASSUME NEW s \in Seq(StepsA), Flushes(s), NEW i \in 0 .. Len(s) - 1, s[i + 1].do = "write"
  PROVE  FlushDue(SubSeq(s, (i + 1) + 1, Len(s)))
<1>1. i + 1 \in 1 .. Len(s)
  OBVIOUS
<1> QED
  BY <1>1 DEF Flushes

\* The client writes: what it has in its buffer will be flushed.
LEMMA ClientWritesDue ==
  ASSUME NEW r, NEW c \in Calls, Conversation(c), Unblocked(c), NEW T, NEW t, NEW by, NEW U, NEW V, NEW J,
         UpTalk(c, T, t, U, V, J, by, r), NextIs(T, "write")
  PROVE  FlushDue(Tail(T))
<1>1. PICK i \in 0 .. Len(c.steps) : LeftAfter(c, i, T)
  BY DEF UpTalk
<1>2. /\ i < Len(c.steps) /\ i \in Nat /\ Head(T) = c.steps[i + 1] /\ LeftAfter(c, i + 1, Tail(T))
  BY <1>1, LeftStep DEF NextIs
<1>3. c.steps \in Seq(StepsA) /\ Len(c.steps) \in Nat
  BY ScriptTypes
<1>4. i \in 0 .. Len(c.steps) - 1 /\ c.steps[i + 1].do = "write"
  BY <1>2, <1>3 DEF NextIs
<1>5. Flushes(c.steps)
  BY DEF Unblocked
<1>6. FlushDue(SubSeq(c.steps, (i + 1) + 1, Len(c.steps)))
  BY <1>3, <1>4, <1>5, WriteDue
<1> QED
  BY <1>2, <1>6 DEF LeftAfter

\* And so does the server.
LEMMA ServerWritesDue ==
  ASSUME NEW r, NEW c \in Calls, Conversation(c), Unblocked(c), NEW T, NEW t, NEW by, NEW U, NEW V, NEW J,
         UpTalk(c, T, t, U, V, J, by, r), NextIs(J, "write")
  PROVE  FlushDue(Tail(J))
<1>1. PICK i \in 0 .. Len(c.steps), j \in 0 .. Len(Handler(c)) : Talk(c, i, j, t, U, V, J, by, r)
  BY DEF UpTalk
<1>2. During(c, i, j, t, V, J, by, r) \/ Failing(c, i, j, t, U, V, J, by, r)
  BY <1>1, TalkJob DEF NextIs, Talk
<1>3. CASE During(c, i, j, t, V, J, by, r)
  <2>1. J = SubSeq(Handler(c), j + 1, Len(Handler(c))) /\ J # << >>
    BY <1>3 DEF During, NextIs
  <2>2. /\ j < Len(Handler(c)) /\ j \in Nat /\ Head(J) = Handler(c)[j + 1]
        /\ Tail(J) = SubSeq(Handler(c), (j + 1) + 1, Len(Handler(c)))
    BY <2>1, HandlerStep
  <2>3. Handler(c) \in Seq(StepsA) /\ Len(Handler(c)) \in Nat
    BY ScriptTypes
  <2>4. j \in 0 .. Len(Handler(c)) - 1 /\ Handler(c)[j + 1].do = "write"
    BY <2>2, <2>3 DEF NextIs
  <2>5. Flushes(Handler(c))
    BY DEF Unblocked
  <2> QED
    BY <2>2, <2>3, <2>4, <2>5, WriteDue
<1>4. CASE Failing(c, i, j, t, U, V, J, by, r)
  <2>1. Tail(J) = <<F>>
    BY <1>4, FirstSteps DEF Failing
  <2> QED
    BY <2>1, DueAtEnd
<1> QED
  BY <1>2, <1>3, <1>4

\* A command fails: the ErrorPacket is flushed.
LEMMA UpFails ==
  ASSUME NEW r, NEW c \in Calls, Conversation(c), NEW T, NEW t, NEW by, NEW U, NEW V, NEW J,
         UpTalk(c, T, t, U, V, J, by, r), NEW do \in Commands, NextIs(J, do)
  PROVE  Failure(Head(J), Tail(J)) = ErrorSteps
<1>1. PICK i \in 0 .. Len(c.steps), j \in 0 .. Len(Handler(c)) : Talk(c, i, j, t, U, V, J, by, r)
  BY DEF UpTalk
<1>2. During(c, i, j, t, V, J, by, r)
  BY <1>1, TalkJob DEF NextIs, Commands
<1>3. J = SubSeq(Handler(c), j + 1, Len(Handler(c))) /\ J # << >> /\ Head(J).do \in Commands
  BY <1>2 DEF During, NextIs
<1> QED
  BY <1>3, FailureSteps

\* A handler that refuses does not get to its end without a failure.
LEMMA RefusesLast ==
  ASSUME NEW r, NEW c \in Calls, Conversation(c), Refuses(c), NEW T, NEW t, NEW by, NEW U, NEW V, NEW J,
         UpTalk(c, T, t, U, V, J, by, r), NEW do \in Commands \ {"refuse"}, NextIs(J, do)
  PROVE  ~NoCommand(Tail(J))
<1>1. PICK i \in 0 .. Len(c.steps), j \in 0 .. Len(Handler(c)) : Talk(c, i, j, t, U, V, J, by, r)
  BY DEF UpTalk
<1>2. During(c, i, j, t, V, J, by, r)
  BY <1>1, TalkJob DEF NextIs, Commands
<1> DEFINE h == Handler(c)
           n == Len(h)
<1>3. J = SubSeq(h, j + 1, n) /\ J # << >>
  BY <1>2 DEF During, NextIs
<1>4. j < n /\ j \in Nat /\ Head(J) = h[j + 1] /\ Tail(J) = SubSeq(h, (j + 1) + 1, n)
  BY <1>3, HandlerStep
<1>5. h \in Seq(StepsA) /\ n \in Nat /\ h[n] = F
  BY ScriptTypes
<1>6. PICK m \in 1 .. n : h[m].do = "refuse"
  BY DEF Refuses
<1>7. m = n - 1
  BY <1>6 DEF Conversation, WellFormed
<1>8. h[j + 1].do = do /\ do \in Commands /\ do # "refuse"
  BY <1>4 DEF NextIs
<1>9. j + 1 # n
  <2>1. F.do \notin Commands
    BY DEF F, Commands
  <2> QED
    BY <1>5, <1>8, <2>1
<1>10. j + 1 # m
  BY <1>6, <1>8
<1> HIDE DEF h, n
<1>11. m \in Nat /\ j + 1 < m /\ j + 1 \in 0 .. n /\ m - (j + 1) \in 1 .. n - (j + 1) /\ (j + 1) + (m - (j + 1)) = m
  <2> DEFINE k == j + 1
  <2>1. j \in Nat /\ n \in Nat /\ m \in 1 .. n /\ j < n
    BY <1>4, <1>5, <1>6
  <2>2. k \in Nat /\ k <= n
    BY ONLY <2>1
  <2>3. k # n /\ k # m
    BY <1>9, <1>10
  <2>4. m = n - 1
    BY <1>7
  <2> HIDE DEF k
  <2>5. m \in Nat /\ k < m /\ k \in 0 .. n /\ m - k \in 1 .. n - k /\ k + (m - k) = m
    BY ONLY <2>1, <2>2, <2>3, <2>4
  <2> QED
    BY ONLY <2>5 DEF k
<1> DEFINE q == m - (j + 1)
           left == SubSeq(h, (j + 1) + 1, n)
<1>12. Len(left) = n - (j + 1) /\ \A k \in 1 .. n - (j + 1) : left[k] = h[(j + 1) + k]
  BY <1>5, <1>11, SuffixTaken DEF n
<1>13. q \in 1 .. Len(left) /\ left[q].do = "refuse"
  BY <1>6, <1>11, <1>12
<1>14. "refuse" \in Commands
  BY DEF Commands
<1> HIDE DEF q, left
<1>15. ~NoCommand(left)
  BY <1>13, <1>14 DEF NoCommand
<1> QED
  BY <1>4, <1>15 DEF left

\* The two sides do not both wait for a packet when none is on its way.
LEMMA TalkGoesOnReading ==
  ASSUME NEW r, NEW c \in Calls, Conversation(c), Unblocked(c), Refuses(c) => r # "ok",
         NEW T, NEW t, NEW by, NEW J, NextIs(T, "read"), J = << >> \/ NextIs(J, "read"),
         NEW U \in Seq(PacketsA), NEW V \in Seq(PacketsA), U = << >>, V = << >>,
         UpTalk(c, T, t, U, V, J, by, r)
  PROVE  FALSE
<1>0. U = << >> /\ V = << >> /\ Len(U) = 0 /\ Len(V) = 0
  OBVIOUS
<1>1. PICK i \in 0 .. Len(c.steps), j \in 0 .. Len(Handler(c)) :
        LeftAfter(c, i, T) /\ Talk(c, i, j, t, U, V, J, by, r)
  BY DEF UpTalk
<1> DEFINE n == Len(c.steps)
           m == Len(Handler(c))
<1>2. i < n /\ i + 1 \in 0 .. n /\ i \in Nat /\ c.steps[i + 1].do = "read"
  BY <1>1, LeftStep DEF NextIs
<1>3. /\ j \in Nat /\ Out(c, i) \in Nat /\ In(c, i) \in Nat /\ Got(c, j) \in Nat /\ Put(c, j) \in Nat
      /\ Got(c, j) = Out(c, i)
  <2>1. /\ j \in Nat /\ Out(c, i) \in Nat /\ In(c, i) \in Nat /\ Got(c, j) \in Nat /\ Put(c, j) \in Nat
        /\ Len(U) = Out(c, i) - Got(c, j)
    BY ONLY <1>1, Conversation(c), c \in Calls, i \in 0 .. Len(c.steps), j \in 0 .. Len(Handler(c)),
            U \in Seq(PacketsA), V \in Seq(PacketsA), TalkBounds
  <2> QED
    BY <1>0, <2>1
<1>4. Out(c, i + 1) = Out(c, i) /\ In(c, i + 1) = In(c, i) + 1
  BY <1>2, ClientCounts
<1>5. CASE Before(c, i, j, V, J, r)
  <2>1. Got(c, j) = 0
    BY <1>5, ServerCounts DEF Before
  <2>2. c.steps[0 + 1].do = "write"
    BY DEF Conversation, WellFormed
  <2>3. Out(c, 0 + 1) = Out(c, 0) + 1 /\ Out(c, 0) = 0
    BY <2>2, ClientCounts
  <2>4. i # 0
    BY <1>2, <2>2
  <2>5. Out(c, 1) = 1 /\ 1 <= i /\ 1 \in Nat
    BY <1>2, <2>3, <2>4
  <2>6. Out(c, 1) <= Out(c, i)
    BY <1>2, <2>5, ClientCounts
  <2> QED
    BY <1>3, <2>1, <2>5, <2>6
<1>6. CASE During(c, i, j, t, V, J, by, r)
  <2>1. Put(c, j) = In(c, i) /\ r = Carried(J) /\ J = SubSeq(Handler(c), j + 1, m)
    BY <1>0, <1>3, <1>6 DEF During
  <2>2. CASE J = << >>
    <3>1. r = "ok"
      BY <2>1, <2>2, RestingCarried DEF Resting
    <3>2. Put(c, m) = In(c, n)
      BY <3>1 DEF Unblocked, Answers
    <3>3. j = m
      <4>1. Handler(c) \in Seq(StepsA)
        BY ScriptTypes
      <4> QED
        BY <2>1, <2>2, <4>1, StepsLeft
    <3>4. n \in Nat /\ i + 1 \in Nat /\ i + 1 <= n
      BY <1>2, ScriptTypes
    <3>5. In(c, i + 1) <= In(c, n) /\ In(c, n) \in Nat
      BY <3>4, ClientCounts
    <3>6. In(c, n) = In(c, i)
      BY <2>1, <3>2, <3>3
    <3> QED
      BY <1>3, <1>4, <3>5, <3>6
  <2>3. CASE NextIs(J, "read")
    <3>1. j < m /\ j + 1 \in 0 .. m /\ Handler(c)[j + 1].do = "read"
      BY <2>1, <2>3, HandlerStep DEF NextIs
    <3>2. Got(c, j + 1) = Got(c, j) + 1 /\ Put(c, j + 1) = Put(c, j)
      BY <1>3, <3>1, ServerCounts
    <3>3. i + 1 \in 1 .. n /\ j + 1 \in 1 .. m
      BY <1>2, <1>3, <3>1
    <3>4. In(c, i + 1) # Put(c, j + 1) + 1 \/ Got(c, j + 1) # Out(c, i + 1) + 1
      BY <1>2, <3>1, <3>3 DEF Unblocked, NeverBothRead
    <3> QED
      BY <1>3, <1>4, <2>1, <3>2, <3>4
  <2> QED
    BY <2>2, <2>3
<1>7. CASE Failing(c, i, j, t, U, V, J, by, r)
  <2>1. J # << >> /\ Head(J).do = "write"
    BY <1>7, FirstSteps DEF Failing, ErrorSteps
  <2> QED
    BY <2>1 DEF NextIs
<1>8. CASE Failed(c, i, j, t, U, V, J, r)
  BY <1>0, <1>8 DEF Failed
<1> QED
  BY <1>1, <1>5, <1>6, <1>7, <1>8 DEF Talk

\* What the invariants say is enough.
LEMMA SomeoneFollows ==
  ASSUME CallsAreConversations, CallsAreUnblocked, IInv, DueInv
  PROVE  SomeoneGoesOn
<1> SUFFICES ASSUME link = "up", NEW t \in Threads, ClientWaits(t), ServerWaits
             PROVE  FALSE
  BY DEF SomeoneGoesOn
<1>1. phase[t] = "locked"
  BY DEF ClientWaits, At
<1>2. /\ lock = t /\ lock # NoThread /\ todo[t] \in Seq(StepsA)
      /\ c2s \in Seq(PacketsA) /\ cbuf \in Seq(PacketsA)
      /\ s2c \in Seq(PacketsA) /\ sbuf \in Seq(PacketsA)
  BY <1>1, Holder
<1> DEFINE U == c2s \o cbuf
           V == s2c \o sbuf
           c == call[lock]
           T == todo[lock]
           r == ran[lock]
<1>3. /\ c \in Calls /\ Conversation(c) /\ U \in Seq(PacketsA) /\ V \in Seq(PacketsA)
      /\ UpTalk(c, T, lock, U, V, job, request.by, r)
  BY <1>2, UpHolder
<1>4. U = << >> \/ V = << >>
  <2> HIDE DEF U, V, c, T, r
  <2>1. PICK i \in 0 .. Len(c.steps), j \in 0 .. Len(Handler(c)) :
          Talk(c, i, j, lock, U, V, job, request.by, r)
    BY <1>3 DEF UpTalk
  <2> QED
    BY <1>3, <2>1, TalkTurns
<1>5. Len(U) = Len(c2s) + Len(cbuf) /\ Len(V) = Len(s2c) + Len(sbuf)
  BY <1>2, Joined
<1>6. /\ Len(c2s) \in Nat /\ Len(s2c) \in Nat /\ Len(cbuf) \in Nat /\ Len(sbuf) \in Nat
      /\ (c2s # << >> => Len(c2s) > 0) /\ (s2c # << >> => Len(s2c) > 0)
      /\ Len(<< >>) = 0
  BY <1>2
<1>7. c2s = << >> \/ s2c = << >>
  <2> HIDE DEF U, V
  <2> QED
    BY <1>4, <1>5, <1>6
<1>8. Capacity \in Nat /\ Capacity > 0
  BY ProtocolAssumption
<1>9. job \in Seq(StepsA) /\ (server = "idle" => job = << >>)
  BY DEF IInv, Core, Types, ServerTypes
<1>10. At(t, "read") /\ s2c = << >>
  <2>1. c2s = << >> \/ Len(s2c) >= Capacity
    BY DEF ServerWaits
  <2>2. ~(Len(c2s) >= Capacity)
    BY <1>6, <1>7, <1>8, <2>1
  <2> QED
    BY <2>2 DEF ClientWaits
<1>11. (server = "idle" \/ Doing("read")) /\ c2s = << >>
  <2>1. ~(Len(s2c) >= Capacity)
    BY <1>6, <1>8, <1>10
  <2> QED
    BY <2>1 DEF ServerWaits
<1>12. NextIs(T, "read") /\ Head(todo[t]).do = "read"
  BY <1>2, <1>10 DEF At, NextIs
<1>13. cbuf = << >>
  BY <1>2, <1>12, DueTail DEF DueInv, ClientDue
<1>14. job = << >> \/ NextIs(job, "read")
  BY <1>9, <1>11 DEF Doing, NextIs
<1>15. sbuf = << >>
  BY <1>9, <1>14, DueTail DEF DueInv, ServerDue, NextIs
<1>16. U = << >> /\ V = << >>
  BY <1>10, <1>11, <1>13, <1>15
<1>17. Unblocked(c) /\ (Refuses(c) => r # "ok")
  BY <1>2, <1>3 DEF CallsAreUnblocked, DueInv, NotRefused
<1> HIDE DEF U, V, c, T, r
<1> QED
  BY <1>3, <1>12, <1>14, <1>16, <1>17, TalkGoesOnReading

\* A write buffer holds something only while a thread has the connection.
LEMMA BuffersOwned ==
  ASSUME IInv, link = "up", lock = NoThread
  PROVE  cbuf = << >> /\ sbuf = << >>
  BY DEF IInv, Core, UpInv

\* Nothing that the part of the invariant about the client depends on changes.
LEMMA ClientDueKept ==
  ASSUME IInv, DueInv, link' = "up" => link = "up", cbuf' = cbuf, lock' = lock,
         lock # NoThread => /\ call'[lock] = call[lock] /\ todo'[lock] = todo[lock]
                            /\ (ran'[lock] = "ok" => ran[lock] = "ok")
  PROVE  ClientDue' /\ NotRefused'
<1>1. ASSUME link' = "up", cbuf' # << >>
      PROVE  FlushDue(todo'[lock'])
  <2>1. link = "up" /\ cbuf # << >> /\ lock # NoThread
    BY <1>1, BuffersOwned
  <2>2. FlushDue(todo[lock])
    BY <2>1 DEF DueInv, ClientDue
  <2> QED
    BY <2>1, <2>2
<1>2. ASSUME link' = "up", lock' # NoThread, Refuses(call'[lock'])
      PROVE  ran'[lock'] # "ok"
  <2>1. ran[lock] # "ok"
    BY <1>2 DEF DueInv, NotRefused
  <2> QED
    BY <1>2, <2>1
<1> QED
  BY <1>1, <1>2 DEF ClientDue, NotRefused

\* A thread that does not have the connection calls, is refused, or gets the connection.
LEMMA EnterDue ==
  ASSUME CallsAreConversations, IInv, DueInv, NEW t \in Threads,
         (\E c \in Calls : Invoke(t, c)) \/ Reject(t) \/ Acquire(t)
  PROVE  DueInv'
<1>1. /\ UNCHANGED streamVars /\ UNCHANGED serverVars /\ phase[t] # "locked"
  BY DEF Invoke, Reject, Acquire
<1>2. link' = link /\ cbuf' = cbuf /\ sbuf' = sbuf /\ job' = job
  BY <1>1 DEF streamVars, serverVars
<1>3. ServerDue'
  BY <1>2 DEF DueInv, ServerDue
<1>4. /\ call \in [Threads -> Calls \cup {NoCall}] /\ todo \in [Threads -> Seq(StepsA)]
      /\ ran \in [Threads -> {"no", "ok", "failed"}] /\ lock \in Threads \cup {NoThread} /\ lock # t
  BY <1>1 DEF IInv, Core, Types, ClientTypes, LockInv
<1>5. CASE lock' = lock /\ \A u \in Threads \ {t} : /\ call'[u] = call[u] /\ todo'[u] = todo[u]
                                                   /\ ran'[u] = ran[u]
  <2>1. lock # NoThread => lock \in Threads \ {t}
    BY <1>4
  <2>2. ClientDue' /\ NotRefused'
    BY <1>2, <1>5, <2>1, ClientDueKept
  <2> QED
    BY <1>3, <2>2 DEF DueInv
<1>6. CASE Acquire(t) /\ haveStream /\ lock' = t /\ lock = NoThread /\ ran' = ran
  <2>1. link = "up" => cbuf = << >>
    BY <1>6, BuffersOwned
  <2>2. ClientDue'
    BY <1>2, <2>1 DEF ClientDue
  <2>3. ran[t] = "no"
    BY <1>6 DEF Acquire, IInv, RanInv
  <2>4. NotRefused'
    BY <1>6, <2>3 DEF NotRefused
  <2> QED
    BY <1>3, <2>2, <2>4 DEF DueInv
<1>7. ASSUME NEW c \in Calls, Invoke(t, c)
      PROVE  DueInv'
  <2>1. /\ call' = [call EXCEPT ![t] = c] /\ todo' = [todo EXCEPT ![t] = c.steps]
        /\ ran' = [ran EXCEPT ![t] = "no"] /\ lock' = lock
    BY <1>7 DEF Invoke
  <2> QED
    BY <1>4, <1>5, <2>1
<1>8. ASSUME NEW r, Finish(t, r), ran' = ran
      PROVE  DueInv'
  <2>1. /\ call' = [call EXCEPT ![t] = NoCall] /\ todo' = [todo EXCEPT ![t] = << >>]
        /\ lock' = IF lock = t THEN NoThread ELSE lock
    BY <1>8 DEF Finish
  <2> QED
    BY <1>4, <1>5, <1>8, <2>1
<1>9. CASE Reject(t)
  BY <1>8, <1>9 DEF Reject
<1>10. CASE Acquire(t)
  BY <1>6, <1>8, <1>10 DEF Acquire
<1> QED
  BY <1>7, <1>9, <1>10

\* The thread that has the connection goes on with its call: the buffer is empty, or a flush
\* is due in what is left.
LEMMA ProceedDue ==
  ASSUME IInv, DueInv, NEW t \in Threads, lock = t, Proceed(t), UNCHANGED serverVars, UNCHANGED ran,
         link' = link, sbuf' = sbuf, link = "up" => cbuf' = << >> \/ FlushDue(Tail(todo[t]))
  PROVE  DueInv'
<1>1. job' = job /\ ran' = ran /\ lock' = lock /\ call' = call
  BY DEF serverVars, Proceed
<1>2. todo' = [todo EXCEPT ![t] = Tail(@)] /\ todo \in [Threads -> Seq(StepsA)]
  BY DEF Proceed, IInv, Core, Types, ClientTypes
<1>3. todo'[t] = Tail(todo[t])
  BY <1>2
<1>4. ServerDue' /\ NotRefused'
  BY <1>1 DEF DueInv, ServerDue, NotRefused
<1>5. ClientDue'
  BY <1>1, <1>3 DEF ClientDue
<1> QED
  BY <1>4, <1>5 DEF DueInv

\* It returns, with nothing left in its buffer.
LEMMA FinishDue ==
  ASSUME IInv, DueInv, NEW t \in Threads, lock = t, NEW r, Finish(t, r), UNCHANGED serverVars,
         link' = "up" => link = "up" /\ cbuf' = << >> /\ sbuf' = sbuf
  PROVE  DueInv'
<1>1. job' = job /\ lock' = NoThread
  BY DEF serverVars, Finish
<1> QED
  BY <1>1 DEF DueInv, ClientDue, ServerDue, NotRefused

\* After the loss of the connection there is nothing to show.
LEMMA LostDue ==
  ASSUME link' # "up"
  PROVE  DueInv'
  BY DEF DueInv, ClientDue, ServerDue, NotRefused

\* A step of the thread that has the connection.
LEMMA HolderDue ==
  ASSUME CallsAreConversations, CallsAreUnblocked, IInv, DueInv, NEW t \in Threads, HolderStep(t)
  PROVE  DueInv'
<1>1. phase[t] = "locked" /\ UNCHANGED serverVars /\ UNCHANGED ran
  BY DEF HolderStep, ClientWrite, ClientFlush, ClientRead, Return, At
<1>2. /\ lock = t /\ lock # NoThread /\ todo[t] \in Seq(StepsA) /\ cbuf \in Seq(PacketsA)
      /\ link \in {"up", "cut"}
  BY <1>1, Holder DEF IInv, Core, Types, StreamTypes
<1>3. link = "up" /\ cbuf # << >> => FlushDue(todo[t])
  BY <1>2 DEF DueInv, ClientDue
<1>4. CASE ClientWrite(t)
  <2>1. link' = link /\ sbuf' = sbuf /\ NextIs(todo[t], "write")
    BY <1>4 DEF ClientWrite, At, NextIs
  <2>2. CASE link = "up"
    <3>1. Proceed(t)
      BY <1>4, <2>2 DEF ClientWrite
    <3>2. FlushDue(Tail(todo[t]))
      <4> DEFINE U == c2s \o cbuf
                 V == s2c \o sbuf
                 c == call[t]
                 T == todo[t]
                 r == ran[t]
      <4>1. /\ c \in Calls /\ Conversation(c) /\ NextIs(T, "write")
            /\ UpTalk(c, T, t, U, V, job, request.by, r)
        BY <1>2, <2>1, <2>2, UpHolder
      <4>2. Unblocked(c)
        BY <4>1 DEF CallsAreUnblocked
      <4> HIDE DEF U, V, c, T, r
      <4>3. FlushDue(Tail(T))
        BY <4>1, <4>2, ClientWritesDue
      <4> QED
        BY <4>3 DEF T
    <3> QED
      BY <1>1, <1>2, <2>1, <3>1, <3>2, ProceedDue
  <2> QED
    BY <1>2, <2>1, <2>2, LostDue
<1>5. CASE ClientFlush(t)
  <2>1. link' = link /\ sbuf' = sbuf
    BY <1>5 DEF ClientFlush
  <2>2. CASE cbuf = << >> /\ Proceed(t) /\ UNCHANGED <<cbuf, c2s>>
    BY <1>1, <1>2, <2>1, <2>2, ProceedDue
  <2>3. ASSUME NEW k \in 1 .. Len(cbuf), cbuf' = Rest(cbuf, k),
               IF k = Len(cbuf) THEN Proceed(t) ELSE UNCHANGED clientVars
        PROVE  DueInv'
    <3>1. CASE k = Len(cbuf)
      <4>1. cbuf' = << >>
        BY <1>2, <2>3, <3>1, StepsLeft DEF Rest
      <4> QED
        BY <1>1, <1>2, <2>1, <2>3, <3>1, <4>1, ProceedDue
    <3>2. CASE k # Len(cbuf)
      <4>1. lock' = lock /\ call' = call /\ todo' = todo /\ ran' = ran /\ job' = job
        BY <1>1, <2>3, <3>2 DEF clientVars, serverVars
      <4>2. cbuf # << >>
        BY <1>2, <2>3
      <4>3. link = "up" => FlushDue(todo[t])
        BY <1>3, <4>2
      <4> QED
        BY <1>2, <2>1, <4>1, <4>3 DEF DueInv, ClientDue, ServerDue, NotRefused
    <3> QED
      BY <3>1, <3>2
  <2>4. CASE link = "cut"
    BY <2>1, <2>4, LostDue
  <2> QED
    BY <1>5, <2>2, <2>3, <2>4 DEF ClientFlush
<1>6. CASE ClientRead(t)
  <2>1. todo[t] # << >> /\ Head(todo[t]).do = "read"
    BY <1>6 DEF ClientRead, At
  <2>2. link = "up" => cbuf = << >>
    BY <1>2, <1>3, <2>1, DueTail
  <2>3. CASE Proceed(t) /\ UNCHANGED <<link, cbuf, c2s, sbuf>>
    BY <1>1, <1>2, <2>2, <2>3, ProceedDue
  <2>4. CASE Finish(t, call[t].error) /\ UNCHANGED <<link, cbuf, c2s, sbuf, orphans>>
    BY <1>1, <1>2, <2>2, <2>4, FinishDue
  <2>5. CASE link = "cut" /\ UNCHANGED streamVars
    BY <2>5, LostDue DEF streamVars
  <2>6. CASE Lose
    BY <2>6, LostDue DEF Lose
  <2> QED
    BY <1>6, <2>3, <2>4, <2>5, <2>6 DEF ClientRead
<1>7. CASE Return(t)
  <2>1. todo[t] = << >> /\ UNCHANGED streamVars /\ Finish(t, "SUCCESS")
    BY <1>7 DEF Return
  <2>2. link' = link /\ cbuf' = cbuf /\ sbuf' = sbuf
    BY <2>1 DEF streamVars
  <2>3. link = "up" => cbuf = << >>
    BY <1>2, <1>3, <2>1, DueTail
  <2> QED
    BY <1>1, <1>2, <2>1, <2>2, <2>3, FinishDue
<1> QED
  BY <1>4, <1>5, <1>6, <1>7 DEF HolderStep

\* The server goes on, and the client does not notice.
LEMMA ServerDueStep ==
  ASSUME IInv, DueInv, UNCHANGED clientVars, cbuf' = cbuf, link' = link, NEW steps,
         ServerGoesOn(steps), link = "up" => sbuf' = << >> \/ FlushDue(steps),
         lock # NoThread /\ Refuses(call[lock]) /\ link = "up" => ran'[lock] # "ok" \/ ran' = ran
  PROVE  DueInv'
<1>1. job' = steps /\ lock' = lock /\ call' = call /\ todo' = todo
  BY DEF ServerGoesOn, clientVars
<1> QED
  BY <1>1 DEF DueInv, ClientDue, ServerDue, NotRefused

\* The server stops.
LEMMA StopsDue ==
  ASSUME \E how \in {"ended", "aborted"} : ServerStops(how)
  PROVE  DueInv'
<1>1. link' = "cut"
  BY DEF ServerStops
<1> QED
  BY <1>1, LostDue

\* A handler that refuses does not carry its command out.
LEMMA CommandDue ==
  ASSUME CallsAreConversations, IInv, DueInv, NEW do \in Commands, NextIs(job, do), link = "up",
         Refuses(call[lock]), Ended("ok"), NoCommand(Tail(job)), do # "refuse"
  PROVE  FALSE
<1>1. lock # NoThread
  <2>1. do # "flush"
    BY DEF Commands
  <2> QED
    BY <2>1, Busy
<1> DEFINE U == c2s \o cbuf
           V == s2c \o sbuf
           c == call[lock]
           T == todo[lock]
           r == ran[lock]
           J == job
           by == request.by
<1>2. /\ c \in Calls /\ Conversation(c) /\ Refuses(c) /\ NextIs(J, do) /\ NoCommand(Tail(J))
      /\ UpTalk(c, T, lock, U, V, J, by, r)
  BY <1>1, UpHolder
<1>3. do \in Commands \ {"refuse"}
  OBVIOUS
<1> HIDE DEF U, V, c, T, r, J, by
<1> QED
  BY <1>2, <1>3, RefusesLast

\* A step of the server.
LEMMA ServerStepDue ==
  ASSUME CallsAreConversations, CallsAreUnblocked, IInv, DueInv, ServerStep
  PROVE  DueInv'
<1>1. /\ job \in Seq(StepsA) /\ sbuf \in Seq(PacketsA) /\ (server = "idle" => job = << >>)
      /\ link \in {"up", "cut"}
  BY DEF IInv, Core, Types, ServerTypes, StreamTypes
<1>2. link = "up" /\ sbuf # << >> => FlushDue(job)
  BY DEF DueInv, ServerDue
<1>3. CASE ServerPeek
  <2>1. CASE server = "idle" /\ UNCHANGED streamVars
    <3>1. link = "up" => sbuf = << >>
      BY <1>1, <1>2, <2>1, DueTail
    <3>2. /\ lock' = lock /\ call' = call /\ todo' = todo /\ ran' = ran
          /\ cbuf' = cbuf /\ sbuf' = sbuf /\ link' = link
      BY <1>3, <2>1 DEF ServerPeek, clientVars, streamVars
    <3> QED
      BY <3>1, <3>2 DEF DueInv, ClientDue, ServerDue, NotRefused
  <2> QED
    BY <1>3, <2>1, StopsDue DEF ServerPeek
<1>4. CASE ServerRead
  <2>1. UNCHANGED clientVars /\ ran' = ran /\ job # << >> /\ Head(job).do = "read"
    BY <1>4 DEF ServerRead, Doing
  <2>2. link = "up" => sbuf = << >>
    BY <1>1, <1>2, <2>1, DueTail
  <2>3. CASE ServerGoesOn(Tail(job)) /\ UNCHANGED <<link, cbuf, sbuf, s2c, userEvent>>
    BY <2>1, <2>2, <2>3, ServerDueStep
  <2> QED
    BY <1>4, <2>3, StopsDue DEF ServerRead
<1>5. CASE ServerWrite
  <2>1. UNCHANGED clientVars /\ ran' = ran /\ NextIs(job, "write")
    BY <1>5 DEF ServerWrite, Doing, NextIs
  <2>2. CASE link' = link /\ cbuf' = cbuf /\ ServerGoesOn(Tail(job))
    <3>1. ASSUME link = "up"
          PROVE  FlushDue(Tail(job))
      <4>1. lock # NoThread
        BY <2>1, <3>1, Busy
      <4> DEFINE U == c2s \o cbuf
                 V == s2c \o sbuf
                 c == call[lock]
                 T == todo[lock]
                 r == ran[lock]
                 J == job
                 by == request.by
      <4>2. /\ c \in Calls /\ Conversation(c) /\ NextIs(J, "write")
            /\ UpTalk(c, T, lock, U, V, J, by, r)
        BY <2>1, <3>1, <4>1, UpHolder
      <4>3. Unblocked(c)
        BY <4>2 DEF CallsAreUnblocked
      <4> HIDE DEF U, V, c, T, r, J, by
      <4>4. FlushDue(Tail(J))
        BY <4>2, <4>3, ServerWritesDue
      <4> QED
        BY <4>4 DEF J
    <3> QED
      BY <2>1, <2>2, <3>1, ServerDueStep
  <2> QED
    BY <1>5, <2>2, StopsDue DEF ServerWrite
<1>6. CASE ServerFlush
  <2>1. UNCHANGED clientVars /\ ran' = ran /\ job # << >>
    BY <1>6 DEF ServerFlush, Doing
  <2>2. CASE sbuf = << >> /\ ServerGoesOn(Tail(job)) /\ UNCHANGED <<streamVars, userEvent>>
    <3>1. link' = link /\ cbuf' = cbuf /\ sbuf' = sbuf
      BY <2>2 DEF streamVars
    <3> QED
      BY <2>1, <2>2, <3>1, ServerDueStep
  <2>3. ASSUME NEW k \in 1 .. Len(sbuf), sbuf' = Rest(sbuf, k), link' = link, cbuf' = cbuf,
               ServerGoesOn(IF k = Len(sbuf) THEN Tail(job) ELSE job)
        PROVE  DueInv'
    <3>1. CASE k = Len(sbuf)
      <4>1. sbuf' = << >>
        BY <1>1, <2>3, <3>1, StepsLeft DEF Rest
      <4>2. ServerGoesOn(Tail(job))
        BY <2>3, <3>1
      <4> QED
        BY <2>1, <2>3, <4>1, <4>2, ServerDueStep
    <3>2. CASE k # Len(sbuf)
      <4>1. ServerGoesOn(job)
        BY <2>3, <3>2
      <4>2. sbuf # << >>
        BY <1>1, <2>3
      <4> QED
        BY <1>2, <2>1, <2>3, <4>1, <4>2, ServerDueStep
    <3> QED
      BY <3>1, <3>2
  <2>4. CASE link = "cut" /\ link' = link
    BY <2>4, LostDue
  <2> QED
    BY <1>6, <2>2, <2>3, <2>4, StopsDue DEF ServerFlush
<1>7. CASE ServerCall
  <2>1. PICK do \in Commands : Doing(do)
    BY <1>7 DEF ServerCall
  <2>2. /\ UNCHANGED clientVars /\ NextIs(job, do) /\ do \notin {"read", "flush"}
        /\ link' = link /\ cbuf' = cbuf /\ sbuf' = sbuf
    BY <1>7, <2>1 DEF ServerCall, streamVars, Doing, NextIs, Commands
  <2>3. link = "up" /\ sbuf # << >> => FlushDue(Tail(job))
    BY <1>1, <1>2, <2>2, DueTail DEF NextIs
  <2>4. CASE /\ do # "refuse" /\ ServerGoesOn(Tail(job))
             /\ IF NoCommand(Tail(job)) THEN Ended("ok") ELSE UNCHANGED ran
    <3>1. lock # NoThread /\ Refuses(call[lock]) /\ link = "up" => ran' = ran
      BY <2>2, <2>4, CommandDue
    <3> QED
      BY <2>2, <2>3, <2>4, <3>1, ServerDueStep
  <2>5. CASE ServerGoesOn(Failure(Head(job), Tail(job))) /\ Ended("failed")
    <3>1. lock # NoThread /\ link = "up" => ran'[lock] # "ok" \/ ran' = ran
      <4>1. ran \in [Threads -> {"no", "ok", "failed"}] /\ lock \in Threads \cup {NoThread}
        BY DEF IInv, Core, Types, ClientTypes
      <4>2. ASSUME lock # NoThread, link = "up"
            PROVE  request.by = lock
        <5> DEFINE U == c2s \o cbuf
                   V == s2c \o sbuf
                   c == call[lock]
                   T == todo[lock]
                   r == ran[lock]
                   J == job
                   by == request.by
        <5>1. /\ c \in Calls /\ Conversation(c) /\ U \in Seq(PacketsA) /\ V \in Seq(PacketsA)
              /\ UpTalk(c, T, lock, U, V, J, by, r) /\ NextIs(J, do)
          BY <2>2, <4>2, UpHolder
        <5> HIDE DEF U, V, c, T, r, J, by
        <5>2. by = lock
          BY <5>1, UpCommand
        <5> QED
          BY <5>2 DEF by
      <4>3. CASE request.by \in orphans
        BY <2>5, <4>3 DEF Ended
      <4>4. ASSUME lock # NoThread, link = "up", request.by \notin orphans
            PROVE  ran'[lock] = "failed"
        <5>1. ran' = [ran EXCEPT ![lock] = "failed"]
          BY <2>5, <4>2, <4>4 DEF Ended
        <5> QED
          BY <4>1, <4>4, <5>1
      <4> QED
        BY <4>3, <4>4
    <3>2. ASSUME link = "up"
          PROVE  FlushDue(Failure(Head(job), Tail(job)))
      <4>1. lock # NoThread
        BY <2>2, <3>2, Busy
      <4> DEFINE U == c2s \o cbuf
                 V == s2c \o sbuf
                 c == call[lock]
                 T == todo[lock]
                 r == ran[lock]
                 J == job
                 by == request.by
      <4>2. /\ c \in Calls /\ Conversation(c) /\ UpTalk(c, T, lock, U, V, J, by, r) /\ NextIs(J, do)
        BY <2>2, <3>2, <4>1, UpHolder
      <4> HIDE DEF U, V, c, T, r, J, by
      <4>3. Failure(Head(J), Tail(J)) = ErrorSteps
        BY <4>2, UpFails
      <4> QED
        BY <4>3, DueAtEnd DEF J
    <3> DEFINE steps == Failure(Head(job), Tail(job))
    <3>3. ServerGoesOn(steps) /\ (link = "up" => FlushDue(steps))
      BY <2>5, <3>2
    <3> HIDE DEF steps
    <3> QED
      BY <2>2, <3>1, <3>3, ServerDueStep
  <2>6. \/ /\ do # "refuse" /\ ServerGoesOn(Tail(job))
           /\ IF NoCommand(Tail(job)) THEN Ended("ok") ELSE UNCHANGED ran
        \/ ServerGoesOn(Failure(Head(job), Tail(job))) /\ Ended("failed")
    BY <1>7, <2>2 DEF ServerCall, NextIs
  <2> QED
    BY <2>4, <2>5, <2>6
<1> QED
  BY <1>3, <1>4, <1>5, <1>6, <1>7 DEF ServerStep

\* Every step keeps the invariant.
LEMMA NextDue ==
  ASSUME CallsAreConversations, CallsAreUnblocked, IInv, DueInv, [Next]_vars
  PROVE  DueInv'
<1>1. CASE Still
  BY <1>1 DEF Still, clientVars, streamVars, serverVars, DueInv, ClientDue, ServerDue, NotRefused
<1>2. CASE Cut \/ Exit
  <2>1. link' = "cut"
    BY <1>2 DEF Cut, Exit, Lose
  <2> QED
    BY <2>1, LostDue
<1>3. ASSUME NEW t \in Threads, (\E c \in Calls : Invoke(t, c)) \/ Reject(t) \/ Acquire(t)
      PROVE  DueInv'
  BY <1>3, EnterDue
<1>4. ASSUME NEW t \in Threads, HolderStep(t)
      PROVE  DueInv'
  BY <1>4, HolderDue
<1>5. CASE ServerStep
  BY <1>5, ServerStepDue
<1> QED
  BY <1>1, <1>2, <1>3, <1>4, <1>5, NextSteps DEF Step

\* SomeoneGoesOn: the two sides never wait for each other, for any number of threads and however
\* little the socket takes; so a question or a reply never stays in a write buffer
\* (setKernelArg, program.cpp line 396; run, instance.cpp line 328).
THEOREM NeverBothWait ==
  ASSUME CallsAreConversations, CallsAreUnblocked
  PROVE  Spec => []SomeoneGoesOn
<1>1. Init => DueInv
  BY DEF Init, DueInv, ClientDue, ServerDue, NotRefused
<1>2. IInv /\ DueInv /\ [Next]_vars => DueInv'
  BY NextDue
<1>3. IInv /\ DueInv => SomeoneGoesOn
  BY SomeoneFollows
<1> QED
  BY <1>1, <1>2, <1>3, AlwaysIInv, PTL DEF Spec
=============================================================================

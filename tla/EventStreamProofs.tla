-------------------------- MODULE EventStreamProofs --------------------------
(***************************************************************************)
(* Proofs about EventStream, for any number of threads of the application  *)
(* and of the driver, every set of applications that register no more      *)
(* callbacks than there are numbers for them, and every capacity.          *)
(***************************************************************************)
EXTENDS EventStream, SequenceFacts, FiniteSetTheorems, TLAPS

-----------------------------------------------------------------------------
(* The inductive invariant. *)

\* IDType has room for every callback.
FewCallbacks == \A a \in Apps : a.max <= IDLimit

Requests == [op : Ops \cup {"none"}, id : Int, by : Callers \cup {Nobody}]
Signals  == [at : {"none", "enter", "trigger", "code", "flush"}, id : Int,
             kind : {"none", "event", "program"}, code : Int]
Runnings == [id : Int, kind : {"event", "program"}, code : Int]
PacketsE == [ty : {"trigger", "code"}, data : Int]

Types ==
  /\ app \in Apps
  /\ op \in [Callers -> Ops \cup {"none"}]
  /\ stage \in [Callers -> {"idle", "get", "register", "send", "await", "notify", "stuck"}]
  /\ cbid \in [Callers -> Int]
  /\ mCallbacks \in Seq({"event", "program"})
  /\ handler \in {"wait", "lock", "code", "user", "called", "ended"}
  /\ index \in Int
  /\ request \in Requests
  /\ armed \subseteq [id : Int, kind : {"event", "program"}]
  /\ signal \in [Signallers -> Signals]
  /\ link \in {"up", "cut"}
  /\ ebuf \in Seq(PacketsE) /\ ewire \in Seq(PacketsE)
  /\ fired \in Seq(Signals) /\ ran \in Seq(Runnings)

\* The calls that have still to register their callback.
Registering == {t \in Callers : op[t] \in {"set", "compile"} /\ stage[t] \in {"get", "register"}}

\* The callback with number i is in the list C, as one of kind k.
Registered(C, i, k) == i \in 0 .. Len(C) - 1 /\ C[i + 1] = k
KindOfOp(o) == IF o = "set" THEN "event" ELSE "program"

\* A call knows its callback by its number; there are never too many.
CallInv ==
  /\ Len(mCallbacks) + Cardinality(Registering) <= app.max /\ app.max <= IDLimit
  /\ \A t \in Callers : stage[t] = "register" => op[t] \in {"set", "compile"}
  /\ \A t \in Callers : cbid[t] # -1 => Registered(mCallbacks, cbid[t], KindOfOp(op[t]))
  /\ \A t \in Callers : stage[t] = "send" /\ op[t] = "set" => cbid[t] # -1

\* What is armed, signalled and was fired is in the list.
Sound(C, s) == Registered(C, s.id, s.kind) /\ (s.kind = "program" => s.code = 0)
NamesInv ==
  /\ request.id # -1 => Registered(mCallbacks, request.id, KindOfOp(request.op))
  /\ request.op = "set" => request.id # -1
  /\ \A cb \in armed : Registered(mCallbacks, cb.id, cb.kind)
  /\ \A d \in Signallers : signal[d].at # "none" => Sound(mCallbacks, signal[d])
  /\ \A i \in DOMAIN fired : Sound(mCallbacks, fired[i])

\* The thread that writes holds mEventMutex, and what it writes was fired last.
\* The server's own thread signals only inside of a handler.
Writing(d) == signal[d].at \in {"trigger", "code", "flush"}
MutexInv ==
  /\ signal[Main].at # "none" => server = "signalling"
  /\ \A d \in Signallers : Writing(d) =>
       /\ mEventMutex = d
       /\ Len(fired) > 0
       /\ signal[d].id = fired[Len(fired)].id /\ signal[d].kind = fired[Len(fired)].kind
       /\ signal[d].code = fired[Len(fired)].code
       /\ signal[d].at \in {"code", "flush"} => signal[d].kind = "event"

\* A place in the stream: the trigger or the status of a signal.
Cursors == [ty : {"trigger", "code"}, of : Nat]
Trigger(n) == [ty |-> "trigger", of |-> n]
Status(n)  == [ty |-> "code", of |-> n]

\* The packet at a place, when F was fired, and the place after it.
PacketAt(F, c) ==
  [ty |-> c.ty, data |-> IF c.ty = "trigger" THEN F[c.of].id ELSE F[c.of].code % IDLimit]
After(F, c) ==
  IF c.ty = "trigger" /\ F[c.of].kind = "event" THEN Status(c.of) ELSE Trigger(c.of + 1)

\* The packets W lead from place a to place b, through the places f.
Path(F, a, W, b, f) ==
  /\ f \in [1 .. Len(W) + 1 -> Cursors] /\ f[1] = a /\ f[Len(W) + 1] = b
  /\ \A j \in 1 .. Len(W) : /\ f[j].of \in 1 .. Len(F) /\ W[j] = PacketAt(F, f[j])
                            /\ f[j + 1] = After(F, f[j])
Leads(F, a, W, b) == \E f : Path(F, a, W, b, f)

\* What the callback thread reads next, and what the server writes next.
NextRead ==
  CASE handler = "lock" -> After(fired, Trigger(Len(ran) + 1))
    [] handler = "code" -> Status(Len(ran) + 1)
    [] OTHER -> Trigger(Len(ran) + 1)
NextWrite ==
  IF \E d \in Signallers : signal[d].at = "trigger" THEN Trigger(Len(fired))
  ELSE IF \E d \in Signallers : signal[d].at = "code" THEN Status(Len(fired))
  ELSE Trigger(Len(fired) + 1)

\* As long as the connection is up, the socket and the buffer together hold what
\* is between the two; afterwards the socket holds the beginning of it.
WireInv ==
  /\ link = "up" => Leads(fired, NextRead, ewire \o ebuf, NextWrite)
  /\ link = "cut" => \E b \in Cursors : Leads(fired, NextRead, ewire, b)

\* The callback thread works on the signal after the last one that it has run.
RanInv ==
  /\ DeliveredInOrder
  /\ handler \in {"lock", "code"} => Len(ran) < Len(fired) /\ index = fired[Len(ran) + 1].id
  /\ handler = "code" => fired[Len(ran) + 1].kind = "event"

IInv == Types /\ CallInv /\ NamesInv /\ MutexInv /\ WireInv /\ RanInv

-----------------------------------------------------------------------------
(* The way the packets lead. *)

\* The place after a place.
LEMMA AfterType ==
  ASSUME NEW F, NEW c \in Cursors
  PROVE  After(F, c) \in Cursors
  BY DEF After, Cursors, Trigger, Status

\* Nothing leads nowhere.
LEMMA LeadsEmpty ==
  ASSUME NEW F, NEW a \in Cursors
  PROVE  Leads(F, a, << >>, a)
<1> DEFINE f == [j \in 1 .. 1 |-> a]
<1>1. Len(<< >>) = 0
  OBVIOUS
<1>2. Path(F, a, << >>, a, f)
  BY <1>1 DEF Path
<1> QED
  BY <1>2 DEF Leads

\* The next packet leads to the next place.
LEMMA LeadsAppend ==
  ASSUME NEW F, NEW W \in Seq(PacketsE), NEW a, NEW b,
         Leads(F, a, W, b), b.of \in 1 .. Len(F),
         PacketAt(F, b) \in PacketsE
  PROVE  Leads(F, a, Append(W, PacketAt(F, b)), After(F, b))
<1> DEFINE p == PacketAt(F, b)
           c == After(F, b)
           V == Append(W, p)
<1>1. PICK f : Path(F, a, W, b, f)
  BY DEF Leads
<1>2. V \in Seq(PacketsE) /\ Len(V) = Len(W) + 1 /\ (\A i \in 1 .. Len(W) : V[i] = W[i])
      /\ V[Len(W) + 1] = p
  BY Appended
<1>3. b \in Cursors /\ c \in Cursors
  BY <1>1, AfterType DEF Path
<1> HIDE DEF V, p
<1> DEFINE g == [j \in 1 .. Len(W) + 2 |-> IF j = Len(W) + 2 THEN c ELSE f[j]]
<1>4. /\ Len(W) \in Nat /\ f \in [1 .. Len(W) + 1 -> Cursors] /\ f[1] = a /\ f[Len(W) + 1] = b
      /\ \A j \in 1 .. Len(W) : /\ f[j].of \in 1 .. Len(F) /\ W[j] = PacketAt(F, f[j])
                               /\ f[j + 1] = After(F, f[j])
  BY <1>1 DEF Path
<1>5. g \in [1 .. Len(V) + 1 -> Cursors] /\ g[1] = a /\ g[Len(V) + 1] = c
  BY <1>2, <1>3, <1>4
<1>6. ASSUME NEW j \in 1 .. Len(V)
      PROVE  g[j].of \in 1 .. Len(F) /\ V[j] = PacketAt(F, g[j]) /\ g[j + 1] = After(F, g[j])
  <2>1. CASE j = Len(W) + 1
    <3>1. g[j] = b /\ g[j + 1] = c /\ V[j] = p
      BY <2>1, <1>2, <1>4
    <3> QED
      BY <3>1 DEF p
  <2>2. CASE j \in 1 .. Len(W)
    <3>1. g[j] = f[j] /\ g[j + 1] = f[j + 1] /\ V[j] = W[j]
      BY <2>2, <1>2, <1>4
    <3> QED
      BY <3>1, <2>2, <1>4
  <2> QED
    BY <2>1, <2>2, <1>2, <1>4
<1>7. Path(F, a, V, c, g)
  BY <1>5, <1>6 DEF Path
<1> QED
  BY <1>7 DEF Leads, V, p

\* The first packet is the one at the first place.
LEMMA LeadsTail ==
  ASSUME NEW F, NEW W \in Seq(PacketsE), NEW a, NEW b,
         Leads(F, a, W, b), W # << >>
  PROVE  /\ a.of \in 1 .. Len(F) /\ Head(W) = PacketAt(F, a)
         /\ Leads(F, After(F, a), Tail(W), b)
<1> DEFINE V == Tail(W)
<1>1. PICK f : Path(F, a, W, b, f)
  BY DEF Leads
<1>2. /\ V \in Seq(PacketsE) /\ Len(V) = Len(W) - 1 /\ Len(W) > 0 /\ Head(W) = W[1]
      /\ \A i \in 1 .. Len(W) - 1 : V[i] = W[i + 1]
  BY TailTaken
<1> HIDE DEF V
<1>3. /\ Len(W) \in Nat /\ f \in [1 .. Len(W) + 1 -> Cursors] /\ f[1] = a /\ f[Len(W) + 1] = b
      /\ \A j \in 1 .. Len(W) : /\ f[j].of \in 1 .. Len(F) /\ W[j] = PacketAt(F, f[j])
                               /\ f[j + 1] = After(F, f[j])
  BY <1>1 DEF Path
<1>4. a.of \in 1 .. Len(F) /\ Head(W) = PacketAt(F, a) /\ f[2] = After(F, a)
  BY <1>2, <1>3
<1> DEFINE g == [j \in 1 .. Len(W) |-> f[j + 1]]
<1>5. g \in [1 .. Len(V) + 1 -> Cursors] /\ g[1] = After(F, a) /\ g[Len(V) + 1] = b
  BY <1>2, <1>3, <1>4
<1>6. ASSUME NEW j \in 1 .. Len(V)
      PROVE  g[j].of \in 1 .. Len(F) /\ V[j] = PacketAt(F, g[j]) /\ g[j + 1] = After(F, g[j])
  <2>1. g[j] = f[j + 1] /\ g[j + 1] = f[(j + 1) + 1] /\ V[j] = W[j + 1] /\ j + 1 \in 1 .. Len(W)
    BY <1>2, <1>3
  <2> QED
    BY <2>1, <1>3
<1>7. Path(F, After(F, a), V, b, g)
  BY <1>5, <1>6 DEF Path
<1> QED
  BY <1>4, <1>7 DEF Leads, V

\* What is left of the packets leads to a place.
LEMMA LeadsPrefix ==
  ASSUME NEW F, NEW W \in Seq(PacketsE), NEW a, NEW b,
         Leads(F, a, W, b), NEW n \in 0 .. Len(W)
  PROVE  \E c \in Cursors : Leads(F, a, SubSeq(W, 1, n), c)
<1> DEFINE V == SubSeq(W, 1, n)
<1>1. PICK f : Path(F, a, W, b, f)
  BY DEF Leads
<1>2. V \in Seq(PacketsE) /\ Len(V) = n /\ \A i \in 1 .. n : V[i] = W[i]
  BY PrefixTaken
<1> HIDE DEF V
<1>3. /\ Len(W) \in Nat /\ f \in [1 .. Len(W) + 1 -> Cursors] /\ f[1] = a /\ f[Len(W) + 1] = b
      /\ \A j \in 1 .. Len(W) : /\ f[j].of \in 1 .. Len(F) /\ W[j] = PacketAt(F, f[j])
                               /\ f[j + 1] = After(F, f[j])
  BY <1>1 DEF Path
<1>4. n \in Nat /\ n <= Len(W)
  OBVIOUS
<1> DEFINE g == [j \in 1 .. n + 1 |-> f[j]]
<1>5. g \in [1 .. Len(V) + 1 -> Cursors] /\ g[1] = a /\ g[Len(V) + 1] = f[n + 1]
      /\ f[n + 1] \in Cursors
  <2>1. 1 .. Len(V) + 1 = 1 .. n + 1 /\ 1 .. n + 1 \subseteq 1 .. Len(W) + 1
    BY <1>2, <1>3, <1>4
  <2>2. g \in [1 .. n + 1 -> Cursors]
    BY <1>3, <2>1
  <2>3. 1 \in 1 .. n + 1 /\ n + 1 \in 1 .. n + 1
    BY <1>4
  <2> QED
    BY <2>1, <2>2, <2>3, <1>2, <1>3
<1>6. ASSUME NEW j \in 1 .. Len(V)
      PROVE  g[j].of \in 1 .. Len(F) /\ V[j] = PacketAt(F, g[j]) /\ g[j + 1] = After(F, g[j])
  <2>1. g[j] = f[j] /\ g[j + 1] = f[j + 1] /\ V[j] = W[j] /\ j \in 1 .. Len(W)
    BY <1>2, <1>3
  <2> QED
    BY <2>1, <1>3
<1>7. Path(F, a, V, f[n + 1], g)
  BY <1>5, <1>6 DEF Path
<1> QED
  BY <1>5, <1>7 DEF Leads, V

\* Another signal does not change the way.
LEMMA LeadsGrow ==
  ASSUME NEW F \in Seq(Signals), NEW x \in Signals, NEW W, NEW a, NEW b, Leads(F, a, W, b)
  PROVE  Leads(Append(F, x), a, W, b)
<1> DEFINE G == Append(F, x)
<1>1. PICK f : Path(F, a, W, b, f)
  BY DEF Leads
<1>2. Len(F) \in Nat /\ Len(G) = Len(F) + 1 /\ \A i \in 1 .. Len(F) : G[i] = F[i]
  BY Appended
<1> HIDE DEF G
<1>3. ASSUME NEW j \in 1 .. Len(W)
      PROVE  f[j].of \in 1 .. Len(G) /\ W[j] = PacketAt(G, f[j]) /\ f[j + 1] = After(G, f[j])
  <2>1. f[j].of \in 1 .. Len(F) /\ W[j] = PacketAt(F, f[j]) /\ f[j + 1] = After(F, f[j])
    BY <1>1 DEF Path
  <2> QED
    BY <2>1, <1>2 DEF PacketAt, After
<1>4. Path(G, a, W, b, f)
  BY <1>1, <1>3 DEF Path
<1> QED
  BY <1>4 DEF Leads, G


\* A callback stays in the list.
LEMMA StaysRegistered ==
  ASSUME NEW C \in Seq({"event", "program"}), NEW x \in {"event", "program"}
  PROVE  /\ \A i, k : Registered(C, i, k) => Registered(Append(C, x), i, k)
         /\ \A s : Sound(C, s) => Sound(Append(C, x), s)
         /\ Registered(Append(C, x), Len(C), x)
<1>1. /\ Len(C) \in Nat /\ Len(Append(C, x)) = Len(C) + 1 /\ Append(C, x)[Len(C) + 1] = x
      /\ \A i \in 1 .. Len(C) : Append(C, x)[i] = C[i]
  BY Appended
<1>2. ASSUME NEW i, NEW k, Registered(C, i, k)
      PROVE  Registered(Append(C, x), i, k)
  <2>1. i \in 0 .. Len(C) - 1 /\ C[i + 1] = k /\ i + 1 \in 1 .. Len(C)
    BY <1>1, <1>2 DEF Registered
  <2> QED
    BY <2>1, <1>1 DEF Registered
<1>3. \A i, k : Registered(C, i, k) => Registered(Append(C, x), i, k)
  BY <1>2
<1>4. Registered(Append(C, x), Len(C), x)
  BY <1>1 DEF Registered
<1> QED
  BY <1>3, <1>4 DEF Sound

-----------------------------------------------------------------------------
(* The calls that are still to register. *)

\* There are finitely many of them.
LEMMA FiniteRegistering ==
  IsFiniteSet(Registering) /\ Cardinality(Registering) \in Nat
<1>1. IsFiniteSet(Callers)
  BY EventAssumption, FS_AddElement DEF Callers
<1>2. Registering \subseteq Callers
  BY DEF Registering
<1> QED
  BY <1>1, <1>2, FS_Subset, FS_CardinalityType

\* And after a step, too.
LEMMA FiniteRegisteringNext ==
  IsFiniteSet(Registering') /\ Cardinality(Registering') \in Nat
<1>1. IsFiniteSet(Callers)
  BY EventAssumption, FS_AddElement DEF Callers
<1>2. Registering' \subseteq Callers
  BY DEF Registering
<1> QED
  BY <1>1, <1>2, FS_Subset, FS_CardinalityType

\* One more, at most.
LEMMA OneMore ==
  ASSUME NEW S, NEW T, NEW t, IsFiniteSet(S), T \subseteq S \cup {t}
  PROVE  Cardinality(T) <= Cardinality(S) + 1
<1>1. IsFiniteSet(S \cup {t}) /\ Cardinality(S) \in Nat /\ Cardinality(S \cup {t}) \in Nat
  BY FS_AddElement, FS_CardinalityType
<1>2. Cardinality(S \cup {t}) <= Cardinality(S) + 1
  BY <1>1, FS_AddElement
<1>3. IsFiniteSet(T) /\ Cardinality(T) \in Nat /\ Cardinality(T) <= Cardinality(S \cup {t})
  BY <1>1, FS_Subset, FS_CardinalityType
<1> QED
  BY <1>1, <1>2, <1>3

\* One less, at least.
LEMMA OneLess ==
  ASSUME NEW S, NEW T, NEW t \in S, IsFiniteSet(S), T \subseteq S \ {t}
  PROVE  Cardinality(T) + 1 <= Cardinality(S)
<1>1. IsFiniteSet(S \ {t}) /\ Cardinality(S \ {t}) = Cardinality(S) - 1 /\ Cardinality(S) \in Nat
  BY FS_RemoveElement, FS_CardinalityType
<1>2. IsFiniteSet(T) /\ Cardinality(T) \in Nat /\ Cardinality(T) <= Cardinality(S \ {t})
  BY <1>1, FS_Subset, FS_CardinalityType
<1> QED
  BY <1>1, <1>2

\* No more.
LEMMA NoMore ==
  ASSUME NEW S, NEW T, IsFiniteSet(S), T \subseteq S
  PROVE  Cardinality(T) <= Cardinality(S)
  BY FS_Subset

-----------------------------------------------------------------------------
(* What a step that leaves the variables of a part alone keeps. *)

\* A step that is not one of a call.
LEMMA CallFrame ==
  ASSUME CallInv, UNCHANGED <<app, op, stage, cbid, mCallbacks>>
  PROVE  CallInv'
<1>1. Registering' = Registering
  BY DEF Registering
<1> QED
  BY <1>1 DEF CallInv

\* A step that neither registers, requests nor signals.
LEMMA NamesFrame ==
  ASSUME NamesInv, UNCHANGED <<mCallbacks, request, armed, signal, fired>>
  PROVE  NamesInv'
  BY DEF NamesInv

\* A step that does not signal.
LEMMA MutexFrame ==
  ASSUME MutexInv, UNCHANGED <<server, mEventMutex, signal, fired>>
  PROVE  MutexInv'
  BY DEF MutexInv, Writing

\* A step that neither writes nor reads the event stream.
LEMMA WireFrame ==
  ASSUME WireInv, UNCHANGED <<fired, link, ebuf, ewire>>,
         NextRead' = NextRead, NextWrite' = NextWrite
  PROVE  WireInv'
  BY DEF WireInv

\* A step that is not one of the callback thread and does not signal.
LEMMA RanFrame ==
  ASSUME RanInv, UNCHANGED <<fired, ran, handler, index>>
  PROVE  RanInv'
  BY DEF RanInv, DeliveredInOrder

-----------------------------------------------------------------------------
(* The first state. *)

\* The invariant holds at first.
LEMMA Initially ==
  ASSUME FewCallbacks, Init
  PROVE  IInv
<1>1. Types
  BY EventAssumption DEF Init, Types, None, NoSignal, Requests, Signals, Ops, Callers, Signallers
<1>2. CallInv
  <2>1. Registering = {} /\ Cardinality(Registering) = 0
    BY FS_EmptySet DEF Init, Registering
  <2>2. Len(mCallbacks) = 0
    BY DEF Init
  <2>3. app.max \in Nat /\ app.max <= IDLimit
    BY EventAssumption DEF Init, FewCallbacks, App
  <2> QED
    BY <2>1, <2>2, <2>3 DEF Init, CallInv
<1>3. NamesInv
  BY DEF Init, NamesInv, None, NoSignal
<1>4. MutexInv
  BY DEF Init, MutexInv, Writing, NoSignal, Signallers
<1>5. WireInv
  <2>1. NextRead = Trigger(1) /\ NextWrite = Trigger(1) /\ Trigger(1) \in Cursors
    BY DEF Init, NextRead, NextWrite, Trigger, Cursors, NoSignal
  <2>2. ewire = << >> /\ ewire \o ebuf = << >>
    BY DEF Init
  <2> QED
    BY <2>1, <2>2, LeadsEmpty DEF WireInv
<1>6. RanInv
  BY DEF Init, RanInv, DeliveredInOrder
<1> QED
  BY <1>1, <1>2, <1>3, <1>4, <1>5, <1>6 DEF IInv


-----------------------------------------------------------------------------
(* The calls of the client. *)

\* A call begins, when there is room for its callback.
LEMMA EnterKeeps ==
  ASSUME IInv, NEW t \in Callers, NEW o \in Ops, Enter(t, o),
         UNCHANGED <<app, mCallbacks, request, armed, signal, server, mEventMutex, fired, ran, index,
                     link, ebuf, ewire>>,
         \/ handler' = handler
         \/ handler = "user" /\ handler' = "called"
  PROVE  IInv'
<1>1. Types'
  BY DEF IInv, Types, Enter
<1>2. CallInv'
  <2>1. /\ op' = [op EXCEPT ![t] = o] /\ stage' = [stage EXCEPT ![t] = "get"]
        /\ cbid' = [cbid EXCEPT ![t] = -1] /\ stage[t] = "idle"
        /\ o \in {"set", "compile"} => Registrations < app.max
    BY DEF Enter
  <2>2. op'[t] = o /\ stage'[t] = "get" /\ cbid'[t] = -1
    BY <2>1 DEF IInv, Types
  <2>3. \A u \in Callers : u # t => op'[u] = op[u] /\ stage'[u] = stage[u] /\ cbid'[u] = cbid[u]
    BY <2>1 DEF IInv, Types
  <2>4. Registrations = Len(mCallbacks) + Cardinality(Registering)
    BY DEF Registrations, Registering
  <2>5. Len(mCallbacks) \in Nat /\ app.max \in Nat
    BY EventAssumption DEF IInv, Types, App
  <2>6. Len(mCallbacks) + Cardinality(Registering') <= app.max
    <3>1. CASE o \in {"set", "compile"}
      <4>1. Registering' \subseteq Registering \cup {t}
        BY <2>3 DEF Registering
      <4>2. Cardinality(Registering') <= Cardinality(Registering) + 1
        BY <4>1, OneMore, FiniteRegistering
      <4>3. Len(mCallbacks) + Cardinality(Registering) < app.max
        BY <3>1, <2>1, <2>4
      <4> QED
        BY <4>2, <4>3, <2>5, FiniteRegistering, FiniteRegisteringNext
    <3>2. CASE o \notin {"set", "compile"}
      <4>1. Registering' \subseteq Registering
        BY <3>2, <2>2, <2>3 DEF Registering
      <4>2. Cardinality(Registering') <= Cardinality(Registering)
        BY <4>1, NoMore, FiniteRegistering
      <4>3. Len(mCallbacks) + Cardinality(Registering) <= app.max
        BY DEF IInv, CallInv
      <4> QED
        BY <4>2, <4>3, <2>5, FiniteRegistering, FiniteRegisteringNext
    <3> QED
      BY <3>1, <3>2
  <2> QED
    BY <2>2, <2>3, <2>6 DEF IInv, CallInv
<1>3. NamesInv' /\ MutexInv'
  BY NamesFrame, MutexFrame DEF IInv
<1>4. WireInv'
  <2>1. NextRead' = NextRead /\ NextWrite' = NextWrite
    BY DEF NextRead, NextWrite
  <2> QED
    BY <2>1, WireFrame DEF IInv
<1>5. RanInv'
  BY DEF IInv, RanInv, DeliveredInOrder
<1> QED
  BY <1>1, <1>2, <1>3, <1>4, <1>5 DEF IInv

\* A call goes on without its list, its request or a signal.
LEMMA CallGoesOn ==
  ASSUME IInv, NEW t \in Callers,
         UNCHANGED <<app, mCallbacks, request, armed, signal, server, mEventMutex, fired, ran, handler, index,
                     link, ebuf, ewire>>,
         op' \in [Callers -> Ops \cup {"none"}],
         stage' \in [Callers -> {"idle", "get", "register", "send", "await", "notify", "stuck"}],
         cbid' \in [Callers -> Int],
         \A u \in Callers : u # t => op'[u] = op[u] /\ stage'[u] = stage[u] /\ cbid'[u] = cbid[u],
         t \in Registering' => t \in Registering,
         stage'[t] = "register" => op'[t] \in {"set", "compile"},
         cbid'[t] # -1 => cbid'[t] = cbid[t] /\ op'[t] = op[t],
         ~(stage'[t] = "send" /\ op'[t] = "set")
  PROVE  IInv'
<1>1. Types'
  BY DEF IInv, Types
<1>2. CallInv'
  <2>1. Registering' \subseteq Registering
    BY DEF Registering
  <2>2. Cardinality(Registering') <= Cardinality(Registering)
    BY <2>1, NoMore, FiniteRegistering
  <2>3. Len(mCallbacks) \in Nat /\ app.max \in Nat
    BY EventAssumption DEF IInv, Types, App
  <2>4. Len(mCallbacks) + Cardinality(Registering) <= app.max
    BY DEF IInv, CallInv
  <2>5. Len(mCallbacks) + Cardinality(Registering') <= app.max
    BY <2>2, <2>3, <2>4, FiniteRegistering, FiniteRegisteringNext
  <2> QED
    BY <2>5 DEF IInv, CallInv
<1>3. NamesInv' /\ MutexInv' /\ RanInv'
  BY NamesFrame, MutexFrame, RanFrame DEF IInv
<1>4. WireInv'
  <2>1. NextRead' = NextRead /\ NextWrite' = NextWrite
    BY DEF NextRead, NextWrite
  <2> QED
    BY <2>1, WireFrame DEF IInv
<1> QED
  BY <1>1, <1>2, <1>3, <1>4 DEF IInv

\* Start and UserCalls.
LEMMA StartKeeps ==
  ASSUME IInv, NEW t \in Threads, NEW o \in Ops, Start(t, o)
  PROVE  IInv'
  BY EnterKeeps DEF Start, serverVars, wireVars, handlerVars, Callers

\* A call inside a callback.
LEMMA UserCallsKeeps ==
  ASSUME IInv, NEW o \in Ops, UserCalls(o)
  PROVE  IInv'
  BY EnterKeeps DEF UserCalls, serverVars, wireVars, Callers

\* Lock.
LEMMA LockKeeps ==
  ASSUME IInv, NEW t \in Callers, Lock(t)
  PROVE  IInv'
<1>1. UNCHANGED <<app, mCallbacks, request, armed, signal, server, mEventMutex, fired, ran, handler, index,
                  link, ebuf, ewire, op, cbid>> /\ stage[t] = "get"
  BY DEF Lock, serverVars, wireVars, handlerVars
<1>2. PICK x \in {"register", "send"} :
        /\ stage' = [stage EXCEPT ![t] = x]
        /\ x = "register" => op[t] \in {"set", "compile"}
        /\ x = "send" => op[t] # "set"
  BY DEF Lock
<1>3. stage' \in [Callers -> {"idle", "get", "register", "send", "await", "notify", "stuck"}]
      /\ stage'[t] = x /\ \A u \in Callers : u # t => stage'[u] = stage[u]
  BY <1>2 DEF IInv, Types
<1>4. t \in Registering' => t \in Registering
  BY <1>1, <1>2, <1>3 DEF Registering
<1>5. op' \in [Callers -> Ops \cup {"none"}] /\ cbid' \in [Callers -> Int]
  BY <1>1 DEF IInv, Types
<1>6. /\ stage'[t] = "register" => op'[t] \in {"set", "compile"}
      /\ ~(stage'[t] = "send" /\ op'[t] = "set")
  BY <1>1, <1>2, <1>3
<1> QED
  BY <1>1, <1>3, <1>4, <1>5, <1>6, CallGoesOn

\* A call that returns.
LEMMA LeaveKeeps ==
  ASSUME IInv, NEW t \in Callers, Leave(t),
         UNCHANGED <<app, mCallbacks, request, armed, signal, server, mEventMutex, fired, ran, handler, index,
                     link, ebuf, ewire>>
  PROVE  IInv'
<1>1. /\ op' \in [Callers -> Ops \cup {"none"}]
      /\ stage' \in [Callers -> {"idle", "get", "register", "send", "await", "notify", "stuck"}]
      /\ cbid' \in [Callers -> Int]
  BY DEF IInv, Types, Leave
<1>2. /\ op'[t] = "none" /\ stage'[t] = "idle" /\ cbid'[t] = -1
      /\ \A u \in Callers : u # t => op'[u] = op[u] /\ stage'[u] = stage[u] /\ cbid'[u] = cbid[u]
  BY DEF IInv, Types, Leave
<1>3. t \notin Registering'
  BY <1>2 DEF Registering
<1> QED
  BY <1>1, <1>2, <1>3, CallGoesOn

\* A call that only moves on to another stage.
LEMMA StageKeeps ==
  ASSUME IInv, NEW t \in Callers, NEW x \in {"notify", "stuck"},
         stage' = [stage EXCEPT ![t] = x],
         UNCHANGED <<app, mCallbacks, request, armed, signal, server, mEventMutex, fired, ran, handler, index,
                     link, ebuf, ewire, op, cbid>>
  PROVE  IInv'
<1>1. /\ op' \in [Callers -> Ops \cup {"none"}]
      /\ stage' \in [Callers -> {"idle", "get", "register", "send", "await", "notify", "stuck"}]
      /\ cbid' \in [Callers -> Int]
  BY DEF IInv, Types
<1>2. /\ stage'[t] = x
      /\ \A u \in Callers : u # t => op'[u] = op[u] /\ stage'[u] = stage[u] /\ cbid'[u] = cbid[u]
  BY DEF IInv, Types
<1>3. t \notin Registering'
  BY <1>2 DEF Registering
<1> QED
  BY <1>1, <1>2, <1>3, CallGoesOn

\* Receive and Notify.
LEMMA ReturnKeeps ==
  ASSUME IInv, NEW t \in Callers, Receive(t) \/ Notify(t)
  PROVE  IInv'
<1>1. UNCHANGED <<app, mCallbacks, request, armed, signal, server, mEventMutex, fired, ran, handler, index,
                  link, ebuf, ewire>>
  BY DEF Receive, Notify, serverVars, wireVars, handlerVars
<1>2. \/ Leave(t)
      \/ \E x \in {"notify", "stuck"} : stage' = [stage EXCEPT ![t] = x] /\ UNCHANGED <<op, cbid>>
  BY DEF Receive, Notify
<1> QED
  BY <1>1, <1>2, LeaveKeeps, StageKeeps


\* registerCallback() gives the call the number of its callback.
LEMMA RegisterKeeps ==
  ASSUME IInv, NEW t \in Callers, Register(t)
  PROVE  IInv'
<1> DEFINE k == KindOfOp(op[t])
<1>1. UNCHANGED <<app, request, armed, signal, server, mEventMutex, fired, ran, handler, index,
                  link, ebuf, ewire, op>> /\ stage[t] = "register"
  BY DEF Register, serverVars, wireVars, handlerVars
<1>2. /\ cbid' = [cbid EXCEPT ![t] = Len(mCallbacks)]
      /\ mCallbacks' = Append(mCallbacks, k)
      /\ stage' = [stage EXCEPT ![t] = "send"]
  BY DEF Register, KindOfOp
<1>3. /\ mCallbacks \in Seq({"event", "program"}) /\ k \in {"event", "program"}
      /\ Len(mCallbacks) \in Nat /\ app.max \in Nat
  BY EventAssumption DEF IInv, Types, KindOfOp, App
<1>4. mCallbacks' \in Seq({"event", "program"}) /\ Len(mCallbacks') = Len(mCallbacks) + 1
  BY <1>2, <1>3, Appended
<1>5. /\ \A i, kk : Registered(mCallbacks, i, kk) => Registered(mCallbacks', i, kk)
      /\ \A x : Sound(mCallbacks, x) => Sound(mCallbacks', x)
      /\ Registered(mCallbacks', Len(mCallbacks), k)
  BY <1>2, <1>3, StaysRegistered
<1> HIDE DEF k
<1>6. /\ stage' \in [Callers -> {"idle", "get", "register", "send", "await", "notify", "stuck"}]
      /\ cbid' \in [Callers -> Int]
  BY <1>2, <1>3 DEF IInv, Types
<1>7. /\ cbid'[t] = Len(mCallbacks) /\ stage'[t] = "send"
      /\ \A u \in Callers : u # t => stage'[u] = stage[u] /\ cbid'[u] = cbid[u]
  BY <1>2 DEF IInv, Types
<1>8. Types'
  BY <1>1, <1>4, <1>6 DEF IInv, Types
<1>9. CallInv'
  <2>1. t \in Registering /\ Registering' \subseteq Registering \ {t}
    BY <1>1, <1>7 DEF Registering, IInv, CallInv
  <2>2. Cardinality(Registering') + 1 <= Cardinality(Registering)
    BY <2>1, OneLess, FiniteRegistering
  <2>3. Len(mCallbacks) + Cardinality(Registering) <= app.max
    BY DEF IInv, CallInv
  <2>4. Len(mCallbacks') + Cardinality(Registering') <= app'.max /\ app'.max <= IDLimit
    BY <2>2, <2>3, <1>1, <1>3, <1>4, FiniteRegistering, FiniteRegisteringNext DEF IInv, CallInv
  <2>5. \A u \in Callers : stage'[u] = "register" => op'[u] \in {"set", "compile"}
    BY <1>1, <1>7 DEF IInv, CallInv
  <2>6. \A u \in Callers : cbid'[u] # -1 => Registered(mCallbacks', cbid'[u], KindOfOp(op'[u]))
    BY <1>1, <1>5, <1>7 DEF IInv, CallInv, k
  <2>7. \A u \in Callers : stage'[u] = "send" /\ op'[u] = "set" => cbid'[u] # -1
    BY <1>1, <1>3, <1>7 DEF IInv, CallInv
  <2> QED
    BY <2>4, <2>5, <2>6, <2>7 DEF CallInv
<1>10. NamesInv'
  BY <1>1, <1>5 DEF IInv, NamesInv
<1>11. MutexInv' /\ RanInv'
  BY <1>1, MutexFrame, RanFrame DEF IInv
<1>12. WireInv'
  <2>1. NextRead' = NextRead /\ NextWrite' = NextWrite
    BY <1>1 DEF NextRead, NextWrite
  <2> QED
    BY <1>1, <2>1, WireFrame DEF IInv
<1> QED
  BY <1>8, <1>9, <1>10, <1>11, <1>12 DEF IInv

\* IDLimit is a number.
LEMMA LimitType ==
  IDLimit \in Nat /\ IDLimit > 0
  BY DEF IDLimit

\* What fits a field arrives as it was.
LEMMA Fits ==
  ASSUME NEW n \in Nat, NEW m \in Nat, n < m
  PROVE  n % m = n
  OBVIOUS

\* The number of a callback fits its field in the request.
LEMMA SendKeeps ==
  ASSUME IInv, NEW t \in Callers, Send(t)
  PROVE  IInv'
<1>1. UNCHANGED <<app, mCallbacks, armed, signal, server, mEventMutex, fired, ran, handler, index,
                  link, ebuf, ewire, op, cbid>> /\ stage[t] = "send"
  BY DEF Send, serverVars, wireVars, handlerVars
<1>2. stage' = [stage EXCEPT ![t] = "await"]
  BY DEF Send
<1>3. cbid[t] \in Int /\ op[t] \in Ops \cup {"none"}
  BY DEF IInv, Types
<1>4. cbid[t] # -1 => cbid[t] % IDLimit = cbid[t]
  <2>1. SUFFICES ASSUME cbid[t] # -1 PROVE cbid[t] % IDLimit = cbid[t]
    OBVIOUS
  <2>2. cbid[t] \in 0 .. Len(mCallbacks) - 1
    BY <2>1 DEF IInv, CallInv, Registered
  <2>3. /\ Len(mCallbacks) + Cardinality(Registering) <= app.max /\ app.max <= IDLimit
        /\ Len(mCallbacks) \in Nat /\ app.max \in Nat
    BY EventAssumption DEF IInv, CallInv, Types, App
  <2>4. cbid[t] \in Nat /\ cbid[t] < IDLimit /\ IDLimit \in Nat
    BY <2>2, <2>3, FiniteRegistering, LimitType
  <2> QED
    BY <2>4, Fits
<1>5. request' = None \/ request' = [op |-> op[t], by |-> t, id |-> cbid[t]]
  BY <1>4 DEF Send
<1>6. /\ stage' \in [Callers -> {"idle", "get", "register", "send", "await", "notify", "stuck"}]
      /\ stage'[t] = "await" /\ \A u \in Callers : u # t => stage'[u] = stage[u]
  BY <1>2 DEF IInv, Types
<1>7. request' \in Requests
  BY <1>3, <1>5 DEF Requests, None
<1>8. Types'
  BY <1>1, <1>6, <1>7 DEF IInv, Types
<1>9. CallInv'
  <2>1. Registering' = Registering
    BY <1>1, <1>6 DEF Registering
  <2> QED
    BY <1>1, <1>6, <2>1 DEF IInv, CallInv
<1>10. NamesInv'
  <2>1. /\ request'.id # -1 => Registered(mCallbacks, request'.id, KindOfOp(request'.op))
        /\ request'.op = "set" => request'.id # -1
    BY <1>1, <1>5 DEF IInv, CallInv, None
  <2> QED
    BY <1>1, <2>1 DEF IInv, NamesInv
<1>11. MutexInv' /\ RanInv'
  BY <1>1, MutexFrame, RanFrame DEF IInv
<1>12. WireInv'
  <2>1. NextRead' = NextRead /\ NextWrite' = NextWrite
    BY <1>1 DEF NextRead, NextWrite
  <2> QED
    BY <1>1, <2>1, WireFrame DEF IInv
<1> QED
  BY <1>8, <1>9, <1>10, <1>11, <1>12 DEF IInv

-----------------------------------------------------------------------------
(* The server. *)

\* A step of the server that leaves the event stream and mEventMutex alone.
LEMMA ArmKeeps ==
  ASSUME IInv, NEW d \in Signallers, NEW s \in Signals,
         UNCHANGED <<app, mCallbacks, op, stage, cbid, mEventMutex, fired, ran, handler, index,
                     link, ebuf, ewire>>,
         request' = request \/ request' = None,
         armed' \subseteq [id : Int, kind : {"event", "program"}],
         \A cb \in armed' : Registered(mCallbacks, cb.id, cb.kind),
         signal' = [signal EXCEPT ![d] = s],
         ~Writing(d), s.at \in {"none", "enter"},
         signal'[Main].at # "none" => server' = "signalling",
         s.at # "none" => Sound(mCallbacks, s)
  PROVE  IInv'
<1>1. signal'[d] = s /\ \A e \in Signallers : e # d => signal'[e] = signal[e]
  BY DEF IInv, Types
<1>2. signal' \in [Signallers -> Signals]
  BY DEF IInv, Types
<1>3. request' \in Requests
  BY DEF IInv, Types, None, Requests
<1>4. Types'
  BY <1>2, <1>3 DEF IInv, Types
<1>5. NamesInv'
  <2>1. /\ request'.id # -1 => Registered(mCallbacks, request'.id, KindOfOp(request'.op))
        /\ request'.op = "set" => request'.id # -1
    BY DEF IInv, NamesInv, None
  <2>2. \A e \in Signallers : signal'[e].at # "none" => Sound(mCallbacks, signal'[e])
    BY <1>1 DEF IInv, NamesInv
  <2> QED
    BY <2>1, <2>2 DEF IInv, NamesInv
<1>6. MutexInv'
  BY <1>1 DEF IInv, MutexInv, Writing
<1>7. WireInv'
  <2>1. NextRead' = NextRead
    BY DEF NextRead
  <2>2. NextWrite' = NextWrite
    BY <1>1 DEF NextWrite, Writing
  <2> QED
    BY <2>1, <2>2, WireFrame DEF IInv
<1> QED
  BY <1>4, <1>5, <1>6, <1>7, CallFrame, RanFrame DEF IInv

\* Serve.
LEMMA ServeKeeps ==
  ASSUME IInv, Serve
  PROVE  IInv'
<1>1. UNCHANGED <<app, mCallbacks, op, stage, cbid, mEventMutex, fired, ran, handler, index,
                  link, ebuf, ewire>>
  BY DEF Serve, callVars, wireVars, handlerVars
<1>2. CASE /\ armed' = IF request.id = -1 THEN armed
                       ELSE armed \cup {[id |-> request.id,
                                         kind |-> IF request.op = "set" THEN "event" ELSE "program"]}
           /\ request' = None /\ UNCHANGED <<server, signal>>
  <2>1. armed' \subseteq [id : Int, kind : {"event", "program"}]
    BY <1>2 DEF IInv, Types, Requests
  <2>2. \A cb \in armed' : Registered(mCallbacks, cb.id, cb.kind)
    BY <1>2 DEF IInv, NamesInv, KindOfOp
  <2>3. Types' /\ NamesInv'
    <3>1. None \in Requests /\ None.id = -1 /\ None.op = "none"
      BY DEF None, Requests
    <3> QED
      BY <1>1, <1>2, <2>1, <2>2, <3>1 DEF IInv, Types, NamesInv
  <2>4. WireInv'
    <3>1. NextRead' = NextRead /\ NextWrite' = NextWrite
      BY <1>1, <1>2 DEF NextRead, NextWrite
    <3> QED
      BY <1>1, <3>1, WireFrame DEF IInv
  <2> QED
    BY <1>1, <1>2, <2>3, <2>4, CallFrame, MutexFrame, RanFrame DEF IInv
<1>3. CASE /\ request.op = "set"
           /\ \E code \in Codes : signal' = [signal EXCEPT ![Main] =
                [at |-> "enter", id |-> request.id, kind |-> "event", code |-> code]]
           /\ server = "idle" /\ server' = "signalling"
           /\ UNCHANGED <<armed, request>>
  <2>1. PICK code \in Codes : signal' = [signal EXCEPT ![Main] =
                [at |-> "enter", id |-> request.id, kind |-> "event", code |-> code]]
    BY <1>3
  <2> DEFINE s == [at |-> "enter", id |-> request.id, kind |-> "event", code |-> code]
  <2>2. Main \in Signallers /\ ~Writing(Main)
    BY <1>3 DEF IInv, MutexInv, Writing, Signallers
  <2>3. s \in Signals /\ s.at = "enter"
    BY EventAssumption DEF IInv, Types, Requests, Signals
  <2>4. Sound(mCallbacks, s)
    BY <1>3 DEF IInv, NamesInv, Sound, KindOfOp
  <2>5. /\ armed' \subseteq [id : Int, kind : {"event", "program"}]
        /\ \A cb \in armed' : Registered(mCallbacks, cb.id, cb.kind)
    BY <1>3 DEF IInv, Types, NamesInv
  <2> HIDE DEF s
  <2> QED
    BY <1>1, <1>3, <2>1, <2>2, <2>3, <2>4, <2>5, ArmKeeps DEF s
<1> QED
  BY <1>2, <1>3 DEF Serve


\* Fire.
LEMMA FireKeeps ==
  ASSUME IInv, NEW d \in Drivers, Fire(d)
  PROVE  IInv'
<1>1. UNCHANGED <<app, mCallbacks, op, stage, cbid, server, mEventMutex, fired, ran, handler, index,
                  link, ebuf, ewire, request>> /\ signal[d] = NoSignal
  BY DEF Fire, callVars, wireVars, handlerVars
<1>2. PICK cb \in armed, code \in Codes \cup {0} :
        /\ cb.kind # "event" => code = 0
        /\ armed' = armed \ {cb}
        /\ signal' = [signal EXCEPT ![d] =
             [at |-> "enter", id |-> cb.id, kind |-> cb.kind, code |-> code]]
  BY DEF Fire
<1> DEFINE s == [at |-> "enter", id |-> cb.id, kind |-> cb.kind, code |-> code]
<1>3. d \in Signallers /\ d # Main /\ Main \in Signallers
  BY EventAssumption DEF Signallers
<1>4. ~Writing(d)
  BY <1>1 DEF Writing, NoSignal
<1>5. cb \in [id : Int, kind : {"event", "program"}] /\ code \in Int
  BY EventAssumption DEF IInv, Types
<1>6. s \in Signals /\ s.at = "enter"
  BY <1>5 DEF Signals
<1>7. Sound(mCallbacks, s)
  BY <1>2, <1>5 DEF IInv, NamesInv, Sound
<1>8. /\ armed' \subseteq [id : Int, kind : {"event", "program"}]
      /\ \A c \in armed' : Registered(mCallbacks, c.id, c.kind)
  BY <1>2 DEF IInv, Types, NamesInv
<1> HIDE DEF s
<1>9. signal'[Main].at # "none" => server' = "signalling"
  BY <1>1, <1>2, <1>3 DEF IInv, Types, MutexInv
<1> QED
  BY <1>1, <1>2, <1>3, <1>4, <1>6, <1>7, <1>8, <1>9, ArmKeeps DEF s


\* The places that are read and written next.
LEMMA NextTypes ==
  ASSUME Types
  PROVE  NextRead \in Cursors /\ NextWrite \in Cursors
<1>1. Len(ran) + 1 \in Nat /\ Len(fired) \in Nat /\ Len(fired) + 1 \in Nat
  BY DEF Types
<1>2. \A n \in Nat : Trigger(n) \in Cursors /\ Status(n) \in Cursors
  BY DEF Trigger, Status, Cursors
<1>3. After(fired, Trigger(Len(ran) + 1)) \in Cursors
  BY <1>1, <1>2, AfterType
<1> QED
  BY <1>1, <1>2, <1>3 DEF NextRead, NextWrite

\* What is left in the socket when the connection is lost leads somewhere.
LEMMA CutPrefix ==
  ASSUME IInv, NEW n \in 0 .. Len(ewire)
  PROVE  \E c \in Cursors : Leads(fired, NextRead, SubSeq(ewire, 1, n), c)
<1>1. ewire \in Seq(PacketsE) /\ ebuf \in Seq(PacketsE) /\ link \in {"up", "cut"}
  BY DEF IInv, Types
<1>2. CASE link = "up"
  <2>1. Leads(fired, NextRead, ewire \o ebuf, NextWrite)
    BY <1>2 DEF IInv, WireInv
  <2>2. ewire \o ebuf \in Seq(PacketsE) /\ n \in 0 .. Len(ewire \o ebuf)
    BY <1>1
  <2>3. SubSeq(ewire \o ebuf, 1, n) = SubSeq(ewire, 1, n)
    BY <1>1, JoinPrefix
  <2>4. \E c \in Cursors : Leads(fired, NextRead, SubSeq(ewire \o ebuf, 1, n), c)
    BY <2>1, <2>2, LeadsPrefix
  <2> QED
    BY <2>3, <2>4
<1>3. CASE link = "cut"
  <2>1. PICK b \in Cursors : Leads(fired, NextRead, ewire, b)
    BY <1>3 DEF IInv, WireInv
  <2> QED
    BY <1>1, <2>1, LeadsPrefix
<1> QED
  BY <1>1, <1>2, <1>3

\* The server stops, in order or not.
LEMMA StopKeeps ==
  ASSUME IInv, NEW how, ServerStops(how),
         UNCHANGED <<app, mCallbacks, op, stage, cbid, request, fired, ran, handler, index>>
  PROVE  IInv'
<1>1. /\ armed' = {} /\ signal' = [d \in Signallers |-> NoSignal]
      /\ link' = "cut" /\ ebuf' = << >>
  BY DEF ServerStops
<1>2. PICK n \in 0 .. Len(ewire) : ewire' = SubSeq(ewire, 1, n)
  BY DEF ServerStops
<1>3. ewire \in Seq(PacketsE)
  BY DEF IInv, Types
<1>4. ewire' \in Seq(PacketsE)
  BY <1>2, <1>3, PrefixTaken
<1>5. NoSignal \in Signals /\ NoSignal.at = "none"
  BY DEF NoSignal, Signals
<1>6. Types'
  BY <1>1, <1>4, <1>5 DEF IInv, Types
<1>7. NamesInv' /\ MutexInv'
  BY <1>1, <1>5 DEF IInv, NamesInv, MutexInv, Writing, Signallers
<1>8. WireInv'
  <2>1. NextRead' = NextRead
    BY DEF NextRead
  <2>2. \E c \in Cursors : Leads(fired, NextRead, SubSeq(ewire, 1, n), c)
    BY CutPrefix
  <2> QED
    BY <1>1, <1>2, <2>1, <2>2 DEF WireInv
<1> QED
  BY <1>6, <1>7, <1>8, CallFrame, RanFrame DEF IInv

\* A thread has delivered its signal.
LEMMA DoneKeeps ==
  ASSUME IInv, NEW d \in Signallers, SignalDone(d),
         UNCHANGED <<app, mCallbacks, op, stage, cbid, armed, fired, ran, handler, index, link>>,
         ebuf' \in Seq(PacketsE), ewire' \in Seq(PacketsE),
         Writing(d) \/ mEventMutex' = mEventMutex,
         WireInv'
  PROVE  IInv'
<1>1. NoSignal \in Signals /\ NoSignal.at = "none"
  BY DEF NoSignal, Signals
<1>2. /\ signal' = [signal EXCEPT ![d] = NoSignal]
      /\ d # Main => server' = server /\ request' = request
      /\ d = Main => request' = None
  BY DEF SignalDone
<1>3. /\ signal' \in [Signallers -> Signals] /\ signal'[d] = NoSignal
      /\ \A e \in Signallers : e # d => signal'[e] = signal[e]
  BY <1>1, <1>2 DEF IInv, Types
<1>4. None \in Requests /\ None.id = -1 /\ None.op = "none"
  BY DEF None, Requests
<1>5. Types'
  BY <1>2, <1>3, <1>4 DEF IInv, Types
<1>6. NamesInv'
  BY <1>1, <1>2, <1>3, <1>4 DEF IInv, NamesInv
<1>7. MutexInv'
  <2>1. Main \in Signallers
    BY DEF Signallers
  <2>2. signal'[Main].at # "none" => server' = "signalling"
    BY <1>1, <1>2, <1>3, <2>1 DEF IInv, MutexInv
  <2>3. ASSUME NEW e \in Signallers, Writing(e)'
        PROVE  e # d /\ Writing(e) /\ mEventMutex' = mEventMutex /\ signal'[e] = signal[e]
    <3>1. e # d /\ signal'[e] = signal[e] /\ Writing(e)
      BY <1>1, <1>3, <2>3 DEF Writing
    <3>2. ~Writing(d)
      BY <3>1 DEF IInv, MutexInv
    <3> QED
      BY <3>1, <3>2
  <2> QED
    BY <2>2, <2>3 DEF IInv, MutexInv
<1> QED
  BY <1>5, <1>6, <1>7, CallFrame, RanFrame DEF IInv

\* A signal is fired: it comes next on the event stream.
LEMMA EnterTriggerKeeps ==
  ASSUME IInv, NEW d \in Signallers, EnterTrigger(d)
  PROVE  IInv'
<1>1. UNCHANGED <<app, mCallbacks, op, stage, cbid, ran, handler, index>> /\ signal[d].at = "enter"
  BY DEF EnterTrigger, callVars, handlerVars, At
<1>2. CASE /\ mEventMutex = Nobody
           /\ signal' = [signal EXCEPT ![d].at = "trigger"]
           /\ mEventMutex' = d
           /\ fired' = Append(fired, signal[d])
           /\ UNCHANGED <<server, armed, request, link, ebuf, ewire>>
  <2>1. /\ signal \in [Signallers -> Signals] /\ signal[d] \in Signals /\ fired \in Seq(Signals)
        /\ Len(fired) \in Nat
    BY DEF IInv, Types
  <2>2. \A e \in Signallers : ~Writing(e)
    BY <1>2, EventAssumption DEF IInv, MutexInv
  <2>3. /\ signal'[d] = [signal[d] EXCEPT !.at = "trigger"]
        /\ \A e \in Signallers : e # d => signal'[e] = signal[e]
    BY <1>2, <2>1
  <2>4. /\ signal'[d].at = "trigger" /\ signal'[d].id = signal[d].id
        /\ signal'[d].kind = signal[d].kind /\ signal'[d].code = signal[d].code
        /\ signal'[d] \in Signals
    BY <2>1, <2>3 DEF Signals
  <2>5. signal' \in [Signallers -> Signals]
    BY <1>2, <2>1, <2>3, <2>4
  <2>6. /\ fired' \in Seq(Signals) /\ Len(fired') = Len(fired) + 1
        /\ (\A i \in 1 .. Len(fired) : fired'[i] = fired[i]) /\ fired'[Len(fired) + 1] = signal[d]
    BY <1>2, <2>1, Appended
  <2>7. Types'
    BY <1>1, <1>2, <2>5, <2>6 DEF IInv, Types
  <2>8. NamesInv'
    <3>1. Sound(mCallbacks, signal[d]) /\ Sound(mCallbacks, signal'[d])
      BY <1>1, <2>4 DEF IInv, NamesInv, Sound
    <3>2. \A e \in Signallers : signal'[e].at # "none" => Sound(mCallbacks, signal'[e])
      BY <2>3, <3>1 DEF IInv, NamesInv
    <3>3. DOMAIN fired = 1 .. Len(fired) /\ DOMAIN fired' = 1 .. Len(fired) + 1
      BY <2>1, <2>6
    <3>4. \A i \in DOMAIN fired' : Sound(mCallbacks, fired'[i])
      BY <2>1, <2>6, <3>1, <3>3 DEF IInv, NamesInv
    <3> QED
      BY <1>1, <1>2, <3>2, <3>4 DEF IInv, NamesInv
  <2>9. MutexInv'
    <3>1. signal'[Main].at # "none" => server' = "signalling"
      BY <1>1, <1>2, <2>3 DEF IInv, MutexInv, Signallers
    <3>2. \A e \in Signallers : Writing(e)' => e = d
      BY <2>2, <2>3 DEF Writing
    <3> QED
      BY <1>2, <2>1, <2>4, <2>6, <3>1, <3>2 DEF MutexInv
  <2>10. NextRead' = NextRead
    <3>1. Len(ran) \in Nat
      BY DEF IInv, Types
    <3>2. handler = "lock" => Len(ran) + 1 \in 1 .. Len(fired)
      BY <2>1, <3>1 DEF IInv, RanInv
    <3>3. handler = "lock" => After(fired', Trigger(Len(ran) + 1)) = After(fired, Trigger(Len(ran) + 1))
      BY <2>6, <3>2 DEF After, Trigger
    <3> QED
      BY <1>1, <3>3 DEF NextRead
  <2>11. NextWrite = Trigger(Len(fired) + 1) /\ NextWrite' = NextWrite
    BY <2>2, <2>4, <2>6 DEF NextWrite, Writing
  <2>12. WireInv'
    <3>1. link = "up" => Leads(fired', NextRead, ewire \o ebuf, NextWrite)
      BY <1>2, <2>1, LeadsGrow DEF IInv, WireInv
    <3>2. link = "cut" => \E b \in Cursors : Leads(fired', NextRead, ewire, b)
      BY <1>2, <2>1, LeadsGrow DEF IInv, WireInv
    <3> QED
      BY <1>2, <2>10, <2>11, <3>1, <3>2 DEF WireInv
  <2>13. RanInv'
    <3>1. Len(ran) \in Nat /\ Len(ran) <= Len(fired)
      BY DEF IInv, Types, RanInv, DeliveredInOrder
    <3>2. DeliveredInOrder'
      BY <1>1, <2>1, <2>6, <3>1 DEF IInv, RanInv, DeliveredInOrder
    <3> QED
      BY <1>1, <2>1, <2>6, <3>1, <3>2 DEF IInv, RanInv
  <2> QED
    BY <1>1, <2>7, <2>8, <2>9, <2>12, <2>13, CallFrame DEF IInv
<1>3. CASE SignalDone(d) /\ UNCHANGED <<armed, mEventMutex, link, ebuf, ewire, fired>>
  <2>1. signal[d] \in Signals /\ ebuf' \in Seq(PacketsE) /\ ewire' \in Seq(PacketsE)
    BY <1>3 DEF IInv, Types
  <2>2. signal'[d].at = "none" /\ \A e \in Signallers : e # d => signal'[e] = signal[e]
    BY <1>3 DEF IInv, Types, SignalDone, NoSignal
  <2>3. NextRead' = NextRead /\ NextWrite' = NextWrite
    BY <1>1, <1>3, <2>2 DEF NextRead, NextWrite
  <2>4. WireInv'
    BY <1>3, <2>3, WireFrame DEF IInv
  <2> QED
    BY <1>1, <1>3, <2>1, <2>4, DoneKeeps
<1>4. CASE ServerStops("crashed") /\ UNCHANGED <<request, fired>>
  BY <1>1, <1>4, StopKeeps
<1> QED
  BY <1>2, <1>3, <1>4 DEF EnterTrigger, wireVars


\* A packet is written at the place where one is written next.
LEMMA WriteLeads ==
  ASSUME IInv, NEW p \in PacketsE,
         NextWrite.of \in 1 .. Len(fired), p = PacketAt(fired, NextWrite),
         UNCHANGED <<fired, ran, handler, link, ewire>>,
         ebuf' = Append(ebuf, p), NextWrite' = After(fired, NextWrite)
  PROVE  WireInv'
<1>1. ewire \in Seq(PacketsE) /\ ebuf \in Seq(PacketsE) /\ ewire \o ebuf \in Seq(PacketsE)
  BY DEF IInv, Types
<1>2. NextRead' = NextRead
  BY DEF NextRead
<1>3. ewire' \o ebuf' = Append(ewire \o ebuf, p)
  BY <1>1, JoinAppend
<1>4. link = "up" => Leads(fired, NextRead, Append(ewire \o ebuf, p), After(fired, NextWrite))
  BY <1>1, LeadsAppend DEF IInv, WireInv
<1> QED
  BY <1>2, <1>3, <1>4 DEF IInv, WireInv

\* The trigger is written, and a program callback is done with that.
LEMMA WriteTriggerKeeps ==
  ASSUME IInv, NEW d \in Signallers, WriteTrigger(d)
  PROVE  IInv'
<1> DEFINE p == [ty |-> "trigger", data |-> signal[d].id]
<1>1. /\ UNCHANGED <<app, mCallbacks, op, stage, cbid, armed, fired, ran, handler, index, link, ewire>>
      /\ signal[d].at = "trigger" /\ ebuf' = Append(ebuf, p)
  BY DEF WriteTrigger, callVars, handlerVars, At
<1>2. /\ signal \in [Signallers -> Signals] /\ signal[d] \in Signals /\ p \in PacketsE
      /\ ewire \in Seq(PacketsE) /\ ebuf \in Seq(PacketsE) /\ Len(fired) \in Nat
  BY DEF IInv, Types, Signals, PacketsE
<1>3. ebuf' \in Seq(PacketsE)
  BY <1>1, <1>2, Appended
<1>4. /\ Writing(d) /\ Len(fired) > 0
      /\ signal[d].id = fired[Len(fired)].id /\ signal[d].kind = fired[Len(fired)].kind
      /\ \A e \in Signallers : e # d => ~Writing(e)
  BY <1>1 DEF IInv, MutexInv, Writing
<1>5. NextWrite = Trigger(Len(fired))
  BY <1>1 DEF NextWrite
<1>6. NextWrite.of \in 1 .. Len(fired) /\ p = PacketAt(fired, NextWrite)
  BY <1>2, <1>4, <1>5 DEF Trigger, PacketAt
<1>7. CASE /\ signal[d].kind = "event"
           /\ signal' = [signal EXCEPT ![d].at = "code"]
           /\ UNCHANGED <<server, request, mEventMutex>>
  <2>1. /\ signal'[d] = [signal[d] EXCEPT !.at = "code"]
        /\ \A e \in Signallers : e # d => signal'[e] = signal[e]
    BY <1>2, <1>7
  <2>2. /\ signal'[d].at = "code" /\ signal'[d].id = signal[d].id
        /\ signal'[d].kind = signal[d].kind /\ signal'[d].code = signal[d].code
        /\ signal'[d] \in Signals
    BY <1>2, <2>1 DEF Signals
  <2>3. signal' \in [Signallers -> Signals]
    BY <1>2, <1>7, <2>1, <2>2
  <2>4. Types'
    BY <1>1, <1>3, <1>7, <2>3 DEF IInv, Types
  <2>5. NamesInv'
    <3>1. \A e \in Signallers : signal'[e].at # "none" => Sound(mCallbacks, signal'[e])
      BY <1>1, <2>1, <2>2 DEF IInv, NamesInv, Sound
    <3> QED
      BY <1>1, <1>7, <3>1 DEF IInv, NamesInv
  <2>6. MutexInv'
    <3>1. signal'[Main].at # "none" => server' = "signalling"
      BY <1>1, <1>7, <2>1 DEF IInv, MutexInv, Signallers
    <3>2. \A e \in Signallers : Writing(e)' => e = d
      BY <1>4, <2>1 DEF Writing
    <3> QED
      BY <1>1, <1>4, <1>7, <2>2, <3>1, <3>2 DEF IInv, MutexInv
  <2>7. WireInv'
    <3>1. NextWrite' = Status(Len(fired))
      BY <1>1, <1>4, <2>1, <2>2 DEF NextWrite, Writing
    <3>2. After(fired, NextWrite) = Status(Len(fired))
      BY <1>4, <1>5, <1>7 DEF After, Trigger
    <3> QED
      BY <1>1, <1>2, <1>6, <3>1, <3>2, WriteLeads
  <2> QED
    BY <1>1, <2>4, <2>5, <2>6, <2>7, CallFrame, RanFrame DEF IInv
<1>8. CASE signal[d].kind # "event" /\ SignalDone(d) /\ mEventMutex' = Nobody
  <2>1. signal'[d].at = "none" /\ \A e \in Signallers : e # d => signal'[e] = signal[e]
    BY <1>2, <1>8 DEF SignalDone, NoSignal
  <2>2. NextWrite' = Trigger(Len(fired) + 1)
    BY <1>1, <1>4, <2>1 DEF NextWrite, Writing
  <2>3. After(fired, NextWrite) = Trigger(Len(fired) + 1)
    BY <1>4, <1>5, <1>8 DEF After, Trigger
  <2>4. WireInv'
    BY <1>1, <1>2, <1>6, <2>2, <2>3, WriteLeads
  <2>5. ewire' \in Seq(PacketsE)
    BY <1>1, <1>2
  <2> QED
    BY <1>1, <1>3, <1>4, <1>8, <2>4, <2>5, DoneKeeps
<1> QED
  BY <1>7, <1>8 DEF WriteTrigger

\* The status of an event is written after its trigger.
LEMMA WriteCodeKeeps ==
  ASSUME IInv, NEW d \in Signallers, WriteCode(d)
  PROVE  IInv'
<1> DEFINE p == [ty |-> "code", data |-> signal[d].code % IDLimit]
<1>1. /\ UNCHANGED <<app, mCallbacks, op, stage, cbid, armed, fired, ran, handler, index, link, ewire,
                     server, request, mEventMutex>>
      /\ signal[d].at = "code" /\ ebuf' = Append(ebuf, p)
      /\ signal' = [signal EXCEPT ![d].at = "flush"]
  BY DEF WriteCode, callVars, handlerVars, At
<1>2. /\ signal \in [Signallers -> Signals] /\ signal[d] \in Signals /\ signal[d].code \in Int
      /\ ewire \in Seq(PacketsE) /\ ebuf \in Seq(PacketsE) /\ Len(fired) \in Nat
  BY DEF IInv, Types, Signals
<1>3. p \in PacketsE
  BY <1>2, LimitType DEF PacketsE
<1>4. ebuf' \in Seq(PacketsE)
  BY <1>1, <1>2, <1>3, Appended
<1>5. /\ Writing(d) /\ Len(fired) > 0 /\ signal[d].kind = "event"
      /\ signal[d].code = fired[Len(fired)].code
      /\ \A e \in Signallers : e # d => ~Writing(e)
  BY <1>1 DEF IInv, MutexInv, Writing
<1>6. NextWrite = Status(Len(fired))
  BY <1>1, <1>5 DEF NextWrite, Writing
<1>7. NextWrite.of \in 1 .. Len(fired) /\ p = PacketAt(fired, NextWrite)
  BY <1>2, <1>5, <1>6 DEF Status, PacketAt
<1> HIDE DEF p
<1>8. /\ signal'[d] = [signal[d] EXCEPT !.at = "flush"]
      /\ \A e \in Signallers : e # d => signal'[e] = signal[e]
  BY <1>1, <1>2
<1>9. /\ signal'[d].at = "flush" /\ signal'[d].id = signal[d].id
      /\ signal'[d].kind = signal[d].kind /\ signal'[d].code = signal[d].code
      /\ signal'[d] \in Signals
  BY <1>2, <1>8 DEF Signals
<1>10. signal' \in [Signallers -> Signals]
  BY <1>1, <1>2, <1>8, <1>9
<1>11. Types'
  BY <1>1, <1>4, <1>10 DEF IInv, Types
<1>12. NamesInv'
  <2>1. \A e \in Signallers : signal'[e].at # "none" => Sound(mCallbacks, signal'[e])
    BY <1>1, <1>8, <1>9 DEF IInv, NamesInv, Sound
  <2> QED
    BY <1>1, <2>1 DEF IInv, NamesInv
<1>13. MutexInv'
  <2>1. signal'[Main].at # "none" => server' = "signalling"
    BY <1>1, <1>8 DEF IInv, MutexInv, Signallers
  <2>2. \A e \in Signallers : Writing(e)' => e = d
    BY <1>5, <1>8 DEF Writing
  <2> QED
    BY <1>1, <1>5, <1>9, <2>1, <2>2 DEF IInv, MutexInv
<1>14. WireInv'
  <2>1. NextWrite' = Trigger(Len(fired) + 1)
    BY <1>1, <1>5, <1>8, <1>9 DEF NextWrite, Writing
  <2>2. After(fired, NextWrite) = Trigger(Len(fired) + 1)
    BY <1>6 DEF After, Status
  <2> QED
    BY <1>1, <1>3, <1>7, <2>1, <2>2, WriteLeads
<1> QED
  BY <1>1, <1>11, <1>12, <1>13, <1>14, CallFrame, RanFrame DEF IInv

\* flush() moves packets from the buffer to the socket, or loses them.
LEMMA FlushKeeps ==
  ASSUME IInv, NEW d \in Signallers, FlushSignal(d)
  PROVE  IInv'
<1>1. /\ UNCHANGED <<app, mCallbacks, op, stage, cbid, fired, ran, handler, index>>
      /\ signal[d].at = "flush"
  BY DEF FlushSignal, callVars, handlerVars, At
<1>2. ewire \in Seq(PacketsE) /\ ebuf \in Seq(PacketsE) /\ signal \in [Signallers -> Signals]
  BY DEF IInv, Types
<1>3. Writing(d) /\ \A e \in Signallers : e # d => ~Writing(e)
  BY <1>1 DEF IInv, MutexInv, Writing
<1>4. NextWrite = Trigger(Len(fired) + 1)
  BY <1>1, <1>3 DEF NextWrite, Writing
<1>5. SignalDone(d) => NextWrite' = NextWrite
  <2> SUFFICES ASSUME SignalDone(d) PROVE NextWrite' = NextWrite
    OBVIOUS
  <2>1. signal'[d].at = "none" /\ \A e \in Signallers : e # d => signal'[e] = signal[e]
    BY <1>2 DEF SignalDone, NoSignal
  <2> QED
    BY <1>1, <1>3, <1>4, <2>1 DEF NextWrite, Writing
<1>6. NextRead' = NextRead
  BY <1>1 DEF NextRead
<1>7. CASE /\ link = "up" /\ UNCHANGED <<armed, link>>
           /\ \E k \in 1 .. Len(ebuf) :
                /\ ewire' = ewire \o SubSeq(ebuf, 1, k)
                /\ ebuf' = SubSeq(ebuf, k + 1, Len(ebuf))
                /\ IF k = Len(ebuf) THEN SignalDone(d) /\ mEventMutex' = Nobody
                                    ELSE UNCHANGED <<signal, server, request, mEventMutex>>
  <2>1. PICK k \in 1 .. Len(ebuf) :
           /\ ewire' = ewire \o SubSeq(ebuf, 1, k)
           /\ ebuf' = SubSeq(ebuf, k + 1, Len(ebuf))
           /\ IF k = Len(ebuf) THEN SignalDone(d) /\ mEventMutex' = Nobody
                               ELSE UNCHANGED <<signal, server, request, mEventMutex>>
    BY <1>7
  <2>2. k \in 0 .. Len(ebuf)
    OBVIOUS
  <2>3. SubSeq(ebuf, 1, k) \in Seq(PacketsE) /\ ebuf' \in Seq(PacketsE)
    BY <1>2, <2>1, <2>2, PrefixTaken, SuffixTaken
  <2>4. ewire' \in Seq(PacketsE)
    BY <1>2, <2>1, <2>3, Joined
  <2>5. ewire' \o ebuf' = ewire \o ebuf
    BY <1>2, <2>1, <2>2, JoinMove
  <2>6. NextWrite' = NextWrite
    <3>1. UNCHANGED signal => NextWrite' = NextWrite
      BY <1>1 DEF NextWrite
    <3> QED
      BY <1>5, <2>1, <3>1
  <2>7. WireInv'
    BY <1>1, <1>6, <1>7, <2>5, <2>6 DEF IInv, WireInv
  <2>8. CASE SignalDone(d) /\ mEventMutex' = Nobody
    BY <1>1, <1>3, <1>7, <2>3, <2>4, <2>7, <2>8, DoneKeeps
  <2>9. CASE UNCHANGED <<signal, server, request, mEventMutex>>
    <3>1. Types'
      BY <1>1, <1>7, <2>3, <2>4, <2>9 DEF IInv, Types
    <3> QED
      BY <1>1, <1>7, <2>7, <2>9, <3>1, CallFrame, NamesFrame, MutexFrame, RanFrame DEF IInv
  <2> QED
    BY <2>1, <2>8, <2>9
<1>8. CASE /\ link = "cut" /\ ebuf' = << >> /\ SignalDone(d) /\ mEventMutex' = Nobody
           /\ UNCHANGED <<armed, link, ewire>>
  <2>1. ebuf' \in Seq(PacketsE) /\ ewire' \in Seq(PacketsE)
    BY <1>2, <1>8
  <2>2. WireInv'
    BY <1>1, <1>6, <1>8 DEF IInv, WireInv
  <2> QED
    BY <1>1, <1>3, <1>8, <2>1, <2>2, DoneKeeps
<1>9. CASE ServerStops("crashed") /\ UNCHANGED request
  BY <1>1, <1>9, StopKeeps
<1> QED
  BY <1>7, <1>8, <1>9 DEF FlushSignal

\* ServerEnds.
LEMMA ServerEndsKeeps ==
  ASSUME IInv, ServerEnds
  PROVE  IInv'
  BY StopKeeps DEF ServerEnds, callVars, handlerVars


-----------------------------------------------------------------------------
(* The callback thread. *)

\* What is at the front of the socket is the packet to be read next.
LEMMA ReadFront ==
  ASSUME IInv, ewire # << >>
  PROVE  /\ NextRead.of \in 1 .. Len(fired) /\ Head(ewire) = PacketAt(fired, NextRead)
         /\ Tail(ewire) \in Seq(PacketsE) /\ Head(ewire) \in PacketsE
         /\ link = "up" => Leads(fired, After(fired, NextRead), Tail(ewire) \o ebuf, NextWrite)
         /\ link = "cut" => \E b \in Cursors : Leads(fired, After(fired, NextRead), Tail(ewire), b)
<1>1. ewire \in Seq(PacketsE) /\ ebuf \in Seq(PacketsE) /\ link \in {"up", "cut"}
  BY DEF IInv, Types
<1>2. Tail(ewire) \in Seq(PacketsE) /\ Head(ewire) \in PacketsE
  BY <1>1, TailTaken
<1>3. CASE link = "up"
  <2>1. Leads(fired, NextRead, ewire \o ebuf, NextWrite)
    BY <1>3 DEF IInv, WireInv
  <2>2. /\ ewire \o ebuf \in Seq(PacketsE) /\ ewire \o ebuf # << >>
        /\ Head(ewire \o ebuf) = Head(ewire) /\ Tail(ewire) \o ebuf = Tail(ewire \o ebuf)
    BY <1>1, JoinTail, Joined
  <2> QED
    BY <1>2, <1>3, <2>1, <2>2, LeadsTail
<1>4. CASE link = "cut"
  <2>1. PICK b \in Cursors : Leads(fired, NextRead, ewire, b)
    BY <1>4 DEF IInv, WireInv
  <2> QED
    BY <1>1, <1>2, <1>4, <2>1, LeadsTail
<1> QED
  BY <1>1, <1>3, <1>4

\* A callback that is to be run is the next one that was fired.
LEMMA RunsNext ==
  ASSUME IInv, NEW r \in Runnings, UNCHANGED fired, ran' = Append(ran, r),
         handler' = "user", Len(ran) < Len(fired),
         r.id = fired[Len(ran) + 1].id, r.kind = fired[Len(ran) + 1].kind,
         r.code = fired[Len(ran) + 1].code % 65536
  PROVE  RanInv' /\ Len(ran') = Len(ran) + 1 /\ ran' \in Seq(Runnings)
<1>1. ran \in Seq(Runnings) /\ Len(ran) \in Nat /\ Len(fired) \in Nat
  BY DEF IInv, Types
<1>2. /\ ran' \in Seq(Runnings) /\ Len(ran') = Len(ran) + 1
      /\ (\A i \in 1 .. Len(ran) : ran'[i] = ran[i]) /\ ran'[Len(ran) + 1] = r
  BY <1>1, Appended
<1>3. ASSUME NEW i \in 1 .. Len(ran')
      PROVE  /\ ran'[i].id = fired'[i].id /\ ran'[i].kind = fired'[i].kind
             /\ ran'[i].code = fired'[i].code % 65536
  <2>1. CASE i = Len(ran) + 1
    BY <1>2, <2>1
  <2>2. CASE i \in 1 .. Len(ran)
    BY <1>2, <2>2 DEF IInv, RanInv, DeliveredInOrder
  <2> QED
    BY <1>1, <1>2, <2>1, <2>2
<1>4. DeliveredInOrder'
  BY <1>1, <1>2, <1>3 DEF DeliveredInOrder
<1> QED
  BY <1>2, <1>4 DEF RanInv

\* The next trigger is read, or the thread ends.
LEMMA HandleNextKeeps ==
  ASSUME IInv, HandleNext
  PROVE  IInv'
<1>1. /\ UNCHANGED <<app, mCallbacks, op, stage, cbid, request, armed, signal, server, mEventMutex,
                     link, ebuf, fired, ran>> /\ handler = "wait"
  BY DEF HandleNext, callVars, serverVars
<1>2. NextRead = Trigger(Len(ran) + 1)
  BY <1>1 DEF NextRead
<1>3. NextWrite' = NextWrite
  BY <1>1 DEF NextWrite
<1>4. CASE /\ ewire # << >> /\ index' = Head(ewire).data /\ ewire' = Tail(ewire)
           /\ handler' = "lock"
  <2>1. /\ NextRead.of \in 1 .. Len(fired) /\ Head(ewire) = PacketAt(fired, NextRead)
        /\ Tail(ewire) \in Seq(PacketsE) /\ Head(ewire) \in PacketsE
    BY <1>4, ReadFront
  <2>2. Len(ran) \in Nat /\ Len(fired) \in Nat
    BY DEF IInv, Types
  <2>3. Len(ran) + 1 \in 1 .. Len(fired) /\ index' = fired[Len(ran) + 1].id
    BY <1>2, <1>4, <2>1 DEF Trigger, PacketAt
  <2>4. Types'
    BY <1>1, <1>4, <2>1 DEF IInv, Types, PacketsE
  <2>5. WireInv'
    <3>1. NextRead' = After(fired, NextRead)
      BY <1>1, <1>2, <1>4 DEF NextRead
    <3> QED
      BY <1>1, <1>3, <1>4, <3>1, ReadFront DEF WireInv
  <2>6. RanInv'
    BY <1>1, <1>4, <2>2, <2>3 DEF IInv, RanInv, DeliveredInOrder
  <2> QED
    BY <1>1, <2>4, <2>5, <2>6, CallFrame, NamesFrame, MutexFrame DEF IInv
<1>5. CASE handler' = "ended" /\ UNCHANGED <<index, ewire>>
  <2>1. NextRead' = NextRead
    BY <1>1, <1>5 DEF NextRead
  <2>2. Types'
    BY <1>1, <1>5 DEF IInv, Types
  <2>3. RanInv'
    BY <1>1, <1>5 DEF IInv, RanInv, DeliveredInOrder
  <2> QED
    BY <1>1, <1>3, <1>5, <2>1, <2>2, <2>3, CallFrame, NamesFrame, MutexFrame, WireFrame DEF IInv
<1> QED
  BY <1>4, <1>5 DEF HandleNext

\* The trigger names a callback in the list, of the kind that was signalled.
LEMMA TriggerKnown ==
  ASSUME IInv, handler \in {"lock", "code"}
  PROVE  /\ Len(ran) < Len(fired) /\ Len(ran) + 1 \in 1 .. Len(fired)
         /\ index = fired[Len(ran) + 1].id /\ index \in 0 .. Len(mCallbacks) - 1
         /\ Kind(index) = fired[Len(ran) + 1].kind /\ Kind(index) \in {"event", "program"}
         /\ Kind(index) = "program" => fired[Len(ran) + 1].code = 0
<1>1. Len(ran) \in Nat /\ fired \in Seq(Signals) /\ mCallbacks \in Seq({"event", "program"})
  BY DEF IInv, Types
<1>2. Len(ran) < Len(fired) /\ index = fired[Len(ran) + 1].id
  BY DEF IInv, RanInv
<1>3. Len(ran) + 1 \in DOMAIN fired /\ Len(ran) + 1 \in 1 .. Len(fired)
  BY <1>1, <1>2
<1>4. Sound(mCallbacks, fired[Len(ran) + 1])
  BY <1>3 DEF IInv, NamesInv
<1>5. /\ index \in 0 .. Len(mCallbacks) - 1 /\ mCallbacks[index + 1] = fired[Len(ran) + 1].kind
      /\ fired[Len(ran) + 1].kind = "program" => fired[Len(ran) + 1].code = 0
  BY <1>2, <1>4 DEF Sound, Registered
<1>6. mCallbacks[index + 1] \in {"event", "program"}
  BY <1>1, <1>5
<1> QED
  BY <1>2, <1>3, <1>5, <1>6 DEF Kind

\* A program callback is run; the callback of an event waits for its status.
LEMMA HandleLockKeeps ==
  ASSUME IInv, HandleLock
  PROVE  IInv'
<1>1. /\ UNCHANGED <<app, mCallbacks, op, stage, cbid, request, armed, signal, server, mEventMutex,
                     link, ebuf, ewire, fired, index>> /\ handler = "lock"
  BY DEF HandleLock, callVars, serverVars, wireVars
<1>2. /\ Len(ran) < Len(fired) /\ Len(ran) + 1 \in 1 .. Len(fired)
      /\ index = fired[Len(ran) + 1].id /\ index \in 0 .. Len(mCallbacks) - 1
      /\ Kind(index) = fired[Len(ran) + 1].kind /\ Kind(index) \in {"event", "program"}
      /\ Kind(index) = "program" => fired[Len(ran) + 1].code = 0
  BY <1>1, TriggerKnown
<1>3. NextRead = After(fired, Trigger(Len(ran) + 1))
  BY <1>1 DEF NextRead
<1>4. NextWrite' = NextWrite
  BY <1>1 DEF NextWrite
<1>5. Len(mCallbacks) \in Nat /\ Len(ran) \in Nat /\ ran \in Seq(Runnings)
  BY DEF IInv, Types
<1>6. CASE Kind(index) = "event" /\ handler' = "code" /\ UNCHANGED ran
  <2>1. NextRead' = NextRead
    BY <1>1, <1>2, <1>3, <1>6 DEF NextRead, After, Trigger
  <2>2. Types'
    BY <1>1, <1>6 DEF IInv, Types
  <2>3. RanInv'
    <3>1. DeliveredInOrder'
      BY <1>1, <1>6 DEF IInv, RanInv, DeliveredInOrder
    <3> QED
      BY <1>1, <1>2, <1>6, <3>1 DEF RanInv
  <2> QED
    BY <1>1, <1>4, <2>1, <2>2, <2>3, CallFrame, NamesFrame, MutexFrame, WireFrame DEF IInv
<1>7. CASE Kind(index) # "event" /\ Runs(index, 0)
  <2> DEFINE r == [id |-> index, kind |-> Kind(index), code |-> 0]
  <2>1. handler' = "user" /\ ran' = Append(ran, r)
    BY <1>7 DEF Runs
  <2>2. r \in Runnings
    BY <1>2, <1>5 DEF Runnings
  <2>3. /\ r.id = fired[Len(ran) + 1].id /\ r.kind = fired[Len(ran) + 1].kind
        /\ r.code = fired[Len(ran) + 1].code % 65536
    BY <1>2, <1>7
  <2> HIDE DEF r
  <2>4. RanInv' /\ Len(ran') = Len(ran) + 1 /\ ran' \in Seq(Runnings)
    BY <1>1, <1>2, <2>1, <2>2, <2>3, RunsNext
  <2>5. Types'
    BY <1>1, <2>1, <2>4 DEF IInv, Types
  <2>6. NextRead' = NextRead
    <3>1. NextRead' = Trigger((Len(ran) + 1) + 1)
      BY <2>1, <2>4 DEF NextRead
    <3> QED
      BY <1>2, <1>3, <1>7, <3>1 DEF After, Trigger
  <2> QED
    BY <1>1, <1>4, <2>4, <2>5, <2>6, CallFrame, NamesFrame, MutexFrame, WireFrame DEF IInv
<1>8. ~(index >= Len(mCallbacks))
  BY <1>2, <1>5
<1> QED
  BY <1>6, <1>7, <1>8 DEF HandleLock

\* The status of an event is read and its callback is run.
LEMMA HandleCodeKeeps ==
  ASSUME IInv, HandleCode
  PROVE  IInv'
<1>1. /\ UNCHANGED <<app, mCallbacks, op, stage, cbid, request, armed, signal, server, mEventMutex,
                     fired, index>> /\ handler = "code"
  BY DEF HandleCode, callVars, serverVars
<1>2. /\ Len(ran) < Len(fired) /\ Len(ran) + 1 \in 1 .. Len(fired)
      /\ index = fired[Len(ran) + 1].id /\ index \in 0 .. Len(mCallbacks) - 1
      /\ Kind(index) = fired[Len(ran) + 1].kind /\ Kind(index) \in {"event", "program"}
  BY <1>1, TriggerKnown
<1>3. NextRead = Status(Len(ran) + 1)
  BY <1>1 DEF NextRead
<1>4. NextWrite' = NextWrite
  BY <1>1 DEF NextWrite
<1>5. Len(ran) \in Nat /\ index \in Int
  BY DEF IInv, Types
<1>6. CASE /\ ewire # << >> /\ ewire' = Tail(ewire) /\ Runs(index, Head(ewire).data)
           /\ UNCHANGED <<link, ebuf>>
  <2> DEFINE r == [id |-> index, kind |-> Kind(index), code |-> Head(ewire).data]
  <2>1. handler' = "user" /\ ran' = Append(ran, r)
    BY <1>6 DEF Runs
  <2>2. /\ Head(ewire) = PacketAt(fired, NextRead)
        /\ Tail(ewire) \in Seq(PacketsE) /\ Head(ewire) \in PacketsE
    BY <1>6, ReadFront
  <2>3. Head(ewire).data = fired[Len(ran) + 1].code % 65536 /\ Head(ewire).data \in Int
    BY <1>3, <2>2 DEF PacketAt, Status, PacketsE, IDLimit
  <2>4. r \in Runnings
    BY <1>2, <1>5, <2>3 DEF Runnings
  <2>5. /\ r.id = fired[Len(ran) + 1].id /\ r.kind = fired[Len(ran) + 1].kind
        /\ r.code = fired[Len(ran) + 1].code % 65536
    BY <1>2, <2>3
  <2> HIDE DEF r
  <2>6. RanInv' /\ Len(ran') = Len(ran) + 1 /\ ran' \in Seq(Runnings)
    BY <1>1, <1>2, <2>1, <2>4, <2>5, RunsNext
  <2>7. Types'
    BY <1>1, <1>6, <2>1, <2>2, <2>6 DEF IInv, Types
  <2>8. NextRead' = After(fired, NextRead)
    <3>1. NextRead' = Trigger((Len(ran) + 1) + 1)
      BY <2>1, <2>6 DEF NextRead
    <3> QED
      BY <1>3, <3>1 DEF After, Trigger, Status
  <2>9. WireInv'
    BY <1>1, <1>4, <1>6, <2>8, ReadFront DEF WireInv
  <2> QED
    BY <1>1, <2>6, <2>7, <2>9, CallFrame, NamesFrame, MutexFrame DEF IInv
<1>7. CASE Aborts /\ UNCHANGED <<handler, ran>>
  <2>1. link' = "cut" /\ ewire' = << >> /\ ebuf' = << >>
    BY <1>7 DEF Aborts
  <2>2. NextRead' = NextRead /\ NextRead \in Cursors
    BY <1>1, <1>7, NextTypes DEF NextRead, IInv
  <2>3. Types'
    BY <1>1, <1>7, <2>1 DEF IInv, Types
  <2>4. WireInv'
    BY <1>1, <2>1, <2>2, LeadsEmpty DEF WireInv
  <2> QED
    BY <1>1, <1>7, <2>3, <2>4, CallFrame, NamesFrame, MutexFrame, RanFrame DEF IInv
<1> QED
  BY <1>6, <1>7 DEF HandleCode

\* The application's callback returns.
LEMMA UserReturnsKeeps ==
  ASSUME IInv, UserReturns
  PROVE  IInv'
<1>1. /\ UNCHANGED <<app, mCallbacks, op, stage, cbid, request, armed, signal, server, mEventMutex,
                     link, ebuf, ewire, fired, ran, index>>
      /\ handler \in {"user", "called"} /\ handler' = "wait"
  BY DEF UserReturns, callVars, serverVars, wireVars
<1>2. NextRead' = NextRead /\ NextWrite' = NextWrite
  BY <1>1 DEF NextRead, NextWrite
<1>3. Types' /\ RanInv'
  BY <1>1 DEF IInv, Types, RanInv, DeliveredInOrder
<1> QED
  BY <1>1, <1>2, <1>3, CallFrame, NamesFrame, MutexFrame, WireFrame DEF IInv

-----------------------------------------------------------------------------
(* The connection and the application end. *)

\* Cut and Exit.
LEMMA EndKeeps ==
  ASSUME IInv, Cut \/ Exit
  PROVE  IInv'
<1>1. /\ UNCHANGED <<app, mCallbacks, op, stage, cbid, request, armed, signal, server, mEventMutex,
                     ebuf, fired, ran, handler, index>> /\ link' = "cut"
  BY DEF Cut, Exit, callVars, serverVars, handlerVars
<1>2. ewire \in Seq(PacketsE) /\ Len(ewire) \in Nat
  BY DEF IInv, Types
<1>3. PICK n \in 0 .. Len(ewire) : ewire' = SubSeq(ewire, 1, n)
  <2>1. ewire' = << >> => ewire' = SubSeq(ewire, 1, 0)
    BY <1>2
  <2>2. 0 \in 0 .. Len(ewire)
    BY <1>2
  <2> QED
    BY <2>1, <2>2 DEF Cut, Exit
<1>4. ewire' \in Seq(PacketsE)
  BY <1>2, <1>3, PrefixTaken
<1>5. Types'
  BY <1>1, <1>4 DEF IInv, Types
<1>6. WireInv'
  <2>1. NextRead' = NextRead
    BY <1>1 DEF NextRead
  <2>2. \E c \in Cursors : Leads(fired, NextRead, SubSeq(ewire, 1, n), c)
    BY CutPrefix
  <2> QED
    BY <1>1, <1>3, <2>1, <2>2 DEF WireInv
<1> QED
  BY <1>1, <1>5, <1>6, CallFrame, NamesFrame, MutexFrame, RanFrame DEF IInv

-----------------------------------------------------------------------------
(* The theorems. *)

\* Nothing that changes no variable changes the invariant.
LEMMA StutterKeeps ==
  ASSUME IInv, UNCHANGED vars
  PROVE  IInv'
<1>1. UNCHANGED <<app, mCallbacks, op, stage, cbid, request, armed, signal, server, mEventMutex,
                  link, ebuf, ewire, fired, ran, handler, index>>
  BY DEF vars, callVars, handlerVars, serverVars, wireVars
<1>2. NextRead' = NextRead /\ NextWrite' = NextWrite
  BY <1>1 DEF NextRead, NextWrite
<1>3. Types'
  BY <1>1 DEF IInv, Types
<1> QED
  BY <1>1, <1>2, <1>3, CallFrame, NamesFrame, MutexFrame, WireFrame, RanFrame DEF IInv

\* Every step keeps the invariant.
LEMMA Inductive ==
  ASSUME IInv, [Next]_vars
  PROVE  IInv'
<1>1. ASSUME NEW t \in Threads, NEW o \in Ops, Start(t, o) PROVE IInv'
  BY <1>1, StartKeeps
<1>2. ASSUME NEW o \in Ops, UserCalls(o) PROVE IInv'
  BY <1>2, UserCallsKeeps
<1>3. ASSUME NEW t \in Callers, Lock(t) \/ HolderStep(t) PROVE IInv'
  BY <1>3, LockKeeps, RegisterKeeps, SendKeeps, ReturnKeeps DEF HolderStep
<1>4. CASE Serve \/ ServerEnds
  BY <1>4, ServeKeeps, ServerEndsKeeps
<1>5. ASSUME NEW d \in Drivers, Fire(d) PROVE IInv'
  BY <1>5, FireKeeps
<1>6. ASSUME NEW d \in Signallers, SignalStep(d) PROVE IInv'
  BY <1>6, EnterTriggerKeeps, WriteTriggerKeeps, WriteCodeKeeps, FlushKeeps DEF SignalStep
<1>7. CASE HandlerStep
  BY <1>7, HandleNextKeeps, HandleLockKeeps, HandleCodeKeeps, UserReturnsKeeps DEF HandlerStep
<1>8. CASE Cut \/ Exit
  BY <1>8, EndKeeps
<1>9. CASE Over \/ UNCHANGED vars
  BY <1>9, StutterKeeps DEF Over
<1> QED
  BY <1>1, <1>2, <1>3, <1>4, <1>5, <1>6, <1>7, <1>8, <1>9 DEF Next

\* Signals are delivered in the order of mEventMutex, each to its own callback,
\* with its own status and at most once, however many threads signal and
\* register (instance.cpp, triggerEventCallback; connection.cpp,
\* HandleCallbacks), as long as IDType has a number for every callback.
THEOREM SignalsKeepTheirOrder ==
  ASSUME FewCallbacks
  PROVE  Spec => []DeliveredInOrder
<1>1. Init => IInv
  BY Initially
<1>2. IInv /\ [Next]_vars => IInv'
  BY Inductive
<1>3. IInv => DeliveredInOrder
  BY DEF IInv, RanInv
<1> QED
  BY <1>1, <1>2, <1>3, PTL DEF Spec

\* The callback thread knows every trigger that it reads, and the packet it
\* reads next is the one that it expects: "Invalid server-side event trigger"
\* and "Unexpected packet in event stream" (connection.cpp) are never reached.
THEOREM EventStreamStaysInStep ==
  ASSUME FewCallbacks
  PROVE  Spec => []StreamInStep
<1>1. Init => IInv
  BY Initially
<1>2. IInv /\ [Next]_vars => IInv'
  BY Inductive
<1>3. ASSUME IInv PROVE StreamInStep
  <2>1. handler = "lock" => index < Len(mCallbacks)
    <3>1. Len(mCallbacks) \in Nat
      BY <1>3 DEF IInv, Types
    <3> QED
      BY <1>3, <3>1, TriggerKnown
  <2>2. handler = "wait" /\ ewire # << >> => Head(ewire).ty = "trigger"
    BY <1>3, ReadFront DEF NextRead, PacketAt, Trigger
  <2>3. handler = "code" /\ ewire # << >> => Head(ewire).ty = "code"
    BY <1>3, ReadFront DEF NextRead, PacketAt, Status
  <2> QED
    BY <2>1, <2>2, <2>3 DEF StreamInStep
<1>4. IInv => StreamInStep
  BY <1>3
<1> QED
  BY <1>1, <1>2, <1>4, PTL DEF Spec

=============================================================================

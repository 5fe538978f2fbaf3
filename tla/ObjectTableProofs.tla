-------------------------- MODULE ObjectTableProofs --------------------------
(***************************************************************************)
(* Proofs about ObjectTable, for every set of addresses, every list of     *)
(* platforms and devices, every range of IDs and any number of references. *)
(***************************************************************************)
EXTENDS ObjectTable, SequenceTheorems, TLAPS

-----------------------------------------------------------------------------
(* The inductive invariant. *)

\* Objects that the driver has; those that it keeps while a call is in progress.
Live == {o \in Objects : kind[o] # "free"}
Pinned(o) ==
  \/ o \in Static \cup {NULL}
  \/ o \in Live /\ refs[o] > 0
  \/ o \in Live /\ \E c \in Live : refs[c] > 0 /\ o \in {parent[c], context[c]}

\* What the driver has: platforms and devices for ever, and at an address an
\* object whose parent and context it keeps.
DriverInv ==
  /\ \A o \in Members(Platforms) : kind[o] = "PlatformID"
  /\ \A o \in Members(Devices) : kind[o] = "DeviceID"
  /\ \A o \in Addresses : kind[o] \in Kinds \cup {"free"}
  /\ \A o \in Objects : {parent[o], context[o]} \subseteq Addresses \cup {NULL}
  /\ \A o \in Live : {parent[o], context[o]} \subseteq Live \cup {NULL}

\* The objects of the call in progress.
Mentioned == Members(call.todo) \cup {call.reply[i].obj : i \in DOMAIN call.reply}

\* The call in progress is about objects that the driver keeps, of the kind of
\* wrapper the client will make; the IDs of its reply are those of the table.
CallInv ==
  /\ call = Idle <=> (call.todo = << >> /\ call.reply = << >>)
  /\ call # Idle => call.kind # "null"
  /\ call.kind = "PlatformID" => call.how = "insert"
  /\ \A o \in Mentioned : Pinned(o) /\ (o \in Static => kind[o] = call.kind)
  /\ \A i \in DOMAIN call.reply :
       \/ getObj(call.reply[i].id) = call.reply[i].obj /\ call.reply[i].id < Len(mObjects)
       \/ call.how = "buffer" /\ call.reply[i].obj = NULL /\ call.reply[i].id = NoBuffer

\* The call in progress creates the object at o.
Creating(o) ==
  /\ \/ call.todo = <<o>> /\ call.reply = << >>
     \/ call.todo = << >> /\ Len(call.reply) = 1 /\ call.reply[1].obj = o
  /\ \/ call.how = "register" /\ call.kind = kind[o]
     \/ call.how = "insert" /\ kind[o] = "MemObject"

\* The server's table gives an ID to one object only.
TableInv == \A i, j \in DOMAIN mObjects : mObjects[i] = mObjects[j] => i = j

\* The application has a handle for every object at an address, but for the one
\* that is being created.  Only then a wrapper is replaced.
HeldInv ==
  /\ \A o \in Addresses : kind[o] # "free" /\ held[o] = NoHandle => Creating(o)
  /\ call.how = "register" => \A o \in Mentioned : o \in Addresses /\ Creating(o) /\ held[o] = NoHandle

\* The slot of an ID has a wrapper, or is beyond the end of the client's table
\* when its turn comes, and will be given one.
Filled(i) == i <= Len(table) /\ table[i] # "null"
Coming(i) ==
  /\ i > Len(table) /\ call.how \in {"register", "insert"}
  /\ \E j \in DOMAIN call.reply :
       /\ call.reply[j].id = i - 1
       /\ \A h \in 1 .. j - 1 : call.reply[h].id < i - 1

SlotInv ==
  /\ \A i \in DOMAIN mObjects :
       mObjects[i] \in Addresses \cup Members(Platforms) => Filled(i) \/ Coming(i)
  /\ \A i \in DOMAIN table :
       table[i] # "null" /\ mObjects[i] \in Static => table[i] = kind[mObjects[i]]

IInv ==
  /\ TypeOK /\ DriverInv /\ CallInv /\ TableInv /\ HeldInv /\ SlotInv
  /\ HandlesMeanObjects /\ CountsAgree /\ WrapperFound

-----------------------------------------------------------------------------
(* Sequences and IDs. *)

\* What Append does.
LEMMA Appended ==
  ASSUME NEW S, NEW s \in Seq(S), NEW x \in S
  PROVE  /\ Append(s, x) \in Seq(S) /\ Len(s) \in Nat /\ Len(Append(s, x)) = Len(s) + 1
         /\ DOMAIN s = 1 .. Len(s) /\ DOMAIN Append(s, x) = 1 .. Len(s) + 1
         /\ Append(s, x)[Len(s) + 1] = x
         /\ \A i \in 1 .. Len(s) : Append(s, x)[i] = s[i]
         /\ Append(s, x) # << >>
OBVIOUS

\* What Tail does.
LEMMA TailTaken ==
  ASSUME NEW S, NEW s \in Seq(S), s # << >>
  PROVE  /\ Tail(s) \in Seq(S) /\ Len(s) \in Nat \ {0} /\ Len(Tail(s)) = Len(s) - 1
         /\ DOMAIN s = 1 .. Len(s) /\ DOMAIN Tail(s) = 1 .. Len(s) - 1
         /\ \A i \in 1 .. Len(s) - 1 : Tail(s)[i] = s[i + 1]
         /\ Head(s) = s[1] /\ Head(s) \in S
         /\ Members(s) = Members(Tail(s)) \cup {Head(s)}
<1>1. /\ Tail(s) \in Seq(S) /\ Len(s) \in Nat \ {0} /\ Len(Tail(s)) = Len(s) - 1
      /\ DOMAIN s = 1 .. Len(s) /\ Head(s) = s[1] /\ Head(s) \in S
  OBVIOUS
<1>2. DOMAIN Tail(s) = 1 .. Len(s) - 1
  BY <1>1
<1>3. \A i \in 1 .. Len(s) - 1 : Tail(s)[i] = s[i + 1]
  OBVIOUS
<1>4. ASSUME NEW x \in Members(s)
      PROVE  x \in Members(Tail(s)) \cup {Head(s)}
  <2>1. PICK i \in 1 .. Len(s) : x = s[i]
    BY <1>1 DEF Members
  <2>2. CASE i # 1
    <3>1. i - 1 \in 1 .. Len(s) - 1 /\ (i - 1) + 1 = i
      BY <1>1, <2>2
    <3>2. Tail(s)[i - 1] = x
      BY <1>3, <2>1, <3>1
    <3> QED BY <1>2, <3>1, <3>2 DEF Members
  <2> QED BY <1>1, <2>1, <2>2
<1>5. ASSUME NEW x \in Members(Tail(s))
      PROVE  x \in Members(s)
  <2>1. PICK i \in 1 .. Len(s) - 1 : x = s[i + 1]
    BY <1>2, <1>3 DEF Members
  <2>2. i + 1 \in 1 .. Len(s)
    BY <1>1
  <2> QED BY <1>1, <2>1, <2>2 DEF Members
<1>6. Head(s) \in Members(s)
  BY <1>1 DEF Members
<1> QED BY <1>1, <1>2, <1>3, <1>4, <1>5, <1>6

\* An ID is a number, in a handle and in a reply.
LEMMA IDsAreNumbers ==
  ASSUME IInv
  PROVE  /\ \A n \in IDs : n \in Nat /\ n < MaxID
         /\ \A x \in Objects : held[x].id \in IDs
         /\ \A i \in DOMAIN call.reply : call.reply[i].id \in IDs /\ call.reply[i].obj \in Objects \cup {NULL}
<1>1. \A n \in IDs : n \in Nat /\ n < MaxID
  BY TableAssumption DEF IDs, TableAssumption
<1>2. \A x \in Objects : held[x].id \in IDs
  BY DEF IInv, TypeOK, Handles
<1>3. call.reply \in Seq(Replied)
  BY DEF IInv, TypeOK, Called
<1>4. \A i \in DOMAIN call.reply : call.reply[i] \in Replied
  BY <1>3
<1>5. \A r \in Replied : r.id \in IDs /\ r.obj \in Objects \cup {NULL}
  BY DEF Replied
<1> QED BY <1>1, <1>2, <1>4, <1>5

-----------------------------------------------------------------------------
(* Init and the calls. *)

\* Nothing is created, no ID given away and no call made.
LEMMA InitIInv == Init => IInv
<1> SUFFICES ASSUME Init PROVE IInv
  OBVIOUS
<1> USE TableAssumption DEF Init, TableAssumption
<1>1. \A o \in Objects : kind[o] = (IF o \in Members(Platforms) THEN "PlatformID"
                               ELSE IF o \in Members(Devices) THEN "DeviceID" ELSE "free")
  OBVIOUS
<1>2. Members(Platforms) \subseteq Static /\ Members(Devices) \subseteq Static /\ Static \subseteq Objects
  BY DEF Static, Objects
<1>3. TypeOK
  <2>1. call \in Called
    BY DEF Idle, Called
  <2>2. held \in [Objects -> Handles]
    BY DEF NoHandle, Handles, IDs
  <2>3. kind \in [Objects -> WrapperKinds \cup {"free"}]
    BY DEF WrapperKinds
  <2> QED BY <2>1, <2>2, <2>3 DEF TypeOK
<1>4. DriverInv
  BY <1>1, <1>2 DEF DriverInv, Live, Objects, Static
<1>5. CallInv
  BY DEF CallInv, Idle, Mentioned, Members
<1>6. HeldInv
  BY <1>1, <1>2 DEF HeldInv, Mentioned, Members, Idle, Objects, Static
<1>7. TableInv /\ SlotInv
  BY DEF TableInv, SlotInv
<1>8. HandlesMeanObjects
  BY DEF HandlesMeanObjects
<1>9. CountsAgree
  BY DEF CountsAgree, Objects
<1>10. WrapperFound
  BY DEF WrapperFound
<1> QED BY <1>3, <1>4, <1>5, <1>6, <1>7, <1>8, <1>9, <1>10 DEF IInv

\* Between calls every object at an address has its handle, and the ID in it is
\* that of the object.
LEMMA HandleIsFound ==
  ASSUME IInv, call = Idle, NEW o \in Addresses, kind[o] # "free"
  PROVE  held[o] # NoHandle /\ getObj(held[o].id) = o
<1>1. ~Creating(o)
  BY DEF Creating, Idle
<1>2. o \in Objects
  BY DEF Objects
<1> QED BY <1>1, <1>2 DEF IInv, HeldInv, HandlesMeanObjects

\* Between calls every slot of an address or a platform is filled.
LEMMA SlotsAreFilled ==
  ASSUME IInv, call = Idle, NEW i \in DOMAIN mObjects,
         mObjects[i] \in Addresses \cup Members(Platforms)
  PROVE  Filled(i)
<1>1. ~Coming(i)
  BY DEF Coming, Idle
<1> QED BY <1>1 DEF IInv, SlotInv

\* A call that asks for objects the driver keeps.
LEMMA AskKeeps ==
  ASSUME IInv, call = Idle, UNCHANGED <<driverVars, mObjects, table, held, want, faults>>,
         NEW how \in {"insert", "get", "size", "buffer"}, NEW k \in WrapperKinds,
         NEW objs \in Seq(Objects \cup {NULL}), objs # << >>, Ask(how, k, objs),
         k = "PlatformID" => how = "insert",
         \A o \in Members(objs) : Pinned(o) /\ (o \in Static => kind[o] = k)
  PROVE  IInv'
<1> USE DEF driverVars
<1>1. call' = [how |-> how, kind |-> k, todo |-> objs, reply |-> << >>]
  BY DEF Ask
<1>2. TypeOK'
  <2>1. call' \in Called
    BY <1>1 DEF Called
  <2> QED BY <2>1 DEF IInv, TypeOK
<1>3. DriverInv' /\ TableInv' /\ HandlesMeanObjects' /\ CountsAgree' /\ WrapperFound'
  BY DEF IInv, DriverInv, Live, TableInv, HandlesMeanObjects, getObj, CountsAgree, WrapperFound
<1>4. CallInv'
  <2>1. Mentioned' = Members(objs)
    BY <1>1 DEF Mentioned
  <2>2. \A o \in Members(objs) : Pinned(o)' /\ (o \in Static => kind'[o] = k)
    BY DEF Pinned, Live
  <2>3. call'.todo # << >> /\ call' # Idle
    BY <1>1 DEF Idle
  <2>4. call'.kind # "null" /\ (call'.kind = "PlatformID" => call'.how = "insert")
    BY <1>1 DEF WrapperKinds, CreatedKinds
  <2> QED BY <1>1, <2>1, <2>2, <2>3, <2>4 DEF CallInv
<1>5. HeldInv'
  <2>1. \A o \in Addresses : kind[o] # "free" => held[o] # NoHandle
    BY HandleIsFound
  <2> QED BY <1>1, <2>1 DEF HeldInv
<1>6. SlotInv'
  BY SlotsAreFilled DEF IInv, SlotInv, Filled
<1> QED BY <1>2, <1>3, <1>4, <1>5, <1>6 DEF IInv

\* clGetPlatformIDs and clGetDeviceIDs
LEMMA ListKeeps ==
  ASSUME IInv, ListPlatforms \/ ListDevices
  PROVE  IInv'
<1>1. /\ Platforms \in Seq(Objects \cup {NULL}) /\ Devices \in Seq(Objects \cup {NULL})
      /\ Members(Platforms) \subseteq Static /\ Members(Devices) \subseteq Static
  BY TableAssumption DEF TableAssumption, Static, Objects
<1>2. CASE ListPlatforms
  <2>1. \A o \in Members(Platforms) : Pinned(o) /\ kind[o] = "PlatformID"
    BY <1>1 DEF Pinned, IInv, DriverInv
  <2> QED BY <1>1, <1>2, <2>1, AskKeeps DEF ListPlatforms, WrapperKinds
<1>3. CASE ListDevices
  <2>1. \A o \in Members(Devices) : Pinned(o) /\ kind[o] = "DeviceID"
    BY <1>1 DEF Pinned, IInv, DriverInv
  <2> QED BY <1>1, <1>3, <2>1, AskKeeps DEF ListDevices, WrapperKinds
<1> QED BY <1>2, <1>3

\* The clGet*Info calls answer with a platform, devices, or what the object was
\* made from.
LEMMA QueryKeeps ==
  ASSUME IInv, NEW o \in Objects, Query(o)
  PROVE  IInv'
<1>1. getObj(held[o].id) = o /\ kind[o] # "free" /\ call = Idle
  <2>1. held[o] # NoHandle
    BY DEF Query, NoHandle
  <2> QED BY <2>1 DEF Query, IInv, HandlesMeanObjects
<1>2. o # NULL
  BY TableAssumption DEF TableAssumption
<1>3. PICK q \in Queries(o) : Ask(q.how, q.kind, q.objs)
  BY <1>1, <1>2 DEF Query
<1>4. o \in Live /\ (o \in Addresses => refs[o] > 0)
  <2>1. o \in Static \/ want[o] > 0
    BY DEF Query
  <2>2. o \in Addresses => o \notin Static
    BY TableAssumption DEF TableAssumption
  <2> QED BY <1>1, <2>1, <2>2 DEF Live, IInv, CountsAgree
<1>5. kind[o] \in {"PlatformID", "DeviceID"} <=> o \in Static
  <2>1. o \in Addresses => kind[o] \in CreatedKinds
    BY <1>1, TableAssumption DEF IInv, DriverInv, TableAssumption
  <2>2. o \in Static => kind[o] \in {"PlatformID", "DeviceID"}
    BY DEF IInv, DriverInv, Static
  <2> QED BY <2>1, <2>2 DEF Objects, CreatedKinds
<1>6. Devices # << >> /\ Platforms # << >>
  <2>1. CASE o \in Static
    <3>1. kind[o] = "DeviceID" \/ kind[o] = "PlatformID"
      BY <1>5, <2>1
    <3>2. kind[o] # "PlatformID"
      BY <1>3 DEF Queries
    <3>3. o \notin Members(Platforms)
      BY <3>2 DEF IInv, DriverInv
    <3>4. Devices # << >>
      BY <2>1, <3>3 DEF Static, Members
    <3> QED BY <3>4, TableAssumption DEF TableAssumption
  <2>2. CASE o \notin Static
    <3>1. Kinds # {}
      BY <1>1, <2>2 DEF IInv, DriverInv, Objects
    <3> QED BY <3>1, TableAssumption DEF TableAssumption
  <2> QED BY <2>1, <2>2
<1>7. /\ Platforms[1] \in Members(Platforms) /\ Devices[1] \in Members(Devices)
      /\ Devices \in Seq(Objects \cup {NULL})
      /\ \A x \in Members(Platforms) : x \in Objects /\ Pinned(x) /\ kind[x] = "PlatformID"
      /\ \A x \in Members(Devices) : x \in Objects /\ Pinned(x) /\ kind[x] = "DeviceID"
  BY <1>6, TableAssumption DEF TableAssumption, Members, Static, Objects, Pinned, IInv, DriverInv
<1>8. ASSUME o \notin Static, NEW x \in {parent[o], context[o], NULL}
      PROVE  x \in Objects \cup {NULL} /\ Pinned(x) /\ x \notin Static
  <2>1. x \in Addresses \cup {NULL} /\ x \in Live \cup {NULL}
    BY <1>4 DEF IInv, DriverInv
  <2>2. x \notin Static
    BY <2>1, TableAssumption DEF TableAssumption, Objects
  <2> QED BY <1>4, <1>8, <2>1, <2>2 DEF Pinned, Live, Objects
<1>9. \A x \in Objects \cup {NULL} : /\ Members(<<x>>) = {x} /\ <<x>> # << >>
                                     /\ <<x>> \in Seq(Objects \cup {NULL})
  BY DEF Members
<1>10. /\ q.how \in {"insert", "get", "size", "buffer"} /\ q.kind \in WrapperKinds
       /\ q.kind = "PlatformID" => q.how = "insert"
  BY <1>3 DEF Queries, Q, WrapperKinds, CreatedKinds
<1>11. \/ q.objs = Devices /\ q.kind = "DeviceID"
       \/ \E x : q.objs = <<x>>
  BY <1>3 DEF Queries, Q
<1>12. /\ q.objs \in Seq(Objects \cup {NULL}) /\ q.objs # << >>
       /\ \A x \in Members(q.objs) : Pinned(x) /\ (x \in Static => kind[x] = q.kind)
  <2>1. CASE q.objs = Devices /\ q.kind = "DeviceID"
    BY <2>1, <1>6, <1>7
  <2>2. CASE \E x : q.objs = <<x>>
    <3>1. PICK x : q.objs = <<x>>
      BY <2>2
    <3>2. CASE o \in Static
      <4>1. \/ x = Platforms[1] /\ q.kind = "PlatformID"
            \/ x = NULL
        BY <1>3, <1>5, <3>1, <3>2 DEF Queries, Q
      <4> QED BY <1>7, <1>9, <3>1, <4>1, TableAssumption DEF Pinned, TableAssumption, Objects
    <3>3. CASE o \notin Static
      <4>1. \/ x \in {parent[o], context[o], NULL}
            \/ x = Devices[1] /\ q.kind = "DeviceID"
            \/ q.objs = Devices /\ q.kind = "DeviceID"
        BY <1>3, <1>5, <3>1, <3>3 DEF Queries, Q
      <4> QED BY <1>6, <1>7, <1>8, <1>9, <3>1, <3>3, <4>1
    <3> QED BY <3>2, <3>3
  <2> QED BY <1>11, <2>1, <2>2
<1> QED BY <1>1, <1>3, <1>10, <1>12, AskKeeps DEF Query

\* The driver makes an object at a free address, from one that the application
\* has a reference to.
LEMMA CreateKeeps ==
  ASSUME IInv, NEW k \in Kinds, NEW o \in Addresses, NEW p \in Addresses \cup {NULL},
         Create(k, o, p)
  PROVE  IInv'
<1> DEFINE q == IF k = "Context" THEN NULL ELSE getObj(held[p].id)
           how == IF k = "MemObject" THEN "insert" ELSE "register"
<1>1. /\ call = Idle /\ kind[o] = "free"
      /\ kind' = [kind EXCEPT ![o] = k]
      /\ parent' = [parent EXCEPT ![o] = q]
      /\ context' = [context EXCEPT ![o] =
           IF k = "Context" THEN o ELSE IF q = NULL THEN NULL ELSE context[q]]
      /\ refs' = [refs EXCEPT ![o] = 1] /\ want' = [want EXCEPT ![o] = 1]
      /\ UNCHANGED <<mObjects, table, held, faults>>
  BY DEF Create
<1>2. call' = [how |-> how, kind |-> k, todo |-> <<o>>, reply |-> << >>]
  BY DEF Create, Ask
<1>3. o \in Objects /\ o \notin Static /\ k \in CreatedKinds
  BY TableAssumption DEF TableAssumption, Objects
<1>4. q = NULL \/ (q \in Addresses /\ q \in Live)
  <2>1. CASE k # "Context"
    <3>1. p \in Addresses /\ want[p] > 0
      BY <2>1 DEF Create
    <3>2. kind[p] # "free"
      BY <3>1 DEF IInv, CountsAgree
    <3>3. getObj(held[p].id) = p
      BY <1>1, <3>1, <3>2, HandleIsFound
    <3>4. q = p
      BY <2>1, <3>3
    <3> QED BY <3>1, <3>2, <3>4 DEF Live, Objects
  <2>2. CASE k = "Context"
    BY <2>2
  <2> QED BY <2>1, <2>2
<1>5. parent'[o] \in (Addresses \cap Live) \cup {NULL} /\ context'[o] \in (Addresses \cap Live) \cup {o, NULL}
  <2>1. parent'[o] = q /\ context'[o] = (IF k = "Context" THEN o ELSE IF q = NULL THEN NULL ELSE context[q])
    BY <1>1, <1>3 DEF IInv, TypeOK
  <2>2. q # NULL => context[q] \in (Addresses \cap Live) \cup {NULL}
    BY <1>4 DEF IInv, DriverInv, Objects
  <2> QED BY <1>4, <2>1, <2>2
<1>6. \A x \in Objects : x # o => /\ kind'[x] = kind[x] /\ parent'[x] = parent[x]
                                  /\ context'[x] = context[x] /\ refs'[x] = refs[x]
                                  /\ want'[x] = want[x]
  BY <1>1 DEF IInv, TypeOK
<1>7. kind'[o] = k /\ refs'[o] = 1 /\ want'[o] = 1
  BY <1>1, <1>3 DEF IInv, TypeOK
<1>8. Live' = Live \cup {o} /\ k # "free"
  BY <1>3, <1>6, <1>7 DEF Live, CreatedKinds
<1>9. held[o] = NoHandle
  BY <1>1, <1>3 DEF IInv, HandlesMeanObjects
<1>10. TypeOK'
  <2>1. call' \in Called
    BY <1>2, <1>3 DEF Called, WrapperKinds
  <2>2. /\ kind' \in [Objects -> WrapperKinds \cup {"free"}]
        /\ parent' \in [Objects -> Objects \cup {NULL}]
        /\ context' \in [Objects -> Objects \cup {NULL}]
    BY <1>1, <1>3, <1>4, <1>5 DEF IInv, TypeOK, WrapperKinds, Objects
  <2>3. refs' \in [Objects -> 0 .. MaxRefs] /\ want' \in [Objects -> 0 .. MaxRefs]
    <3>1. 1 \in 0 .. MaxRefs
      BY TableAssumption DEF TableAssumption
    <3> QED BY <1>1, <3>1 DEF IInv, TypeOK
  <2> QED BY <1>1, <2>1, <2>2, <2>3 DEF IInv, TypeOK
<1>11. DriverInv'
  <2>1. \A x \in Static : kind'[x] = kind[x]
    BY <1>3, <1>6 DEF Objects
  <2>2. \A x \in Live' : {parent'[x], context'[x]} \subseteq Live' \cup {NULL}
    BY <1>5, <1>6, <1>8 DEF IInv, DriverInv, Live
  <2>3. \A x \in Objects : {parent'[x], context'[x]} \subseteq Addresses \cup {NULL}
    BY <1>5, <1>6 DEF IInv, DriverInv
  <2>4. \A x \in Addresses : kind'[x] \in Kinds \cup {"free"}
    BY <1>6, <1>7 DEF IInv, DriverInv, Objects
  <2> QED BY <2>1, <2>2, <2>3, <2>4 DEF IInv, DriverInv, Static
<1>12. CallInv'
  <2>1. Mentioned' = {o}
    BY <1>2 DEF Mentioned, Members
  <2>2. Pinned(o)'
    BY <1>7, <1>8 DEF Pinned
  <2>3. call'.todo # << >> /\ call' # Idle
    BY <1>2 DEF Idle
  <2>4. call'.kind \notin {"PlatformID", "null"}
    BY <1>2, <1>3 DEF CreatedKinds
  <2> QED BY <1>2, <1>3, <2>1, <2>2, <2>3, <2>4 DEF CallInv
<1>13. HeldInv'
  <2>1. Mentioned' = {o}
    BY <1>2 DEF Mentioned, Members
  <2>2. Creating(o)'
    BY <1>2, <1>7 DEF Creating
  <2>3. \A x \in Addresses : x # o /\ kind[x] # "free" => held[x] # NoHandle
    BY <1>1, HandleIsFound
  <2> QED BY <1>1, <1>6, <1>9, <2>1, <2>2, <2>3 DEF HeldInv, Objects
<1>14. TableInv' /\ WrapperFound'
  BY <1>1 DEF IInv, TableInv, WrapperFound
<1>15. SlotInv'
  <2>1. \A i \in DOMAIN mObjects :
          mObjects[i] \in Addresses \cup Members(Platforms) => Filled(i)
    BY <1>1, SlotsAreFilled
  <2>2. \A x \in Static : kind'[x] = kind[x]
    BY <1>3, <1>6 DEF Objects
  <2> QED BY <1>1, <2>1, <2>2 DEF IInv, SlotInv, Filled
<1>16. HandlesMeanObjects'
  BY <1>1, <1>6, <1>9 DEF IInv, HandlesMeanObjects, getObj
<1>17. CountsAgree'
  BY <1>6, <1>7, <1>8 DEF IInv, CountsAgree, Objects
<1> QED BY <1>10, <1>11, <1>12, <1>13, <1>14, <1>15, <1>16, <1>17 DEF IInv

\* A retain or a release reaches the object that the application means.
LEMMA CountKeeps ==
  ASSUME IInv, NEW o \in Addresses, Retain(o) \/ Release(o)
  PROVE  IInv'
<1>1. /\ call = Idle /\ want[o] > 0
      /\ UNCHANGED <<kind, parent, context, mObjects, table, held, call, faults>>
  BY DEF Retain, Release
<1>2. o \in Objects /\ kind[o] # "free" /\ refs[o] = want[o]
  BY <1>1 DEF IInv, CountsAgree, Objects
<1>3. getObj(held[o].id) = o
  BY <1>1, <1>2, HandleIsFound
<1>4. \A x \in Objects \ {o} : refs'[x] = refs[x] /\ want'[x] = want[x]
  BY <1>3 DEF Retain, Release, IInv, TypeOK
<1>5. refs'[o] = want'[o] /\ want'[o] \in 0 .. MaxRefs
  BY <1>1, <1>2, <1>3, TableAssumption DEF Retain, Release, IInv, TypeOK, TableAssumption
<1>6. /\ refs' \in [Objects -> 0 .. MaxRefs] /\ want' \in [Objects -> 0 .. MaxRefs]
  <2>1. want' = [want EXCEPT ![o] = want'[o]]
    BY <1>2 DEF Retain, Release, IInv, TypeOK
  <2>2. refs' = [x \in Objects |-> refs'[x]]
    BY DEF Retain, Release
  <2> QED BY <1>4, <1>5, <2>1, <2>2 DEF IInv, TypeOK
<1>7. TypeOK'
  BY <1>1, <1>6 DEF IInv, TypeOK
<1>8. DriverInv' /\ TableInv' /\ SlotInv' /\ HandlesMeanObjects' /\ WrapperFound'
  BY <1>1 DEF IInv, DriverInv, Live, TableInv, SlotInv, Filled, Coming, HandlesMeanObjects, getObj,
              WrapperFound
<1>9. CallInv' /\ HeldInv'
  <2>1. Mentioned' = {} /\ Mentioned = {}
    BY <1>1 DEF Mentioned, Members, Idle
  <2> QED BY <1>1, <2>1 DEF IInv, CallInv, HeldInv, Creating, getObj, Idle
<1>10. CountsAgree'
  BY <1>1, <1>2, <1>4, <1>5 DEF IInv, CountsAgree, Objects
<1> QED BY <1>7, <1>8, <1>9, <1>10 DEF IInv

\* What the driver destroys is not part of the call in progress.
LEMMA FreeKeeps ==
  ASSUME IInv, NEW o \in Addresses, Free(o)
  PROVE  IInv'
<1>1. /\ kind[o] # "free" /\ refs[o] = 0
      /\ \A c \in Live : c # o => o \notin {parent[c], context[c]}
      /\ UNCHANGED <<refs, mObjects, table, want, call, faults>>
  BY DEF Free, Live
<1>2. o \in Objects /\ o \notin Static /\ o # NULL
  BY TableAssumption DEF TableAssumption, Objects
<1>3. \A x \in Objects : x # o => /\ kind'[x] = kind[x] /\ parent'[x] = parent[x]
                                  /\ context'[x] = context[x] /\ held'[x] = held[x]
  BY DEF Free, IInv, TypeOK
<1>4. kind'[o] = "free" /\ parent'[o] = NULL /\ context'[o] = NULL /\ held'[o] = NoHandle
  BY <1>2 DEF Free, IInv, TypeOK
<1>5. Live' = Live \ {o}
  BY <1>3, <1>4 DEF Live
<1>6. ~Pinned(o) /\ \A x : Pinned(x) => Pinned(x)'
  <2>1. ~Pinned(o)
    BY <1>1, <1>2 DEF Pinned, IInv, TypeOK
  <2>2. ASSUME NEW x, Pinned(x)
        PROVE  Pinned(x)'
    BY <1>1, <1>3, <1>5, <2>1, <2>2 DEF Pinned, Live
  <2> QED BY <2>1, <2>2
<1>7. o \notin Mentioned /\ Mentioned' = Mentioned
  BY <1>1, <1>6 DEF IInv, CallInv, Mentioned
<1>8. TypeOK'
  <2>1. /\ kind' \in [Objects -> WrapperKinds \cup {"free"}]
        /\ parent' \in [Objects -> Objects \cup {NULL}]
        /\ context' \in [Objects -> Objects \cup {NULL}]
    BY DEF Free, IInv, TypeOK
  <2>2. held' \in [Objects -> Handles]
    <3>1. NoHandle \in Handles
      BY TableAssumption DEF NoHandle, Handles, IDs, TableAssumption
    <3> QED BY <3>1 DEF Free, IInv, TypeOK
  <2> QED BY <1>1, <2>1, <2>2 DEF IInv, TypeOK
<1>9. DriverInv'
  <2>1. \A x \in Static : kind'[x] = kind[x]
    BY <1>2, <1>3 DEF Objects
  <2>2. \A x \in Live' : {parent'[x], context'[x]} \subseteq Live' \cup {NULL}
    BY <1>1, <1>3, <1>5 DEF IInv, DriverInv, Live
  <2>3. \A x \in Objects : {parent'[x], context'[x]} \subseteq Addresses \cup {NULL}
    BY <1>3, <1>4 DEF IInv, DriverInv
  <2>4. \A x \in Addresses : kind'[x] \in Kinds \cup {"free"}
    BY <1>3, <1>4 DEF IInv, DriverInv, Objects
  <2> QED BY <2>1, <2>2, <2>3, <2>4 DEF IInv, DriverInv, Static
<1>10. CallInv'
  <2>1. \A x \in Static : kind'[x] = kind[x]
    BY <1>2, <1>3 DEF Objects
  <2> QED BY <1>1, <1>6, <1>7, <2>1 DEF IInv, CallInv, getObj
<1>11. HeldInv'
  <2>1. \A x \in Addresses : x # o /\ Creating(x) => Creating(x)'
    BY <1>1, <1>3 DEF Creating, Objects
  <2>2. \A x \in Mentioned \cap Addresses : x # o /\ held'[x] = held[x]
    BY <1>3, <1>7 DEF Objects
  <2> QED BY <1>1, <1>3, <1>4, <1>7, <2>1, <2>2 DEF IInv, HeldInv, Objects
<1>12. TableInv' /\ WrapperFound'
  BY <1>1 DEF IInv, TableInv, WrapperFound
<1>13. SlotInv'
  <2>1. \A x \in Static : kind'[x] = kind[x]
    BY <1>2, <1>3 DEF Objects
  <2> QED BY <1>1, <2>1 DEF IInv, SlotInv, Filled, Coming
<1>14. HandlesMeanObjects'
  BY <1>1, <1>3, <1>4 DEF IInv, HandlesMeanObjects, getObj
<1>15. CountsAgree'
  BY <1>1, <1>3 DEF IInv, CountsAgree, Objects
<1> QED BY <1>8, <1>9, <1>10, <1>11, <1>12, <1>13, <1>14, <1>15 DEF IInv

-----------------------------------------------------------------------------
(* The loop of the handler. *)

\* The next object of the answer has an ID already, or the one after all the IDs
\* that were given away.
LEMMA getIDForKeeps ==
  ASSUME IInv, getIDFor
  PROVE  IInv'
<1> DEFINE o == Head(call.todo)
           n == Len(call.reply)
<1>1. /\ call.todo # << >>
      /\ UNCHANGED <<kind, parent, context, refs, table, held, want, faults>>
  BY DEF getIDFor, driverVars
<1>2. call \in Called /\ call.todo \in Seq(Objects \cup {NULL}) /\ call.reply \in Seq(Replied) /\ n \in Nat
  <2>1. call \in Called
    BY DEF IInv, TypeOK
  <2>2. call.todo \in Seq(Objects \cup {NULL}) /\ call.reply \in Seq(Replied)
    BY <2>1 DEF Called
  <2> QED BY <2>1, <2>2
<1>3. o \in Members(call.todo) /\ o \in Mentioned /\ o \in Objects \cup {NULL}
  BY <1>1, <1>2 DEF Members, Mentioned
<1>4. mObjects \in Seq(Objects \cup {NULL}) /\ Len(mObjects) \in Nat /\ Len(mObjects) <= MaxID
  BY DEF IInv, TypeOK
<1>5. PICK id : /\ Replies(o, id)
                /\ \/ call.how = "buffer" /\ o = NULL /\ id = NoBuffer /\ mObjects' = mObjects
                   \/ Known(o) /\ id = IndexOf(o) /\ mObjects' = mObjects
                   \/ ~Known(o) /\ Len(mObjects) < MaxID /\ id = Len(mObjects) /\ mObjects' = Append(mObjects, o)
  BY DEF getIDFor
<1>6. Known(o) => IndexOf(o) \in 0 .. Len(mObjects) - 1 /\ mObjects[IndexOf(o) + 1] = o
  <2>1. SUFFICES ASSUME Known(o)
                 PROVE  IndexOf(o) \in 0 .. Len(mObjects) - 1 /\ mObjects[IndexOf(o) + 1] = o
    OBVIOUS
  <2>2. PICK i \in DOMAIN mObjects : mObjects[i] = o /\ IndexOf(o) = i - 1
    BY <2>1 DEF Known, IndexOf
  <2> QED BY <1>4, <2>2
<1>7. id \in IDs
  BY <1>4, <1>5, <1>6, TableAssumption DEF IDs, NoBuffer, TableAssumption
<1>8. /\ mObjects' \in Seq(Objects \cup {NULL}) /\ Len(mObjects') <= MaxID /\ Len(mObjects) <= Len(mObjects')
      /\ \A i \in 1 .. Len(mObjects) : mObjects'[i] = mObjects[i]
  <2>1. Append(mObjects, o) \in Seq(Objects \cup {NULL}) /\ Len(Append(mObjects, o)) = Len(mObjects) + 1
        /\ \A i \in 1 .. Len(mObjects) : Append(mObjects, o)[i] = mObjects[i]
    BY <1>3, <1>4, Appended
  <2>2. mObjects' = mObjects \/ (mObjects' = Append(mObjects, o) /\ Len(mObjects) < MaxID)
    BY <1>5
  <2>3. CASE mObjects' = mObjects
    BY <1>4, <2>3
  <2>4. CASE mObjects' = Append(mObjects, o) /\ Len(mObjects) < MaxID
    <3>1. Len(mObjects') = Len(mObjects) + 1 /\ MaxID \in Nat
      BY <2>1, <2>4, TableAssumption DEF TableAssumption
    <3>2. Len(mObjects') <= MaxID /\ Len(mObjects) <= Len(mObjects')
      BY <1>4, <2>4, <3>1
    <3> QED BY <2>1, <2>4, <3>2
  <2> QED BY <2>2, <2>3, <2>4
<1>9. /\ call'.how = call.how /\ call'.kind = call.kind /\ call'.todo = Tail(call.todo)
      /\ call'.reply = Append(call.reply, [obj |-> o, id |-> id]) /\ call' \in Called
  <2>1. call' = [call EXCEPT !.todo = Tail(@), !.reply = Append(@, [obj |-> o, id |-> id])]
    BY <1>5 DEF Replies
  <2>2. /\ Tail(call.todo) \in Seq(Objects \cup {NULL})
        /\ Append(call.reply, [obj |-> o, id |-> id]) \in Seq(Replied)
    <3>1. [obj |-> o, id |-> id] \in Replied
      BY <1>3, <1>7 DEF Replied
    <3> QED BY <1>1, <1>2, <3>1
  <2> QED BY <1>2, <2>1, <2>2 DEF Called
<1>10. /\ Len(call'.reply) = n + 1 /\ call'.reply[n + 1] = [obj |-> o, id |-> id]
       /\ DOMAIN call.reply = 1 .. n /\ DOMAIN call'.reply = 1 .. n + 1
       /\ \A i \in 1 .. n : call'.reply[i] = call.reply[i]
       /\ call'.reply # << >>
  BY <1>2, <1>9
<1>11. Mentioned' = Mentioned
  <2>1. Members(call.todo) = Members(call'.todo) \cup {o}
    BY <1>1, <1>2, <1>9, TailTaken
  <2>2. {call'.reply[i].obj : i \in DOMAIN call'.reply}
          = {call.reply[i].obj : i \in DOMAIN call.reply} \cup {o}
    <3>1. \A i \in 1 .. n + 1 : i \in 1 .. n \/ i = n + 1
      BY <1>2
    <3>2. \A i \in 1 .. n : i \in 1 .. n + 1
      BY <1>2
    <3>3. n + 1 \in 1 .. n + 1
      BY <1>2
    <3> HIDE DEF n, o
    <3> QED BY <1>10, <3>1, <3>2, <3>3
  <2> QED BY <2>1, <2>2 DEF Mentioned
<1>12. TypeOK'
  BY <1>1, <1>4, <1>8, <1>9 DEF IInv, TypeOK
<1>13. DriverInv' /\ CountsAgree'
  BY <1>1 DEF IInv, DriverInv, Live, CountsAgree
<1>14. \A i \in Nat : i < Len(mObjects) => getObj(i)' = getObj(i)
  BY <1>4, <1>8 DEF getObj
<1>15. CallInv'
  <2>1. call # Idle /\ call' # Idle
    BY <1>1, <1>10 DEF Idle
  <2>2. \A x : Pinned(x) => Pinned(x)'
    BY <1>1 DEF Pinned, Live
  <2>3. ASSUME NEW i \in DOMAIN call'.reply
        PROVE  (\/ getObj(call.reply[i].id) = call.reply[i].obj /\ call.reply[i].id < Len(mObjects)
                \/ call.how = "buffer" /\ call.reply[i].obj = NULL /\ call.reply[i].id = NoBuffer)'
    <3>1. CASE i \in 1 .. n
      <4>1. call'.reply[i] = call.reply[i] /\ i \in DOMAIN call.reply
        BY <1>10, <3>1
      <4>2. call.reply[i].id \in Nat
        BY <4>1, IDsAreNumbers
      <4>3. \/ getObj(call.reply[i].id) = call.reply[i].obj /\ call.reply[i].id < Len(mObjects)
            \/ call.how = "buffer" /\ call.reply[i].obj = NULL /\ call.reply[i].id = NoBuffer
        BY <4>1 DEF IInv, CallInv
      <4>4. Len(mObjects') \in Nat
        BY <1>8
      <4>5. getObj(call.reply[i].id)' = IF call.reply[i].id >= Len(mObjects') THEN NULL
                                        ELSE mObjects'[call.reply[i].id + 1]
        BY <4>1 DEF getObj
      <4>6. CASE getObj(call.reply[i].id) = call.reply[i].obj /\ call.reply[i].id < Len(mObjects)
        <5>1. call.reply[i].id + 1 \in 1 .. Len(mObjects) /\ ~(call.reply[i].id >= Len(mObjects))
          BY <1>4, <4>2, <4>6
        <5>2. mObjects[call.reply[i].id + 1] = call.reply[i].obj
          BY <4>6, <5>1 DEF getObj
        <5>3. mObjects'[call.reply[i].id + 1] = call.reply[i].obj
          BY <1>8, <5>1, <5>2
        <5>4. call.reply[i].id < Len(mObjects') /\ ~(call.reply[i].id >= Len(mObjects'))
          BY <1>4, <1>8, <4>2, <4>4, <4>6
        <5> QED BY <4>1, <4>5, <5>3, <5>4
      <4>7. CASE call.how = "buffer" /\ call.reply[i].obj = NULL /\ call.reply[i].id = NoBuffer
        BY <1>9, <4>1, <4>7
      <4> QED BY <4>3, <4>6, <4>7
    <3>2. CASE i = n + 1
      <4>1. call'.reply[i].id = id /\ call'.reply[i].obj = o
        BY <1>10, <3>2
      <4>2. \/ call.how = "buffer" /\ o = NULL /\ id = NoBuffer
            \/ id < Len(mObjects') /\ mObjects'[id + 1] = o
        BY <1>3, <1>4, <1>5, <1>6
      <4>3. id \in Nat /\ Len(mObjects') \in Nat
        BY <1>7, <1>8, IDsAreNumbers
      <4>4. getObj(call.reply[i].id)' = IF id >= Len(mObjects') THEN NULL ELSE mObjects'[id + 1]
        BY <4>1 DEF getObj
      <4> QED BY <1>9, <4>1, <4>2, <4>3, <4>4
    <3> QED BY <1>2, <1>10, <2>3, <3>1, <3>2
  <2>4. call # Idle => call.kind # "null" /\ (call.kind = "PlatformID" => call.how = "insert")
    BY DEF IInv, CallInv
  <2>5. \A x \in Mentioned' : Pinned(x)' /\ (x \in Static => kind'[x] = call'.kind)
    BY <1>1, <1>9, <1>11, <2>2 DEF IInv, CallInv
  <2>6. (call = Idle <=> (call.todo = << >> /\ call.reply = << >>))'
    BY <1>10, <2>1
  <2> QED BY <1>9, <2>1, <2>3, <2>4, <2>5, <2>6 DEF CallInv
<1>16. TableInv'
  <2>1. CASE mObjects' = mObjects
    BY <2>1 DEF IInv, TableInv
  <2>2. CASE ~Known(o) /\ mObjects' = Append(mObjects, o)
    <3>1. /\ DOMAIN mObjects' = 1 .. Len(mObjects) + 1 /\ mObjects'[Len(mObjects) + 1] = o
          /\ DOMAIN mObjects = 1 .. Len(mObjects)
          /\ \A i \in 1 .. Len(mObjects) : mObjects[i] # o
      BY <1>3, <1>4, <2>2 DEF Known
    <3> QED BY <1>4, <1>8, <3>1 DEF IInv, TableInv
  <2> QED BY <1>5, <2>1, <2>2
<1>17. HeldInv'
  <2>1. ASSUME NEW x, Creating(x)
        PROVE  Creating(x)'
    <3>1. call.todo = <<x>> /\ call.reply = << >>
      BY <1>1, <2>1 DEF Creating
    <3>2. call'.todo = << >> /\ Len(call'.reply) = 1 /\ call'.reply[1].obj = x
      BY <1>9, <1>10, <3>1
    <3> QED BY <1>1, <1>9, <2>1, <3>2 DEF Creating
  <2> QED BY <1>1, <1>9, <1>11, <2>1 DEF IInv, HeldInv
<1>18. SlotInv'
  <2>1. ASSUME NEW i \in 1 .. Len(mObjects), Coming(i)
        PROVE  Coming(i)'
    <3>1. PICK j \in DOMAIN call.reply : /\ call.reply[j].id = i - 1
                                         /\ \A h \in 1 .. j - 1 : call.reply[h].id < i - 1
      BY <2>1 DEF Coming
    <3>2. j \in 1 .. n /\ \A h \in 1 .. j - 1 : h \in 1 .. n
      BY <1>2, <1>10
    <3>3. /\ j \in DOMAIN call'.reply /\ call'.reply[j].id = i - 1
          /\ \A h \in 1 .. j - 1 : call'.reply[h].id < i - 1
      <4>1. j \in 1 .. n + 1
        BY <1>2, <3>2
      <4> HIDE DEF n
      <4> QED BY <1>10, <3>1, <3>2, <4>1
    <3> QED BY <1>1, <1>9, <2>1, <3>3 DEF Coming
  <2>2. ASSUME ~Known(o), mObjects' = Append(mObjects, o), id = Len(mObjects),
               o \in Addresses \cup Members(Platforms), NEW i, i = Len(mObjects) + 1
        PROVE  Coming(i)'
    <3>1. call.how \in {"register", "insert"}
      <4>1. CASE o \in Addresses
        <5>1. o \in Live
          <6>1. Pinned(o) /\ o \notin Static \cup {NULL}
            BY <1>3, <4>1, TableAssumption DEF IInv, CallInv, TableAssumption, Objects
          <6> QED BY <6>1 DEF Pinned
        <5>2. held[o] = NoHandle
          <6>1. SUFFICES ASSUME held[o] # NoHandle
                         PROVE  FALSE
            OBVIOUS
          <6>2. getObj(held[o].id) = o /\ held[o].id < Len(table)
            BY <4>1, <6>1 DEF IInv, HandlesMeanObjects, Objects
          <6>3. held[o].id \in Nat
            BY <4>1, IDsAreNumbers DEF Objects
          <6>4. held[o].id + 1 \in DOMAIN mObjects /\ mObjects[held[o].id + 1] = o
            BY <1>4, <6>2, <6>3 DEF IInv, TypeOK, getObj
          <6> QED BY <2>2, <6>4 DEF Known
        <5>3. Creating(o)
          BY <4>1, <5>1, <5>2 DEF IInv, HeldInv, Live
        <5> QED BY <5>3 DEF Creating
      <4>2. CASE o \in Members(Platforms)
        <5>1. kind[o] = call.kind /\ kind[o] = "PlatformID"
          BY <1>3, <4>2 DEF IInv, CallInv, DriverInv, Static
        <5> QED BY <5>1 DEF IInv, CallInv
      <4> QED BY <2>2, <4>1, <4>2
    <3>2. \A h \in 1 .. n : call'.reply[h].id < Len(mObjects)
      BY <1>10, <3>1 DEF IInv, CallInv
    <3>3. i > Len(table')
      BY <1>1, <1>4, <2>2 DEF IInv, TypeOK
    <3>4. n + 1 \in DOMAIN call'.reply /\ call'.reply[n + 1].id = i - 1
      BY <1>2, <1>4, <1>10, <2>2
    <3>5. \A h \in 1 .. (n + 1) - 1 : call'.reply[h].id < i - 1
      BY <1>2, <1>4, <2>2, <3>2
    <3>6. call'.how \in {"register", "insert"}
      BY <1>9, <3>1
    <3> HIDE DEF n
    <3> QED BY <3>3, <3>4, <3>5, <3>6 DEF Coming
  <2>3. ASSUME NEW i \in DOMAIN mObjects', mObjects'[i] \in Addresses \cup Members(Platforms)
        PROVE  Filled(i)' \/ Coming(i)'
    <3>1. CASE i \in 1 .. Len(mObjects)
      <4>1. Filled(i) \/ Coming(i)
        BY <1>4, <1>8, <2>3, <3>1 DEF IInv, SlotInv
      <4> QED BY <1>1, <2>1, <3>1, <4>1 DEF Filled
    <3>2. CASE i \notin 1 .. Len(mObjects)
      <4>1. mObjects' # mObjects
        BY <1>4, <3>2
      <4>2. ~Known(o) /\ mObjects' = Append(mObjects, o) /\ id = Len(mObjects)
        BY <1>5, <4>1
      <4>3. i = Len(mObjects) + 1 /\ mObjects'[i] = o
        BY <1>3, <1>4, <3>2, <4>2
      <4> QED BY <2>2, <2>3, <4>2, <4>3
    <3> QED BY <3>1, <3>2
  <2>4. ASSUME NEW i \in DOMAIN table', table'[i] # "null", mObjects'[i] \in Static
        PROVE  table'[i] = kind'[mObjects'[i]]
    <3>1. i \in DOMAIN table /\ i \in 1 .. Len(mObjects)
      BY <1>1, <1>4 DEF IInv, TypeOK
    <3> QED BY <1>1, <1>8, <2>4, <3>1 DEF IInv, SlotInv
  <2> QED BY <2>3, <2>4 DEF SlotInv
<1>19. HandlesMeanObjects'
  <2>1. ASSUME NEW x \in Objects, held[x] # NoHandle
        PROVE  getObj(held[x].id)' = x
    <3>1. held[x].id \in Nat /\ held[x].id < Len(table) /\ Len(table) <= Len(mObjects) /\ Len(table) \in Nat
      BY <2>1, TableAssumption DEF IInv, TypeOK, HandlesMeanObjects, Handles, IDs, TableAssumption
    <3>2. held[x].id < Len(mObjects)
      BY <1>4, <3>1
    <3> QED BY <1>1, <1>14, <2>1, <3>1, <3>2 DEF IInv, HandlesMeanObjects
  <2> QED BY <1>1, <2>1 DEF IInv, HandlesMeanObjects
<1>20. WrapperFound'
  BY <1>1, <1>4, <1>5 DEF IInv, WrapperFound
<1> QED BY <1>12, <1>13, <1>15, <1>16, <1>17, <1>18, <1>19, <1>20 DEF IInv
-----------------------------------------------------------------------------
(* The loop of the client. *)

\* One more reply has been taken.
Takes == /\ call.todo = << >> /\ call.reply # << >>
         /\ call' = IF Len(call.reply) = 1 THEN Idle ELSE [call EXCEPT !.reply = Tail(@)]
         /\ UNCHANGED <<kind, parent, context, refs, mObjects, want>>

\* What taking a reply does, whatever becomes of the ID.
LEMMA TakesFacts ==
  ASSUME IInv, Takes
  PROVE  /\ call.reply \in Seq(Replied) /\ Len(call.reply) \in Nat \ {0}
         /\ DOMAIN call.reply = 1 .. Len(call.reply)
         /\ call.reply[1] = Head(call.reply) /\ Head(call.reply).obj \in Mentioned
         /\ call' \in Called
         /\ Len(call.reply) = 1 => call' = Idle
         /\ Len(call.reply) # 1 =>
              /\ call'.how = call.how /\ call'.kind = call.kind /\ call'.todo = << >>
              /\ call'.reply = Tail(call.reply) /\ call'.reply # << >>
              /\ DOMAIN call'.reply = 1 .. Len(call.reply) - 1
              /\ \A i \in 1 .. Len(call.reply) - 1 : call'.reply[i] = call.reply[i + 1]
<1>1. call \in Called
  BY DEF IInv, TypeOK
<1>2. call.reply \in Seq(Replied)
  BY <1>1 DEF Called
<1>3. /\ Tail(call.reply) \in Seq(Replied) /\ Len(call.reply) \in Nat \ {0}
      /\ Len(Tail(call.reply)) = Len(call.reply) - 1
      /\ DOMAIN call.reply = 1 .. Len(call.reply) /\ DOMAIN Tail(call.reply) = 1 .. Len(call.reply) - 1
      /\ \A i \in 1 .. Len(call.reply) - 1 : Tail(call.reply)[i] = call.reply[i + 1]
      /\ Head(call.reply) = call.reply[1]
  BY <1>2, TailTaken DEF Takes
<1>4. Head(call.reply).obj \in Mentioned
  <2>1. 1 \in DOMAIN call.reply
    BY <1>3
  <2> QED BY <1>3, <2>1 DEF Mentioned
<1>5. CASE Len(call.reply) = 1
  <2>1. call' = Idle /\ Idle \in Called
    BY <1>5 DEF Takes, Idle, Called
  <2> QED BY <1>2, <1>3, <1>4, <1>5, <2>1
<1>6. CASE Len(call.reply) # 1
  <2>1. call' = [call EXCEPT !.reply = Tail(@)]
    BY <1>6 DEF Takes
  <2>2. call'.how = call.how /\ call'.kind = call.kind /\ call'.todo = << >> /\ call'.reply = Tail(call.reply)
    BY <1>1, <2>1 DEF Called, Takes
  <2>3. call' \in Called
    BY <1>1, <1>3, <2>1 DEF Called
  <2>4. Tail(call.reply) # << >>
    <3>1. Len(Tail(call.reply)) # 0
      BY <1>3, <1>6
    <3>2. Len(<< >>) = 0
      OBVIOUS
    <3> QED BY <3>1, <3>2
  <2> QED BY <1>2, <1>3, <1>4, <1>6, <2>2, <2>3, <2>4
<1> QED BY <1>5, <1>6

\* The objects and the IDs that are left in the reply are as they were.
LEMMA TakesKeeps ==
  ASSUME IInv, Takes
  PROVE  /\ DriverInv' /\ CallInv' /\ TableInv' /\ CountsAgree'
         /\ call'.how # "register"
<1> USE TakesFacts
<1>1. UNCHANGED <<kind, parent, context, refs, mObjects, want>>
  BY DEF Takes
<1>2. DriverInv' /\ TableInv' /\ CountsAgree'
  BY <1>1 DEF IInv, DriverInv, Live, TableInv, CountsAgree
<1>3. call # Idle
  BY DEF Takes, Idle
<1>4. CASE Len(call.reply) = 1
  <2>1. call' = Idle
    BY <1>4
  <2>2. CallInv' /\ call'.how # "register"
    BY <2>1 DEF CallInv, Idle, Mentioned, Members
  <2> QED BY <1>2, <2>2
<1>5. CASE Len(call.reply) # 1
  <2>1. \A i \in DOMAIN call'.reply : i + 1 \in DOMAIN call.reply /\ call'.reply[i] = call.reply[i + 1]
    <3>1. /\ Len(call.reply) \in Nat /\ DOMAIN call.reply = 1 .. Len(call.reply)
          /\ DOMAIN call'.reply = 1 .. Len(call.reply) - 1
          /\ \A i \in 1 .. Len(call.reply) - 1 : call'.reply[i] = call.reply[i + 1]
      BY <1>5
    <3>2. \A i \in 1 .. Len(call.reply) - 1 : i + 1 \in 1 .. Len(call.reply)
      BY <3>1
    <3> QED BY <3>1, <3>2
  <2>2. Mentioned' \subseteq Mentioned
    <3>1. Members(call'.todo) = {}
      BY <1>5 DEF Members
    <3> QED BY <2>1, <3>1 DEF Mentioned
  <2>3. \A x : Pinned(x) => Pinned(x)'
    BY <1>1 DEF Pinned, Live
  <2>4. \A x \in Mentioned' : Pinned(x)' /\ (x \in Static => kind'[x] = call'.kind)
    BY <1>1, <1>5, <2>2, <2>3 DEF IInv, CallInv
  <2>5. ASSUME NEW i \in DOMAIN call'.reply
        PROVE  (\/ getObj(call.reply[i].id) = call.reply[i].obj /\ call.reply[i].id < Len(mObjects)
                \/ call.how = "buffer" /\ call.reply[i].obj = NULL /\ call.reply[i].id = NoBuffer)'
    BY <1>1, <1>5, <2>1 DEF IInv, CallInv, getObj
  <2>6. (call = Idle <=> (call.todo = << >> /\ call.reply = << >>))'
    BY <1>5 DEF Idle
  <2>7. call'.kind # "null" /\ (call'.kind = "PlatformID" => call'.how = "insert")
    BY <1>3, <1>5 DEF IInv, CallInv
  <2>8. CallInv'
    BY <2>4, <2>5, <2>6, <2>7 DEF CallInv
  <2>9. call.how # "register"
    <3>1. SUFFICES ASSUME call.how = "register"
                   PROVE  FALSE
      OBVIOUS
    <3>2. Creating(Head(call.reply).obj)
      BY <3>1 DEF IInv, HeldInv
    <3> QED BY <1>5, <3>2 DEF Creating, Takes
  <2> QED BY <1>2, <1>5, <2>8, <2>9
<1> QED BY <1>4, <1>5

\* An object at an address that has no handle is the one whose ID is taken.
LEMMA OnlyOneIsCreated ==
  ASSUME IInv, Takes, NEW x \in Addresses, kind[x] # "free", held[x] = NoHandle
  PROVE  x = Head(call.reply).obj /\ Creating(x) /\ Len(call.reply) = 1
<1>1. Creating(x)
  BY DEF IInv, HeldInv
<1> QED BY <1>1, TakesFacts DEF Creating, Takes

\* The next slot to come is the one of the ID that is taken; the others stay.
LEMMA SlotsToCome ==
  ASSUME IInv, Takes, NEW i \in DOMAIN mObjects, Coming(i), Head(call.reply).id # i - 1
  PROVE  Head(call.reply).id < i - 1 /\ (i > Len(table') => Coming(i)')
<1> USE TakesFacts
<1>1. PICK j \in DOMAIN call.reply : /\ call.reply[j].id = i - 1
                                     /\ \A h \in 1 .. j - 1 : call.reply[h].id < i - 1
  BY DEF Coming
<1>2. j \in 1 .. Len(call.reply) /\ j # 1
  BY <1>1
<1>3. Len(call.reply) # 1 /\ 1 \in 1 .. j - 1 /\ j - 1 \in 1 .. Len(call.reply) - 1 /\ (j - 1) + 1 = j
  BY <1>2
<1>4. Head(call.reply).id < i - 1
  BY <1>1, <1>3
<1>5. ASSUME i > Len(table')
      PROVE  Coming(i)'
  <2>1. call'.how \in {"register", "insert"}
    BY <1>3 DEF Coming
  <2>2. j - 1 \in DOMAIN call'.reply /\ call'.reply[j - 1].id = i - 1
    BY <1>1, <1>3
  <2>3. ASSUME NEW h \in 1 .. (j - 1) - 1
        PROVE  call'.reply[h].id < i - 1
    <3>1. h \in 1 .. Len(call.reply) - 1 /\ h + 1 \in 1 .. j - 1
      BY <1>2
    <3> QED BY <1>1, <1>3, <3>1
  <2> QED BY <1>5, <2>1, <2>2, <2>3 DEF Coming
<1> QED BY <1>4, <1>5
\* The ID is that of the object, in the server's table.
Answered(r) == r.id \in Nat /\ r.id < Len(mObjects) /\ mObjects[r.id + 1] = r.obj

\* The reply that is taken stands for an entry of the server's table, unless it
\* says that an image has no buffer.
LEMMA ReplyIsAnswered ==
  ASSUME IInv, Takes
  PROVE  /\ Head(call.reply).id \in Nat /\ Head(call.reply).obj \in Objects \cup {NULL}
         /\ \/ Answered(Head(call.reply))
            \/ /\ call.how = "buffer" /\ Head(call.reply).id = NoBuffer
               /\ Head(call.reply).obj = NULL
<1>1. 1 \in DOMAIN call.reply /\ Head(call.reply) = call.reply[1]
  BY TakesFacts
<1>2. Head(call.reply).id \in Nat /\ Head(call.reply).obj \in Objects \cup {NULL}
  BY <1>1, IDsAreNumbers
<1>3. Len(mObjects) \in Nat
  BY DEF IInv, TypeOK
<1>4. \/ getObj(Head(call.reply).id) = Head(call.reply).obj /\ Head(call.reply).id < Len(mObjects)
      \/ /\ call.how = "buffer" /\ Head(call.reply).id = NoBuffer
         /\ Head(call.reply).obj = NULL
  BY <1>1 DEF IInv, CallInv
<1> QED BY <1>2, <1>3, <1>4 DEF Answered, getObj

\* An object in the reply lives; one at an address that has no handle is of the
\* kind that the call creates.
LEMMA ReplyLives ==
  ASSUME IInv, Takes, NEW x \in Objects, x = Head(call.reply).obj
  PROVE  /\ kind[x] # "free"
         /\ x \in Static => kind[x] = call.kind
         /\ x \in Addresses /\ held[x] = NoHandle =>
              \/ call.how = "register" /\ call.kind = kind[x]
              \/ call.how = "insert" /\ kind[x] = "MemObject"
<1>1. Pinned(x) /\ (x \in Static => kind[x] = call.kind)
  BY TakesFacts DEF IInv, CallInv
<1>2. kind[x] # "free"
  <2>1. x # NULL
    BY TableAssumption DEF TableAssumption
  <2>2. x \in Static => kind[x] # "free"
    BY DEF IInv, DriverInv, Static
  <2> QED BY <1>1, <2>1, <2>2 DEF Pinned, Live
<1> QED BY <1>1, <1>2, OnlyOneIsCreated DEF Creating

\* A new wrapper takes its slot, over one that no handle leads to.
LEMMA RegisterKeeps ==
  ASSUME IInv, Takes, Answered(Head(call.reply)),
         registerID(Head(call.reply).obj, Head(call.reply).id, call.kind),
         call.how = "register" \/ Head(call.reply).id >= Len(table)
  PROVE  IInv'
<1> DEFINE o == Head(call.reply).obj
           id == Head(call.reply).id
           k == call.kind
           len == IF id + 1 > Len(table) THEN id + 1 ELSE Len(table)
<1>1. UNCHANGED <<kind, parent, context, refs, mObjects, want, faults>>
  BY DEF Takes, registerID
<1>2. /\ id \in Nat /\ id < Len(mObjects) /\ mObjects[id + 1] = o /\ Len(mObjects) \in Nat
      /\ mObjects \in Seq(Objects \cup {NULL}) /\ o \in Objects \cup {NULL}
      /\ table \in Seq(WrapperKinds \cup {"null"}) /\ Len(table) \in Nat /\ Len(table) <= Len(mObjects)
  BY ReplyIsAnswered DEF Answered, IInv, TypeOK
<1>3. k \in WrapperKinds /\ k # "null"
  <2>1. call # Idle /\ k \in WrapperKinds \cup {"null"}
    BY DEF Takes, Idle, IInv, TypeOK, Called
  <2> QED BY <2>1 DEF IInv, CallInv
<1>4. /\ table' \in Seq(WrapperKinds \cup {"null"}) /\ Len(table') = len /\ len \in Nat
      /\ DOMAIN table' = 1 .. len /\ len >= Len(table) /\ len >= id + 1 /\ len <= Len(mObjects)
      /\ table'[id + 1] = k
      /\ \A i \in 1 .. Len(table) : i # id + 1 => table'[i] = table[i]
      /\ \A i \in 1 .. len : i > Len(table) /\ i # id + 1 => table'[i] = "null"
  <2>1. table' = [Resized(id + 1) EXCEPT ![id + 1] = k]
    BY DEF registerID
  <2>2. Resized(id + 1) = [i \in 1 .. len |-> IF i <= Len(table) THEN table[i] ELSE "null"]
    BY DEF Resized
  <2>3. len \in Nat /\ len >= Len(table) /\ len >= id + 1 /\ len <= Len(mObjects)
    BY <1>2
  <2>4. \A i \in 1 .. len : i <= Len(table) => i \in DOMAIN table
    BY <1>2
  <2>5. Resized(id + 1) \in [1 .. len -> WrapperKinds \cup {"null"}]
    BY <1>2, <2>2, <2>4
  <2>6. id + 1 \in 1 .. len
    BY <1>2, <2>3
  <2> HIDE DEF len, id, k
  <2>7. table' \in [1 .. len -> WrapperKinds \cup {"null"}]
    BY <1>3, <2>1, <2>5
  <2>8. table' \in Seq(WrapperKinds \cup {"null"}) /\ Len(table') = len /\ DOMAIN table' = 1 .. len
    BY <2>3, <2>7
  <2>9. table'[id + 1] = k /\ \A i \in 1 .. len : i # id + 1 => table'[i] = Resized(id + 1)[i]
    BY <2>1, <2>5, <2>6
  <2>10. \A i \in 1 .. Len(table) : i \in 1 .. len /\ i <= Len(table)
    BY <1>2, <2>3
  <2>11. \A i \in 1 .. Len(table) : i # id + 1 => table'[i] = table[i]
    BY <2>2, <2>9, <2>10
  <2>12. \A i \in 1 .. len : i > Len(table) /\ i # id + 1 => table'[i] = "null"
    BY <1>2, <2>2, <2>3, <2>9
  <2> QED BY <2>3, <2>8, <2>9, <2>11, <2>12
<1> HIDE DEF len
<1>5. ASSUME NEW x \in Objects, held[x] # NoHandle
      PROVE  /\ held[x].alive /\ held[x].id \in Nat /\ held[x].id # id
             /\ held[x].id < Len(table) /\ mObjects[held[x].id + 1] = x
  <2>1. held[x].id \in Nat
    BY IDsAreNumbers
  <2>2. held[x].alive /\ getObj(held[x].id) = x /\ held[x].id < Len(table)
    BY <1>5 DEF IInv, HandlesMeanObjects
  <2>3. mObjects[held[x].id + 1] = x
    BY <1>2, <2>1, <2>2 DEF getObj
  <2>4. held[x].id # id
    <3>1. SUFFICES ASSUME held[x].id = id
                   PROVE  FALSE
      OBVIOUS
    <3>2. x = o
      BY <1>2, <2>3, <3>1
    <3>3. call.how = "register"
      BY <1>2, <2>2, <3>1
    <3>4. held[o] = NoHandle
      BY <3>3, TakesFacts DEF IInv, HeldInv
    <3> QED BY <1>5, <3>2, <3>4
  <2> QED BY <2>1, <2>2, <2>3, <2>4
<1>6. /\ \A x \in Objects : held[x] # NoHandle => held'[x] = held[x]
      /\ \A x \in Objects : held[x] = NoHandle /\ x # o => held'[x] = NoHandle
      /\ o \in Objects /\ held[o] = NoHandle => held'[o] = [id |-> id, kind |-> k, alive |-> TRUE]
      /\ held' \in [Objects -> Handles]
  <2>1. held' = [p \in Objects |->
          IF held[p].alive /\ held[p].id = id THEN [held[p] EXCEPT !.alive = FALSE] ELSE Gives(o, id, k)[p]]
    BY DEF registerID
  <2>2. \A p \in Objects : ~(held[p].alive /\ held[p].id = id)
    BY <1>5 DEF NoHandle
  <2>3. \A p \in Objects : held'[p] = Gives(o, id, k)[p]
    BY <2>1, <2>2
  <2>4. \A p \in Objects : Gives(o, id, k)[p] = IF p = o /\ held[p] = NoHandle
                     THEN [id |-> id, kind |-> k, alive |-> TRUE] ELSE held[p]
    BY DEF Gives
  <2>5. [id |-> id, kind |-> k, alive |-> TRUE] \in Handles
    <3>1. id \in IDs
      BY IDsAreNumbers, TakesFacts
    <3> QED BY <1>3, <3>1 DEF Handles
  <2>6. \A p \in Objects : held[p] \in Handles
    BY DEF IInv, TypeOK
  <2>7. \A p \in Objects : held'[p] \in Handles
    BY <2>3, <2>4, <2>5, <2>6
  <2>8. held' \in [Objects -> Handles]
    <3>1. held' = [p \in Objects |-> held'[p]]
      BY <2>1
    <3> QED BY <2>7, <3>1
  <2> QED BY <2>3, <2>4, <2>8
<1>7. TypeOK'
  BY <1>1, <1>2, <1>4, <1>6, TakesFacts DEF IInv, TypeOK
<1>8. HeldInv'
  <2>1. ASSUME NEW x \in Addresses, kind'[x] # "free", held'[x] = NoHandle
        PROVE  FALSE
    <3>1. x \in Objects /\ held[x] = NoHandle
      BY <1>6, <2>1 DEF Objects
    <3>2. x = o
      BY <1>1, <2>1, <3>1, OnlyOneIsCreated
    <3>3. held'[x] = [id |-> id, kind |-> k, alive |-> TRUE]
      BY <1>6, <3>1, <3>2
    <3> QED BY <2>1, <3>3 DEF NoHandle
  <2> QED BY <2>1, TakesKeeps DEF HeldInv
<1>9. SlotInv'
  <2>1. ASSUME NEW i \in DOMAIN mObjects, mObjects[i] \in Addresses \cup Members(Platforms)
        PROVE  Filled(i)' \/ Coming(i)'
    <3>1. i \in Nat /\ (Filled(i) \/ Coming(i))
      BY <1>2, <2>1 DEF IInv, SlotInv
    <3>2. CASE i = id + 1
      BY <1>3, <1>4, <3>2 DEF Filled
    <3>3. CASE i # id + 1 /\ Filled(i)
      <4>1. i \in 1 .. Len(table) /\ i <= Len(table')
        BY <1>2, <1>4, <3>3 DEF Filled
      <4> QED BY <1>4, <3>3, <4>1 DEF Filled
    <3>4. CASE i # id + 1 /\ Coming(i)
      <4>1. Head(call.reply).id # i - 1
        BY <1>2, <3>1, <3>4
      <4>2. id < i - 1 /\ (i > Len(table') => Coming(i)')
        BY <3>4, <4>1, SlotsToCome
      <4>3. i > Len(table')
        BY <1>2, <1>4, <3>1, <3>4, <4>2 DEF Coming, len
      <4> QED BY <4>2, <4>3
    <3> QED BY <3>1, <3>2, <3>3, <3>4
  <2>2. ASSUME NEW i \in DOMAIN table', table'[i] # "null", mObjects[i] \in Static
        PROVE  table'[i] = kind[mObjects[i]]
    <3>1. CASE i = id + 1
      <4>1. o \in Static /\ o \in Objects
        BY <1>2, <2>2, <3>1 DEF Objects
      <4>2. kind[o] = k
        BY <4>1, ReplyLives
      <4> QED BY <1>2, <1>4, <3>1, <4>2
    <3>2. CASE i # id + 1
      <4>1. i \in 1 .. Len(table)
        BY <1>2, <1>4, <2>2, <3>2
      <4> QED BY <1>2, <1>4, <2>2, <3>2, <4>1 DEF IInv, SlotInv
    <3> QED BY <3>1, <3>2
  <2> QED BY <1>1, <2>1, <2>2 DEF SlotInv
<1>10. HandlesMeanObjects'
  <2>1. ASSUME NEW x \in Objects, held'[x] # NoHandle
        PROVE  (/\ held[x].alive /\ kind[x] # "free"
                /\ getObj(held[x].id) = x
                /\ held[x].id < Len(table) /\ table[held[x].id + 1] = held[x].kind
                /\ kind[x] # "MemObject" => held[x].kind = kind[x])'
    <3>1. CASE held[x] # NoHandle
      <4>1. held'[x] = held[x]
        BY <1>6, <3>1
      <4>2. /\ kind[x] # "free" /\ table[held[x].id + 1] = held[x].kind
            /\ kind[x] # "MemObject" => held[x].kind = kind[x]
        BY <3>1 DEF IInv, HandlesMeanObjects
      <4>3. /\ held[x].alive /\ held[x].id \in Nat /\ held[x].id # id
            /\ held[x].id < Len(table) /\ mObjects[held[x].id + 1] = x
        BY <1>5, <3>1
      <4>4. held[x].id + 1 \in 1 .. Len(table) /\ held[x].id + 1 # id + 1
            /\ held[x].id < Len(table') /\ ~(held[x].id >= Len(mObjects))
        BY <1>2, <1>4, <4>3
      <4>5. table'[held[x].id + 1] = table[held[x].id + 1]
        BY <1>4, <4>4
      <4>6. getObj(held[x].id)' = x
        BY <1>1, <4>1, <4>3, <4>4 DEF getObj
      <4> QED BY <1>1, <4>1, <4>2, <4>3, <4>4, <4>5, <4>6
    <3>2. CASE held[x] = NoHandle
      <4>1. x = o
        BY <1>6, <2>1, <3>2
      <4>2. held'[x].id = id /\ held'[x].kind = k /\ held'[x].alive
        BY <1>6, <3>2, <4>1
      <4>3. kind[x] # "free" /\ (kind[x] # "MemObject" => k = kind[x])
        BY <3>2, <4>1, ReplyLives DEF Objects
      <4>4. getObj(held[x].id)' = x
        BY <1>1, <1>2, <4>1, <4>2 DEF getObj
      <4>5. id < Len(table')
        BY <1>2, <1>4
      <4> QED BY <1>1, <1>4, <4>2, <4>3, <4>4, <4>5
    <3> QED BY <3>1, <3>2
  <2> QED BY <2>1 DEF HandlesMeanObjects
<1>11. WrapperFound'
  BY <1>1 DEF IInv, WrapperFound
<1> QED BY <1>7, <1>8, <1>9, <1>10, <1>11, TakesKeeps DEF IInv

\* The wrapper that the slot has is the one of the object, or there is none and
\* the object is a device or nothing.
LEMMA GetKeeps ==
  ASSUME IInv, Takes, Answered(Head(call.reply)),
         getObject(Head(call.reply).obj, Head(call.reply).id),
         call.how # "register",
         call.how = "insert" => Head(call.reply).id < Len(table)
  PROVE  IInv'
<1> DEFINE o == Head(call.reply).obj
           id == Head(call.reply).id
           found == id < Len(table) /\ table[id + 1] # "null"
<1>1. UNCHANGED <<kind, parent, context, refs, mObjects, want, table>>
  BY DEF Takes, getObject
<1>2. /\ id \in Nat /\ id < Len(mObjects) /\ mObjects[id + 1] = o /\ Len(mObjects) \in Nat
      /\ mObjects \in Seq(Objects \cup {NULL}) /\ o \in Objects \cup {NULL}
      /\ table \in Seq(WrapperKinds \cup {"null"}) /\ Len(table) \in Nat /\ Len(table) <= Len(mObjects)
  BY ReplyIsAnswered DEF Answered, IInv, TypeOK
<1>3. id + 1 \in DOMAIN mObjects
  BY <1>2
<1>4. o \in Addresses \cup Members(Platforms) => found
  <2>1. SUFFICES ASSUME o \in Addresses \cup Members(Platforms), ~found
                 PROVE  FALSE
    OBVIOUS
  <2>2. Filled(id + 1) \/ Coming(id + 1)
    BY <1>2, <1>3, <2>1 DEF IInv, SlotInv
  <2>3. ~Filled(id + 1)
    BY <1>2, <2>1 DEF Filled
  <2>4. ~Coming(id + 1)
    BY <1>2 DEF Coming
  <2> QED BY <2>2, <2>3, <2>4
<1>5. /\ \A x \in Objects : held[x] # NoHandle => held'[x] = held[x]
      /\ \A x \in Objects : held[x] = NoHandle /\ x # o => held'[x] = NoHandle
      /\ o \in Objects /\ held[o] = NoHandle =>
           held'[o] = IF found THEN [id |-> id, kind |-> table[id + 1], alive |-> TRUE] ELSE NoHandle
      /\ held' \in [Objects -> Handles]
  <2>1. CASE found
    <3>1. held' = Gives(o, id, table[id + 1])
      BY <2>1 DEF getObject
    <3>2. \A p \in Objects : held'[p] = IF p = o /\ held[p] = NoHandle
                     THEN [id |-> id, kind |-> table[id + 1], alive |-> TRUE] ELSE held[p]
      BY <3>1 DEF Gives
    <3>3. [id |-> id, kind |-> table[id + 1], alive |-> TRUE] \in Handles
      <4>1. id \in IDs
        BY IDsAreNumbers, TakesFacts
      <4>2. table[id + 1] \in WrapperKinds \cup {"null"}
        BY <1>2, <2>1
      <4> QED BY <4>1, <4>2 DEF Handles
    <3>4. \A p \in Objects : held[p] \in Handles
      BY DEF IInv, TypeOK
    <3>5. \A p \in Objects : held'[p] \in Handles
      BY <3>2, <3>3, <3>4
    <3>6. held' = [p \in Objects |-> held'[p]]
      BY <3>1 DEF Gives
    <3>7. held' \in [Objects -> Handles]
      BY <3>5, <3>6
    <3> HIDE DEF o, id
    <3> QED BY <2>1, <3>2, <3>7
  <2>2. CASE ~found
    BY <2>2 DEF getObject, IInv, TypeOK
  <2> QED BY <2>1, <2>2
<1>6. /\ faults' = IF found THEN faults ELSE faults \cup {KindOf(o)}
      /\ ~found => KindOf(o) \in {"null", "DeviceID"}
  <2>1. faults' = IF found THEN faults ELSE faults \cup {KindOf(o)}
    BY DEF getObject
  <2>2. ASSUME ~found
        PROVE  o = NULL \/ (o # NULL /\ o \in Members(Devices) /\ kind[o] = "DeviceID")
    BY <1>2, <1>4, <2>2, TableAssumption DEF TableAssumption, Objects, Static, IInv, DriverInv
  <2>3. ~found => KindOf(o) \in {"null", "DeviceID"}
    BY <2>2 DEF KindOf
  <2> QED BY <2>1, <2>3
<1>7. TypeOK'
  <2>1. faults' \subseteq WrapperKinds \cup {"null", "free"}
    BY <1>6 DEF IInv, TypeOK, WrapperKinds
  <2> QED BY <1>1, <1>5, <2>1, TakesFacts DEF IInv, TypeOK
<1>8. HeldInv'
  <2>1. ASSUME NEW x \in Addresses, kind'[x] # "free", held'[x] = NoHandle
        PROVE  FALSE
    <3>1. x \in Objects /\ held[x] = NoHandle
      BY <1>5, <2>1 DEF Objects
    <3>2. x = o
      BY <1>1, <2>1, <3>1, OnlyOneIsCreated
    <3>3. held'[x] = [id |-> id, kind |-> table[id + 1], alive |-> TRUE]
      BY <1>4, <1>5, <3>1, <3>2
    <3> QED BY <2>1, <3>3 DEF NoHandle
  <2> QED BY <2>1, TakesKeeps DEF HeldInv
<1>9. SlotInv'
  <2>1. ASSUME NEW i \in DOMAIN mObjects, Coming(i)
        PROVE  Coming(i)'
    <3>1. i \in Nat /\ i > Len(table) /\ call.how = "insert"
      BY <1>2, <2>1 DEF Coming
    <3>2. id # i - 1
      BY <1>2, <3>1
    <3> QED BY <1>1, <2>1, <3>1, <3>2, SlotsToCome
  <2>2. \A i : Filled(i) => Filled(i)'
    BY <1>1 DEF Filled
  <2> QED BY <1>1, <2>1, <2>2 DEF IInv, SlotInv
<1>10. HandlesMeanObjects'
  <2>1. ASSUME NEW x \in Objects, held'[x] # NoHandle
        PROVE  (/\ held[x].alive /\ kind[x] # "free"
                /\ getObj(held[x].id) = x
                /\ held[x].id < Len(table) /\ table[held[x].id + 1] = held[x].kind
                /\ kind[x] # "MemObject" => held[x].kind = kind[x])'
    <3>1. CASE held[x] # NoHandle
      <4>1. held'[x] = held[x]
        BY <1>5, <3>1
      <4> QED BY <1>1, <3>1, <4>1 DEF IInv, HandlesMeanObjects, getObj
    <3>2. CASE held[x] = NoHandle
      <4>1. x = o
        BY <1>5, <2>1, <3>2
      <4>2. found /\ held'[x].id = id /\ held'[x].kind = table[id + 1] /\ held'[x].alive
        BY <1>5, <2>1, <3>2, <4>1
      <4>3. kind[x] # "free" /\ (kind[x] # "MemObject" => table[id + 1] = kind[x])
        <5>1. CASE x \in Static
          <6>1. id + 1 \in DOMAIN table
            BY <1>2, <4>2
          <6> QED BY <1>2, <4>1, <4>2, <5>1, <6>1, ReplyLives DEF IInv, SlotInv
        <5>2. CASE x \in Addresses
          BY <3>2, <4>1, <5>2, ReplyLives
        <5> QED BY <5>1, <5>2 DEF Objects
      <4>4. getObj(held[x].id)' = x
        BY <1>1, <1>2, <4>1, <4>2 DEF getObj
      <4> QED BY <1>1, <4>2, <4>3, <4>4
    <3> QED BY <3>1, <3>2
  <2> QED BY <2>1 DEF HandlesMeanObjects
<1>11. WrapperFound'
  BY <1>1, <1>6 DEF IInv, WrapperFound
<1> QED BY <1>7, <1>8, <1>9, <1>10, <1>11, TakesKeeps DEF IInv

\* The client makes nothing of the ID.
LEMMA NoneKeeps ==
  ASSUME IInv, Takes, UNCHANGED <<table, held>>, call.how \in {"size", "buffer"},
         \/ faults' = faults
         \/ /\ faults' = faults \cup {KindOf(Head(call.reply).obj)}
            /\ Head(call.reply).obj # NULL /\ Head(call.reply).id = NoBuffer
  PROVE  IInv'
<1> DEFINE o == Head(call.reply).obj
           id == Head(call.reply).id
<1>1. UNCHANGED <<kind, parent, context, refs, mObjects, want, table, held>>
  BY DEF Takes
<1>2. WrapperFound' /\ faults' \subseteq WrapperKinds \cup {"null", "free"}
  <2>1. CASE faults' = faults
    BY <1>1, <2>1 DEF IInv, WrapperFound, TypeOK
  <2>2. CASE faults' = faults \cup {KindOf(o)} /\ o # NULL /\ id = NoBuffer
    <3>1. id \in Nat /\ id < Len(mObjects) /\ o \in Objects /\ Len(mObjects) \in Nat /\ Len(mObjects) <= MaxID
      BY <2>2, ReplyIsAnswered DEF Answered, IInv, TypeOK
    <3>2. Len(mObjects) = MaxID
      BY <2>2, <3>1, TableAssumption DEF NoBuffer, TableAssumption
    <3>3. KindOf(o) \in WrapperKinds \cup {"free"}
      BY <2>2, <3>1 DEF KindOf, IInv, TypeOK
    <3> QED BY <1>1, <2>2, <3>2, <3>3 DEF IInv, WrapperFound, TypeOK
  <2> QED BY <2>1, <2>2
<1>3. TypeOK'
  BY <1>1, <1>2, TakesFacts DEF IInv, TypeOK
<1>4. HeldInv'
  <2>1. \A x \in Addresses : kind[x] # "free" => held[x] # NoHandle
    BY OnlyOneIsCreated DEF Creating
  <2> QED BY <1>1, <2>1, TakesKeeps DEF HeldInv
<1>5. SlotInv'
  BY <1>1 DEF IInv, SlotInv, Filled, Coming
<1>6. HandlesMeanObjects'
  BY <1>1 DEF IInv, HandlesMeanObjects, getObj
<1> QED BY <1>2, <1>3, <1>4, <1>5, <1>6, TakesKeeps DEF IInv

\* The client takes the next ID of the reply.
LEMMA TakeIDKeeps ==
  ASSUME IInv, TakeID
  PROVE  IInv'
<1> DEFINE o == Head(call.reply).obj
           id == Head(call.reply).id
<1>1. Takes
  BY DEF Takes, TakeID, driverVars
<1>2. \/ call.how = "register" /\ registerID(o, id, call.kind)
      \/ call.how = "insert" /\ getOrInsertObject(o, id, call.kind)
      \/ call.how = "get" /\ getObject(o, id)
      \/ call.how = "buffer" /\ id # NoBuffer /\ getOrInsertObject(o, id, call.kind)
      \/ /\ call.how \in {"size", "buffer"} /\ UNCHANGED <<table, held>>
         /\ \/ faults' = faults
            \/ faults' = faults \cup {KindOf(o)} /\ o # NULL /\ id = NoBuffer
  BY DEF TakeID
<1>3. id \in Nat /\ Len(table) \in Nat
      /\ ((call.how = "buffer" => id # NoBuffer) => Answered(Head(call.reply)))
  BY <1>1, ReplyIsAnswered DEF IInv, TypeOK
<1>4. CASE call.how = "register" /\ registerID(o, id, call.kind)
  BY <1>1, <1>3, <1>4, RegisterKeeps
<1>5. CASE call.how = "get" /\ getObject(o, id)
  BY <1>1, <1>3, <1>5, GetKeeps
<1>6. CASE /\ call.how = "insert" \/ (call.how = "buffer" /\ id # NoBuffer)
           /\ getOrInsertObject(o, id, call.kind)
  <2>1. CASE id < Len(table)
    <3>1. getObject(o, id)
      BY <1>6, <2>1 DEF getOrInsertObject
    <3> QED BY <1>1, <1>3, <1>6, <2>1, <3>1, GetKeeps
  <2>2. CASE ~(id < Len(table))
    <3>1. registerID(o, id, call.kind) /\ id >= Len(table)
      BY <1>3, <1>6, <2>2 DEF getOrInsertObject
    <3> QED BY <1>1, <1>3, <1>6, <3>1, RegisterKeeps
  <2> QED BY <2>1, <2>2
<1>7. CASE /\ call.how \in {"size", "buffer"} /\ UNCHANGED <<table, held>>
           /\ \/ faults' = faults
              \/ faults' = faults \cup {KindOf(o)} /\ o # NULL /\ id = NoBuffer
  BY <1>1, <1>7, NoneKeeps
<1> QED BY <1>2, <1>4, <1>5, <1>6, <1>7

-----------------------------------------------------------------------------
(* The theorems. *)

\* A step that changes nothing keeps the invariant.
LEMMA StutterKeeps ==
  ASSUME IInv, UNCHANGED vars
  PROVE  IInv'
<1>1. UNCHANGED <<kind, parent, context, refs, mObjects, table, held, want, call, faults>>
  BY DEF vars, driverVars
<1>2. TypeOK' /\ DriverInv' /\ TableInv' /\ HandlesMeanObjects' /\ CountsAgree' /\ WrapperFound'
  BY <1>1 DEF IInv, TypeOK, DriverInv, Live, TableInv, HandlesMeanObjects, getObj, CountsAgree, WrapperFound
<1>3. Mentioned' = Mentioned /\ \A x : (Pinned(x)' <=> Pinned(x)) /\ (Creating(x)' <=> Creating(x))
  BY <1>1 DEF Mentioned, Pinned, Live, Creating
<1>4. CallInv' /\ HeldInv'
  BY <1>1, <1>3 DEF IInv, CallInv, HeldInv, getObj
<1>5. SlotInv'
  BY <1>1 DEF IInv, SlotInv, Filled, Coming
<1> QED BY <1>2, <1>4, <1>5 DEF IInv

\* Every step keeps the invariant.
LEMMA NextKeeps == IInv /\ [Next]_vars => IInv'
<1> SUFFICES ASSUME IInv, [Next]_vars PROVE IInv'
  OBVIOUS
<1>1. CASE ListPlatforms \/ ListDevices
  BY <1>1, ListKeeps
<1>2. CASE \E k \in Kinds, o \in Addresses, p \in Addresses \cup {NULL} : Create(k, o, p)
  BY <1>2, CreateKeeps
<1>3. CASE \E o \in Objects : Query(o)
  BY <1>3, QueryKeeps
<1>4. CASE \E o \in Addresses : Retain(o) \/ Release(o) \/ Free(o)
  BY <1>4, CountKeeps, FreeKeeps
<1>5. CASE getIDFor
  BY <1>5, getIDForKeeps
<1>6. CASE Searching \/ UNCHANGED vars
  BY <1>6, StutterKeeps DEF Searching
<1>7. CASE TakeID
  BY <1>7, TakeIDKeeps
<1> QED BY <1>1, <1>2, <1>3, <1>4, <1>5, <1>6, <1>7 DEF Next

\* The invariant holds throughout.
LEMMA Invariance == Spec => []IInv
BY InitIInv, NextKeeps, PTL DEF Spec

\* The tables never grow past the IDs, nor the client's past the server's.
THEOREM Types == Spec => []TypeOK
<1>1. IInv => TypeOK
  BY DEF IInv
<1> QED BY Invariance, <1>1, PTL

\* A handle means its object for as long as the object lives: no wrapper that
\* the application holds is destroyed or led to another object by addresses that
\* the driver uses again (getIDFor, registerID, getOrInsertObject).
THEOREM HandlesKeepTheirObject == Spec => []HandlesMeanObjects
<1>1. IInv => HandlesMeanObjects
  BY DEF IInv
<1> QED BY Invariance, <1>1, PTL

\* The driver's counts are the application's: every retain and release reaches
\* the object it is meant for (handleRetain, handleRelease).
THEOREM CountsStayEqual == Spec => []CountsAgree
<1>1. IInv => CountsAgree
  BY DEF IInv
<1> QED BY Invariance, <1>1, PTL

\* The client finds the wrapper of every ID of an address or a platform, in
\* whatever order objects are listed, created and asked for, until the IDs run
\* out.
THEOREM WrappersAreFound == Spec => []WrapperFound
<1>1. IInv => WrapperFound
  BY DEF IInv
<1> QED BY Invariance, <1>1, PTL
=============================================================================

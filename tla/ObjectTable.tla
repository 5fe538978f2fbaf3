----------------------------- MODULE ObjectTable -----------------------------
(***************************************************************************)
(* The two object tables.  The server gives every driver object an ID, its *)
(* index in ServerInstance::mObjects; the client keeps a wrapper for each  *)
(* ID in Connection::mObjects and gives the application the wrapper's      *)
(* address as its handle.  Neither table ever shrinks, while the driver    *)
(* reuses the addresses of objects it has destroyed.                       *)
(*                                                                         *)
(* The connection's lock serialises the calls, so one call at a time is in *)
(* progress, whichever thread makes it; the loops over the objects of a    *)
(* reply take a step per object.                                           *)
(***************************************************************************)
EXTENDS Integers, Sequences

CONSTANTS Addresses,   \* where the driver creates objects
          Platforms,   \* the driver's platforms, as it lists them
          Devices,     \* its devices
          NULL,        \* the null pointer
          Kinds,       \* kinds of objects the application creates
          MaxID,       \* number of IDs, 2^16
          MaxRefs      \* bound: references to one object

CreatedKinds == {"Context", "Queue", "Program", "Kernel", "MemObject", "Event"}
Members(s) == {s[i] : i \in DOMAIN s}
Static == Members(Platforms) \cup Members(Devices)
Objects == Addresses \cup Static

\* A device belongs to a platform, and a context, which comes first, has devices.
ASSUME TableAssumption ==
  /\ Platforms \in Seq(Static) /\ Devices \in Seq(Static)
  /\ Devices # << >> => Platforms # << >>
  /\ Kinds # {} => Devices # << >>
  /\ Members(Platforms) \cap Members(Devices) = {}
  /\ Addresses \cap Static = {} /\ NULL \notin Objects
  /\ Kinds \subseteq CreatedKinds
  /\ MaxID \in Nat \ {0} /\ MaxRefs \in Nat \ {0}

VARIABLES
  kind,      \* kind[o]: what the driver has at o, or "free"
  parent,    \* parent[o]: the object o was made from, or NULL
  context,   \* context[o]: the context o belongs to, or NULL
  refs,      \* refs[o]: the application's references, as the driver counts them
  mObjects,  \* the server's table; ID n is entry n + 1
  table,     \* the client's table: the kind of each wrapper, or "null"
  held,      \* held[o]: the handle the application has for o
  want,      \* want[o]: the references the application counts on
  call,      \* the call in progress
  faults     \* kinds of objects whose ID led the client to no wrapper

driverVars == <<kind, parent, context, refs>>
vars == <<driverVars, mObjects, table, held, want, call, faults>>

IDs == 0 .. MaxID - 1
NoHandle == [id |-> 0, kind |-> "null", alive |-> FALSE]
WrapperKinds == CreatedKinds \cup {"PlatformID", "DeviceID"}

\* What a call does with the IDs of its reply, and for which kind of wrapper;
\* the objects the handler has still to translate; the reply.
Idle == [how |-> "idle", kind |-> "null", todo |-> << >>, reply |-> << >>]

Init ==
  /\ kind = [o \in Objects |-> IF o \in Members(Platforms) THEN "PlatformID"
                               ELSE IF o \in Members(Devices) THEN "DeviceID" ELSE "free"]
  /\ parent = [o \in Objects |-> NULL]
  /\ context = [o \in Objects |-> NULL]
  /\ refs = [o \in Objects |-> 0]
  /\ mObjects = << >> /\ table = << >>
  /\ held = [o \in Objects |-> NoHandle]
  /\ want = [o \in Objects |-> 0]
  /\ call = Idle /\ faults = {}

-----------------------------------------------------------------------------
(* The server's table. *)

\* Mutated form: one entry too far.
getObjNext(id) == IF id + 1 >= Len(mObjects) THEN NULL ELSE mObjects[id + 2]

\* An ID past the end is no object.
getObj(id) == IF id >= Len(mObjects) THEN NULL ELSE mObjects[id + 1]

Known(o) == \E i \in DOMAIN mObjects : mObjects[i] = o
IndexOf(o) == (CHOOSE i \in DOMAIN mObjects : mObjects[i] = o) - 1

\* CL_IMAGE_BUFFER of an image that has none is answered with the largest ID.
NoBuffer == MaxID - 1

Replies(o, id) ==
  call' = [call EXCEPT !.todo = Tail(@), !.reply = Append(@, [obj |-> o, id |-> id])]

\* Mutated form: the table grows past the range of its IDs.
getIDForWraps ==
  /\ call.todo # << >>
  /\ LET o == Head(call.todo)
     IN  IF Known(o) THEN Replies(o, IndexOf(o)) /\ UNCHANGED mObjects
         ELSE /\ Replies(o, Len(mObjects) % MaxID)
              /\ mObjects' = Append(mObjects, o)
  /\ UNCHANGED <<driverVars, table, held, want, faults>>

\* Mutated form: the loop has no return.
getIDForNoReturn ==
  /\ call.todo # << >> /\ Len(mObjects) < MaxID
  /\ LET o == Head(call.todo)
     IN  /\ ~Known(o)
         /\ Replies(o, Len(mObjects))
         /\ mObjects' = Append(mObjects, o)
  /\ UNCHANGED <<driverVars, table, held, want, faults>>

\* The first entry that is this address, or a new one.  When there are as many
\* entries as IDs, the counter of the loop wraps and a search that finds
\* nothing does not end.
getIDFor ==
  /\ call.todo # << >>
  /\ LET o == Head(call.todo)
     IN  \/ /\ call.how = "buffer" /\ o = NULL
            /\ Replies(o, NoBuffer) /\ UNCHANGED mObjects
         \/ /\ call.how # "buffer" \/ o # NULL
            /\ Known(o)
            /\ Replies(o, IndexOf(o)) /\ UNCHANGED mObjects
         \/ /\ call.how # "buffer" \/ o # NULL
            /\ ~Known(o) /\ Len(mObjects) < MaxID
            /\ Replies(o, Len(mObjects))
            /\ mObjects' = Append(mObjects, o)
  /\ UNCHANGED <<driverVars, table, held, want, faults>>

\* The search goes on.
Searching == call.todo # << >> /\ UNCHANGED vars

-----------------------------------------------------------------------------
(* The client's table, under the connection's lock. *)

\* std::vector::resize fills the new slots with null.
Resized(n) == [i \in 1 .. (IF n > Len(table) THEN n ELSE Len(table)) |->
                 IF i <= Len(table) THEN table[i] ELSE "null"]

\* The application is given the wrapper in slot id for object o; it goes on with
\* the handle it has, if it has one.
Gives(o, id, k) ==
  [p \in Objects |-> IF p = o /\ held[p] = NoHandle
                     THEN [id |-> id, kind |-> k, alive |-> TRUE] ELSE held[p]]

\* Mutated form: an occupied slot keeps its wrapper.
registerIDKeeps(o, id, k) ==
  LET old == IF id < Len(table) THEN table[id + 1] ELSE "null"
      new == IF old = "null" THEN k ELSE old
  IN  /\ table' = [Resized(id + 1) EXCEPT ![id + 1] = new]
      /\ held' = Gives(o, id, new)
      /\ UNCHANGED faults

\* A new wrapper in slot id.  The wrapper that was there is destroyed, and the
\* handles to it dangle.
registerID(o, id, k) ==
  /\ table' = [Resized(id + 1) EXCEPT ![id + 1] = k]
  /\ held' = [p \in Objects |->
       IF held[p].alive /\ held[p].id = id THEN [held[p] EXCEPT !.alive = FALSE]
       ELSE Gives(o, id, k)[p]]
  /\ UNCHANGED faults

KindOf(o) == IF o = NULL THEN "null" ELSE kind[o]

\* The wrapper in slot id, whatever its kind.  An empty slot is dereferenced.
getObject(o, id) ==
  /\ IF id < Len(table) /\ table[id + 1] # "null"
     THEN held' = Gives(o, id, table[id + 1]) /\ UNCHANGED faults
     ELSE faults' = faults \cup {KindOf(o)} /\ UNCHANGED held
  /\ UNCHANGED table

\* A slot within the table is taken to be filled.
getOrInsertObject(o, id, k) ==
  IF id < Len(table) THEN getObject(o, id) ELSE registerID(o, id, k)

\* Mutated form: the list ends where the application's array does.
TakeFirst ==
  /\ call.todo = << >> /\ call.reply # << >>
  /\ LET r == Head(call.reply)
     IN  IF call.how = "register" THEN registerID(r.obj, r.id, call.kind)
         ELSE getOrInsertObject(r.obj, r.id, call.kind)
  /\ call' = Idle
  /\ UNCHANGED <<driverVars, mObjects, want>>

\* The client takes the next ID of the reply.  Of a list of devices of which
\* the application wants only the size it takes none, and an image's buffer
\* that has the largest ID is taken for none.
TakeID ==
  /\ call.todo = << >> /\ call.reply # << >>
  /\ LET r == Head(call.reply)
     IN  \/ call.how = "register" /\ registerID(r.obj, r.id, call.kind)
         \/ call.how = "insert" /\ getOrInsertObject(r.obj, r.id, call.kind)
         \/ call.how = "get" /\ getObject(r.obj, r.id)
         \/ call.how = "size" /\ UNCHANGED <<table, held, faults>>
         \/ /\ call.how = "buffer" /\ r.id # NoBuffer
            /\ getOrInsertObject(r.obj, r.id, call.kind)
         \/ /\ call.how = "buffer" /\ r.id = NoBuffer
            /\ faults' = IF r.obj = NULL THEN faults ELSE faults \cup {KindOf(r.obj)}
            /\ UNCHANGED <<table, held>>
  /\ call' = IF Len(call.reply) = 1 THEN Idle ELSE [call EXCEPT !.reply = Tail(@)]
  /\ UNCHANGED <<driverVars, mObjects, want>>

-----------------------------------------------------------------------------
(* The calls. *)

Ask(how, k, objs) == call' = [how |-> how, kind |-> k, todo |-> objs, reply |-> << >>]

\* clGetPlatformIDs
ListPlatforms ==
  /\ call = Idle /\ Platforms # << >>
  /\ Ask("insert", "PlatformID", Platforms)
  /\ UNCHANGED <<driverVars, mObjects, table, held, want, faults>>

\* clGetDeviceIDs, of any platform or of none, which is sent as ID 0 and may
\* then be answered with an error.
ListDevices ==
  /\ call = Idle /\ Devices # << >>
  /\ Ask("insert", "DeviceID", Devices)
  /\ UNCHANGED <<driverVars, mObjects, table, held, want, faults>>

\* What an object of kind k is made from.
MadeFrom(k) ==
  CASE k = "Context" -> {}
    [] k \in {"Queue", "Program"} -> {"Context"}
    [] k = "Kernel" -> {"Program"}
    [] k = "MemObject" -> {"Context", "MemObject"}
    [] k = "Event" -> {"Context", "Queue"}

\* The driver makes an object at a free address; clCreateKernelsInProgram does
\* so for each kernel.  The wrapper of a memory object is the one the slot has.
Create(k, o, p) ==
  LET q == IF k = "Context" THEN NULL ELSE getObj(held[p].id)
  IN  /\ call = Idle
      /\ kind[o] = "free"
      /\ IF k = "Context" THEN p = NULL
         ELSE p # NULL /\ want[p] > 0 /\ kind[p] \in MadeFrom(k)
      /\ kind' = [kind EXCEPT ![o] = k]
      /\ parent' = [parent EXCEPT ![o] = q]
      /\ context' = [context EXCEPT ![o] =
           IF k = "Context" THEN o ELSE IF q = NULL THEN NULL ELSE context[q]]
      /\ refs' = [refs EXCEPT ![o] = 1]
      /\ want' = [want EXCEPT ![o] = 1]
      /\ Ask(IF k = "MemObject" THEN "insert" ELSE "register", k, <<o>>)
      /\ UNCHANGED <<mObjects, table, held, faults>>

\* The objects that the queries on an object of kind k answer with.
Q(how, k, objs) == [how |-> how, kind |-> k, objs |-> objs]
Queries(o) ==
  CASE kind[o] = "DeviceID"  -> {Q("insert", "PlatformID", <<Platforms[1]>>),
                                 Q("insert", "DeviceID", <<NULL>>)}
    [] kind[o] = "Context"   -> {Q("insert", "DeviceID", Devices), Q("size", "DeviceID", Devices)}
    [] kind[o] = "Queue"     -> {Q("insert", "Context", <<context[o]>>),
                                 Q("insert", "DeviceID", <<Devices[1]>>)}
    [] kind[o] = "Program"   -> {Q("get", "Context", <<context[o]>>),
                                 Q("get", "DeviceID", Devices), Q("size", "DeviceID", Devices)}
    [] kind[o] = "Kernel"    -> {Q("insert", "Context", <<context[o]>>),
                                 Q("insert", "Program", <<parent[o]>>)}
    [] kind[o] = "MemObject" -> LET of == IF parent[o] = context[o] THEN NULL ELSE parent[o]
                                IN  {Q("insert", "Context", <<context[o]>>),
                                     Q("insert", "MemObject", <<of>>), Q("buffer", "MemObject", <<of>>)}
    [] kind[o] = "Event"     -> {Q("get", "Context", <<context[o]>>),
                                 Q("get", "Queue", <<IF parent[o] = context[o] THEN NULL ELSE parent[o]>>)}
    [] OTHER -> {}

\* The clGet*Info calls whose answer is an object.
Query(o) ==
  /\ call = Idle
  /\ held[o].alive /\ (want[o] > 0 \/ o \in Static)
  /\ LET on == getObj(held[o].id)
     IN  \E q \in IF on = NULL THEN {} ELSE Queries(on) :
           Ask(q.how, q.kind, q.objs)
  /\ UNCHANGED <<driverVars, mObjects, table, held, want, faults>>

\* handleRetain: the driver is given what the ID stands for.
Retain(o) ==
  /\ call = Idle
  /\ want[o] \in 1 .. MaxRefs - 1
  /\ LET on == getObj(held[o].id)
     IN  refs' = [x \in Objects |-> IF x = on THEN refs[x] + 1 ELSE refs[x]]
  /\ want' = [want EXCEPT ![o] = @ + 1]
  /\ UNCHANGED <<kind, parent, context, mObjects, table, held, call, faults>>

\* handleRelease: the entries of both tables stay.
Release(o) ==
  /\ call = Idle
  /\ want[o] > 0
  /\ LET on == getObj(held[o].id)
     IN  refs' = [x \in Objects |-> IF x = on /\ refs[x] > 0 THEN refs[x] - 1 ELSE refs[x]]
  /\ want' = [want EXCEPT ![o] = @ - 1]
  /\ UNCHANGED <<kind, parent, context, mObjects, table, held, call, faults>>

\* The driver destroys an object that nobody references, at once or later; its
\* address may be used again.  The application has no valid handle to it.
Free(o) ==
  /\ kind[o] # "free" /\ refs[o] = 0
  /\ \A c \in Objects : kind[c] # "free" /\ c # o => o \notin {parent[c], context[c]}
  /\ kind' = [kind EXCEPT ![o] = "free"]
  /\ parent' = [parent EXCEPT ![o] = NULL]
  /\ context' = [context EXCEPT ![o] = NULL]
  /\ held' = [held EXCEPT ![o] = NoHandle]
  /\ UNCHANGED <<refs, mObjects, table, want, call, faults>>

Next ==
  \/ ListPlatforms \/ ListDevices
  \/ \E k \in Kinds, o \in Addresses, p \in Addresses \cup {NULL} : Create(k, o, p)
  \/ \E o \in Objects : Query(o)
  \/ \E o \in Addresses : Retain(o) \/ Release(o) \/ Free(o)
  \/ getIDFor \/ Searching \/ TakeID

Spec == Init /\ [][Next]_vars

\* Both ends of a call go on; nobody has to make one.
FairSpec == Spec /\ WF_vars(getIDFor) /\ WF_vars(TakeID)
-----------------------------------------------------------------------------
(* Properties. *)

Handles == [id : IDs, kind : WrapperKinds \cup {"null"}, alive : BOOLEAN]
Replied == [obj : Objects \cup {NULL}, id : IDs]
Called  == [how : {"idle", "register", "insert", "get", "size", "buffer"},
            kind : WrapperKinds \cup {"null"}, todo : Seq(Objects \cup {NULL}),
            reply : Seq(Replied)]

\* The variables keep their ranges; the server's table is never larger than
\* the range of IDType, nor the client's than the server's.
TypeOK ==
  /\ kind \in [Objects -> WrapperKinds \cup {"free"}]
  /\ parent \in [Objects -> Objects \cup {NULL}]
  /\ context \in [Objects -> Objects \cup {NULL}]
  /\ refs \in [Objects -> 0 .. MaxRefs]
  /\ mObjects \in Seq(Objects \cup {NULL}) /\ Len(mObjects) <= MaxID
  /\ table \in Seq(WrapperKinds \cup {"null"}) /\ Len(table) <= Len(mObjects)
  /\ held \in [Objects -> Handles]
  /\ want \in [Objects -> 0 .. MaxRefs]
  /\ call \in Called
  /\ faults \subseteq WrapperKinds \cup {"null", "free"}

\* As long as the driver's object lives, the handle the application has for it
\* is a wrapper that was not destroyed, and its ID still leads the server to
\* that object: however objects are released, their addresses reused (which
\* gives the new object the old ID, instance.h lines 121 to 123) and wrappers
\* replaced (connection.h line 116).  The wrapper has the type of the object,
\* except for memory objects: theirs come from getOrInsertObject (memory.cpp line
\* 368), which returns what an earlier object at the same address left behind.
HandlesMeanObjects ==
  \A o \in Objects : held[o] # NoHandle =>
    /\ held[o].alive /\ kind[o] # "free"
    /\ getObj(held[o].id) = o
    /\ held[o].id < Len(table) /\ table[held[o].id + 1] = held[o].kind
    /\ kind[o] # "MemObject" => held[o].kind = kind[o]

\* The driver counts the references that the application counts on: a retain or
\* a release never reaches another object (refcount.cpp), and nothing is
\* destroyed while the application has a reference.
CountsAgree ==
  /\ \A o \in Addresses : refs[o] = want[o]
  /\ \A o \in Addresses : want[o] > 0 => kind[o] # "free"

\* The client finds a wrapper for every ID, except for a device whose ID was
\* assigned while only the number of devices was asked for (context.cpp line
\* 158), for the ID of NULL, and for the buffer whose ID is the largest.  "We
\* know the context exists" (program.cpp line 352).
WrapperFound == faults \subseteq {"null", "DeviceID"} \/ Len(mObjects) = MaxID

\* Every call comes back, unless the server has given away all its IDs.
CallsEnd == call # Idle ~> (call = Idle \/ Len(mObjects) = MaxID)
=============================================================================

---------------------------- MODULE MappingProofs ----------------------------
(***************************************************************************)
(* Proofs about Mapping, for every set of threads, pointers, values and    *)
(* flags, and every length of the driver's queue.                          *)
(***************************************************************************)
EXTENDS Mapping, FiniteSetTheorems, TLAPS

-----------------------------------------------------------------------------
(* The inductive invariant. *)

Ops    == {"none", "map", "unmap", "readImage", "write"}
Places == {"idle", "transfer", "sent", "retain", "drop", "release", "done"}

Command == [op : Ops, val : Data, live : BOOLEAN]

TypeOK ==
  /\ op \in [Threads -> Ops] /\ at \in [Threads -> Places]
  /\ ptr \in [Threads -> Pointers \cup {AnyPointer}]
  /\ val \in [Threads -> Data] /\ block \in [Threads -> BOOLEAN]
  /\ mMappings \in [Pointers -> (SUBSET {"r", "w"}) \cup {NoMapping}]
  /\ data \in [Pointers -> Data]
  /\ given \in SUBSET Pointers /\ appRef \in BOOLEAN
  /\ conn \in Threads \cup {Nobody} /\ open \in BOOLEAN
  /\ refs \in Nat /\ buffer \in Data /\ mem \in Data
  /\ queue \in Seq(Command)
  /\ seen \in [Threads -> SUBSET Data]

\* Where a thread can be in its call; only a thread that waits for a reply has
\* the lock, and the application keeps its reference while it maps.
Control(t) ==
  /\ op[t] = "none" <=> at[t] = "idle"
  /\ op[t] = "map" => at[t] \in {"transfer", "sent", "retain"} /\ appRef
  /\ op[t] = "unmap" => at[t] \in {"transfer", "sent", "drop", "release"}
  /\ op[t] \in {"readImage", "write"} => at[t] \in {"transfer", "sent", "done"}
  /\ op[t] \in {"none", "unmap"} => block[t]
  /\ conn = t <=> at[t] = "sent"

ControlInv == \A t \in Threads : Control(t)

\* The thread works on a mapping.
Owns(t) == op[t] \in {"map", "unmap"} /\ at[t] # "release"

\* A mapping is in the list while a thread works on it, and then neither
\* another thread nor the application has it.
OwnerInv ==
  /\ \A t \in Threads : Owns(t) => ptr[t] \in Mapped /\ ptr[t] \notin given
  /\ \A t, u \in Threads : t # u /\ Owns(t) /\ Owns(u) => ptr[t] # ptr[u]
  /\ given \subseteq Mapped

\* Of the commands in the queue only the last can belong to the handler that is
\* running; while it is there it is the command of the thread that has the lock.
\* A lost connection takes the queue with it.
QueueInv ==
  /\ ~open => queue = << >>
  /\ \A i \in DOMAIN queue : queue[i].live => i = Len(queue) /\ conn # Nobody
  /\ \A i \in DOMAIN queue : queue[i].live => queue[i].op = op[conn] /\ queue[i].val = val[conn]
  /\ \A i \in DOMAIN queue : ~queue[i].live => queue[i].op \in {"write", "readImage"}

\* The memory of the handler: what is to be written, and what was read once the
\* command was executed; both are values the buffer had during the transfer.
MemoryInv ==
  \A t \in Threads : at[t] = "sent" /\ open =>
    /\ Writes(op[t]) => mem = val[t]
    /\ Executed => mem \in seen[t]

IInv == TypeOK /\ ControlInv /\ OwnerInv /\ QueueInv /\ MemoryInv /\ TransfersAreCurrent

-----------------------------------------------------------------------------
(* Init and the steps of the application. *)

\* A new buffer has no mappings, and nobody is in a call.
LEMMA InitIInv == Init => IInv
<1> SUFFICES ASSUME Init PROVE IInv
  OBVIOUS
<1>1. TypeOK
  BY DEF Init, TypeOK, Ops, Places, Data
<1>2. ControlInv
  BY MappingAssumption DEF Init, ControlInv, Control, MappingAssumption
<1>3. OwnerInv /\ QueueInv /\ MemoryInv /\ TransfersAreCurrent
  BY DEF Init, OwnerInv, Owns, QueueInv, MemoryInv, TransfersAreCurrent
<1> QED BY <1>1, <1>2, <1>3 DEF IInv

\* getMapping(size, offset, flags) adds a mapping that nobody has.
LEMMA MapKeeps ==
  ASSUME IInv, NEW t \in Threads, Map(t)
  PROVE  IInv'
<1> USE DEF IInv, Map
<1>1. PICK p \in Pointers \ Mapped, f \in MapFlags :
        /\ mMappings' = [mMappings EXCEPT ![p] = f]
        /\ data' = [data EXCEPT ![p] = Raw]
        /\ ptr' = [ptr EXCEPT ![t] = p]
        /\ \/ at' = [at EXCEPT ![t] = "transfer"]
           \/ at' = [at EXCEPT ![t] = "retain"] /\ "r" \notin f
  BY DEF Goto
<1>2. f \in SUBSET {"r", "w"} /\ f # NoMapping
  <2>1. f \in SUBSET {"r", "w"} /\ "none" \notin f
    BY MappingAssumption DEF MappingAssumption
  <2> QED BY <2>1 DEF NoMapping
<1>3. Mapped' = Mapped \cup {p}
  BY <1>1, <1>2 DEF Mapped, TypeOK
<1>4. TypeOK'
  BY <1>1, <1>2 DEF TypeOK, Ops, Places, Data, serverVars
<1>5. ControlInv'
  BY <1>1 DEF ControlInv, Control, TypeOK, Ops, Places
<1>6. OwnerInv'
  <2>1. \A u \in Threads : u # t => (Owns(u)' <=> Owns(u)) /\ ptr'[u] = ptr[u]
    BY <1>1 DEF Owns, TypeOK
  <2> QED BY <1>1, <1>3, <2>1 DEF OwnerInv, TypeOK
<1>7. QueueInv' /\ MemoryInv'
  BY <1>1 DEF QueueInv, MemoryInv, Executed, Writes, ControlInv, Control, TypeOK, serverVars
<1>8. TransfersAreCurrent'
  <2>1. \A u \in Threads : u # t /\ Owns(u) => mMappings'[ptr[u]] = mMappings[ptr[u]]
    BY <1>1 DEF OwnerInv, TypeOK
  <2>2. ptr'[t] = p /\ mMappings'[p] = f
    BY <1>1 DEF TypeOK
  <2> QED BY <1>1, <2>1, <2>2 DEF TransfersAreCurrent, Owns, TypeOK
<1> QED BY <1>4, <1>5, <1>6, <1>7, <1>8

\* A mapping that is unmapped goes from the application to the thread.
LEMMA UnmapKeeps ==
  ASSUME IInv, NEW t \in Threads, Unmap(t)
  PROVE  IInv'
<1> USE DEF IInv, Unmap, Goto, serverVars
<1>1. TypeOK'
  BY DEF TypeOK, Ops, Places, Data
<1>2. ControlInv'
  BY DEF ControlInv, Control, TypeOK, Ops, Places
<1>3. OwnerInv'
  BY DEF OwnerInv, Owns, Mapped, NoMapping, ControlInv, Control, TypeOK, Ops, Places
<1>4. QueueInv' /\ MemoryInv'
  BY DEF QueueInv, MemoryInv, Executed, Writes, ControlInv, Control, TypeOK
<1>5. TransfersAreCurrent'
  BY DEF TransfersAreCurrent, ControlInv, Control, TypeOK
<1> QED BY <1>1, <1>2, <1>3, <1>4, <1>5

\* A read or a write has no mapping.
LEMMA TransferKeeps ==
  ASSUME IInv, NEW t \in Threads, Transfer(t)
  PROVE  IInv'
<1> USE DEF IInv, Transfer, Goto, clientVars, serverVars
<1>1. TypeOK'
  BY DEF TypeOK, Ops, Places, Data
<1>2. ControlInv'
  BY DEF ControlInv, Control, TypeOK, Ops, Places
<1>3. OwnerInv'
  BY DEF OwnerInv, Owns, Mapped, ControlInv, Control, TypeOK
<1>4. QueueInv' /\ MemoryInv'
  BY DEF QueueInv, MemoryInv, Executed, Writes, ControlInv, Control, TypeOK
<1>5. TransfersAreCurrent'
  BY DEF TransfersAreCurrent, ControlInv, Control, TypeOK
<1> QED BY <1>1, <1>2, <1>3, <1>4, <1>5

\* Writing to mapped memory changes nothing but the memory.
LEMMA TouchKeeps ==
  ASSUME IInv, Touch
  PROVE  IInv'
<1> USE DEF IInv, Touch, callVars, serverVars
<1>1. TypeOK'
  BY DEF TypeOK, Data
<1>2. ControlInv' /\ OwnerInv'
  BY DEF ControlInv, Control, OwnerInv, Owns, Mapped
<1>3. QueueInv' /\ MemoryInv' /\ TransfersAreCurrent'
  BY DEF QueueInv, MemoryInv, Executed, Writes, TransfersAreCurrent
<1> QED BY <1>1, <1>2, <1>3

\* The application's own reference goes while nobody maps.
LEMMA AppReleaseKeeps ==
  ASSUME IInv, AppRelease
  PROVE  IInv'
<1> USE DEF IInv, AppRelease, callVars
<1>1. refs' \in Nat
  BY DEF TypeOK
<1>2. TypeOK'
  BY <1>1 DEF TypeOK
<1>3. ControlInv' /\ OwnerInv'
  BY DEF ControlInv, Control, OwnerInv, Owns, Mapped
<1>4. QueueInv' /\ MemoryInv' /\ TransfersAreCurrent'
  BY DEF QueueInv, MemoryInv, Executed, Writes, TransfersAreCurrent
<1> QED BY <1>1, <1>2, <1>3, <1>4

-----------------------------------------------------------------------------
(* The steps of a transfer. *)

\* A transfer that failed gives a new mapping up, or an old one back.
LEMMA FailedKeeps ==
  ASSUME IInv, NEW t \in Threads, Failed(t),
         \/ at[t] = "transfer" /\ conn = Nobody
         \/ at[t] = "sent" /\ conn = t /\ ~open,
         conn' = Nobody, UNCHANGED <<appRef, open, refs, buffer, queue, mem>>
  PROVE  IInv'
<1> USE DEF IInv, Failed, Return
<1>1. TypeOK'
  <2>1. /\ op' \in [Threads -> Ops] /\ at' \in [Threads -> Places]
        /\ val' \in [Threads -> Data] /\ block' \in [Threads -> BOOLEAN]
        /\ ptr' \in [Threads -> Pointers \cup {AnyPointer}]
        /\ seen' \in [Threads -> SUBSET Data]
    BY DEF TypeOK, Ops, Places, Data
  <2>2. given' \in SUBSET Pointers
    BY DEF TypeOK, OwnerInv, Mapped, Owns
  <2>3. mMappings' \in [Pointers -> (SUBSET {"r", "w"}) \cup {NoMapping}]
    BY DEF TypeOK, Dropped
  <2> QED BY <2>1, <2>2, <2>3 DEF TypeOK
<1>2. ControlInv'
  BY MappingAssumption DEF ControlInv, Control, TypeOK, Ops, Places, MappingAssumption
<1>3. OwnerInv'
  <2>1. \A u \in Threads : u # t => (Owns(u)' <=> Owns(u)) /\ ptr'[u] = ptr[u]
    BY DEF Owns, TypeOK
  <2>2. ~Owns(t)'
    BY DEF Owns, TypeOK
  <2>3. CASE op[t] = "map"
    <3>1. Mapped' = Mapped \ {ptr[t]}
      BY <2>3 DEF Mapped, Dropped, TypeOK, NoMapping
    <3>2. Owns(t) /\ given' = given
      BY <2>3 DEF Owns
    <3> QED BY <2>1, <2>2, <3>1, <3>2 DEF OwnerInv
  <2>4. CASE op[t] = "unmap"
    <3>1. Mapped' = Mapped
      BY <2>4 DEF Mapped
    <3>2. Owns(t) /\ given' = given \cup {ptr[t]}
      BY <2>4 DEF Owns
    <3> QED BY <2>1, <2>2, <3>1, <3>2 DEF OwnerInv
  <2>5. CASE op[t] \notin {"map", "unmap"}
    <3>1. Mapped' = Mapped /\ given' = given
      BY <2>5 DEF Mapped
    <3> QED BY <2>1, <2>2, <3>1 DEF OwnerInv
  <2> QED BY <2>3, <2>4, <2>5
<1>4. QueueInv'
  BY DEF QueueInv
<1>5. MemoryInv'
  BY DEF MemoryInv, Executed, Writes, TypeOK
<1>6. TransfersAreCurrent'
  <2>1. \A u \in Threads : u # t /\ Owns(u) => mMappings'[ptr[u]] = mMappings[ptr[u]]
    BY DEF OwnerInv, Owns, Mapped, Dropped, TypeOK
  <2> QED BY <2>1 DEF TransfersAreCurrent, Owns, TypeOK
<1> QED BY <1>1, <1>2, <1>3, <1>4, <1>5, <1>6

\* A request puts a command behind those whose handlers have returned.
LEMMA SendKeeps ==
  ASSUME IInv, NEW t \in Threads, Send(t)
  PROVE  IInv'
<1> DEFINE command == [op |-> op[t], val |-> val[t], live |-> TRUE]
<1>1. CASE Failed(t) /\ UNCHANGED <<conn, queue, mem>>
  <2>1. /\ at[t] = "transfer" /\ conn = Nobody /\ conn' = Nobody
        /\ UNCHANGED <<appRef, open, refs, buffer, queue, mem>>
    BY <1>1 DEF Send
  <2> QED BY <1>1, <2>1, FailedKeeps
<1>2. CASE /\ open /\ conn' = t /\ queue' = Append(queue, command)
           /\ mem' = (IF Writes(op[t]) THEN val[t] ELSE Raw)
           /\ seen' = [seen EXCEPT ![t] = {buffer}] /\ Goto(t, "sent")
           /\ UNCHANGED <<op, ptr, val, block, mMappings, data, given>>
  <2> USE <1>2 DEF IInv, Send, Goto
  <2>1. TypeOK'
    <3>1. queue' \in Seq(Command)
      BY DEF TypeOK, Command
    <3>2. /\ mem' \in Data /\ seen' \in [Threads -> SUBSET Data]
          /\ at' \in [Threads -> Places] /\ conn' \in Threads
      BY DEF TypeOK, Data, Places
    <3> QED BY <3>1, <3>2 DEF TypeOK
  <2>2. ControlInv'
    BY MappingAssumption DEF ControlInv, Control, TypeOK, Ops, Places, MappingAssumption
  <2>3. OwnerInv'
    <3>1. Mapped' = Mapped /\ \A u \in Threads : Owns(u)' <=> Owns(u)
      BY DEF Mapped, Owns, TypeOK
    <3> QED BY <3>1 DEF OwnerInv
  <2>4. QueueInv' /\ ~Executed'
    <3>1. /\ Len(queue') = Len(queue) + 1 /\ queue'[Len(queue')] = command
          /\ \A i \in DOMAIN queue : queue'[i] = queue[i] /\ ~queue[i].live
      BY DEF TypeOK, QueueInv
    <3>2. \A i \in DOMAIN queue' : i \in DOMAIN queue \/ i = Len(queue')
      BY DEF TypeOK
    <3> QED BY <3>1, <3>2, MappingAssumption DEF QueueInv, TypeOK, Executed, MappingAssumption
  <2>5. MemoryInv'
    BY <2>4, MappingAssumption DEF MemoryInv, Writes, TypeOK, ControlInv, Control, MappingAssumption
  <2>6. TransfersAreCurrent'
    BY DEF TransfersAreCurrent, TypeOK
  <2> QED BY <2>1, <2>2, <2>3, <2>4, <2>5, <2>6
<1> QED BY <1>1, <1>2 DEF Send

\* The driver executes the oldest command: the last one is that of the thread
\* that waits.
LEMMA ExecuteKeeps ==
  ASSUME IInv, Execute
  PROVE  IInv'
<1> DEFINE c == Head(queue)
<1> USE DEF IInv, Execute
<1>1. /\ c \in Command /\ c = queue[1]
      /\ queue' \in Seq(Command)
      /\ Len(queue') = Len(queue) - 1 /\ Len(queue) > 0
      /\ \A i \in DOMAIN queue' : i + 1 \in DOMAIN queue /\ queue'[i] = queue[i + 1]
  <2>1. queue \in Seq(Command) /\ queue # << >>
    BY DEF TypeOK
  <2>2. Len(queue) \in Nat \ {0} /\ queue[1] \in Command /\ c = queue[1]
    BY <2>1
  <2>3. Len(queue') = Len(queue) - 1 /\ queue' \in Seq(Command)
    BY <2>1
  <2>4. \A i \in 1 .. Len(queue) - 1 : queue'[i] = queue[i + 1]
    BY <2>1
  <2> QED BY <2>1, <2>2, <2>3, <2>4
<1>2. TypeOK'
  <2>1. buffer' \in Data /\ mem' \in Data
    BY <1>1 DEF TypeOK, Data, Command
  <2>2. seen' \in [Threads -> SUBSET Data]
    BY <2>1 DEF TypeOK
  <2> QED BY <1>1, <2>1, <2>2 DEF TypeOK, callVars, clientVars
<1>3. ControlInv' /\ OwnerInv'
  BY DEF ControlInv, Control, OwnerInv, Owns, Mapped, callVars, clientVars
<1>4. QueueInv'
  BY <1>1 DEF QueueInv, callVars, clientVars, TypeOK
<1>5. MemoryInv'
  <2> SUFFICES ASSUME NEW t \in Threads, at[t] = "sent", open
               PROVE  /\ Writes(op[t]) => mem' = val[t]
                      /\ Executed' => mem' \in seen'[t]
    BY DEF MemoryInv, callVars, clientVars, Writes
  <2>1. conn = t /\ seen'[t] = seen[t] \cup {buffer'}
    BY DEF ControlInv, Control, TypeOK
  <2>2. CASE c.live
    <3>1. c.op = op[t] /\ c.val = val[t] /\ Len(queue) = 1
      BY <1>1, <2>1, <2>2 DEF QueueInv
    <3> QED BY <2>1, <2>2, <3>1 DEF MemoryInv, Writes
  <2>3. CASE ~c.live
    <3>1. mem' = mem
      BY <2>3
    <3>2. Executed' => Executed
      <4> SUFFICES ASSUME Executed', NEW i \in DOMAIN queue, queue[i].live
                   PROVE  FALSE
        BY DEF Executed
      <4>1. i # 1
        BY <1>1, <2>3
      <4>2. i - 1 \in DOMAIN queue' /\ queue'[i - 1] = queue[i]
        BY <1>1, <4>1 DEF TypeOK
      <4> QED BY <4>2 DEF Executed
    <3> QED BY <2>1, <3>1, <3>2 DEF MemoryInv
  <2> QED BY <2>2, <2>3
<1>6. TransfersAreCurrent'
  BY DEF TransfersAreCurrent, TypeOK, callVars, clientVars
<1> QED BY <1>2, <1>3, <1>4, <1>5, <1>6

\* The handler frees its memory: only an unblocked write or image read is still
\* in the queue then.
LEMMA FinishKeeps ==
  ASSUME IInv, NEW t \in Threads, Finish(t)
  PROVE  IInv'
<1> USE DEF IInv
<1>1. CASE ~open /\ Failed(t) /\ UNCHANGED <<queue, mem>>
  BY <1>1, FailedKeeps DEF Finish
<1>2. CASE open
  <2> USE <1>2 DEF Finish
  <2>1. PICK next \in {"retain", "drop", "done"} :
          /\ at' = [at EXCEPT ![t] = next]
          /\ op[t] = "map" => next = "retain"
          /\ op[t] = "unmap" => next = "drop"
          /\ op[t] \notin {"map", "unmap"} => next = "done"
    BY DEF Goto
  <2>2. /\ conn' = Nobody /\ UNCHANGED <<op, ptr, block, mMappings, given, seen, appRef, open, refs, buffer>>
        /\ val' = [val EXCEPT ![t] = mem] /\ mem' = Raw
        /\ ServerBlocks(t) => Executed
    OBVIOUS
  <2>3. /\ queue' \in Seq(Command) /\ Len(queue') = Len(queue)
        /\ \A i \in DOMAIN queue' : ~queue'[i].live /\ queue'[i].op = queue[i].op
    <3>1. \A i \in 1 .. Len(queue) : queue[i] \in Command
      BY DEF TypeOK
    <3>2. \A i \in 1 .. Len(queue) : LET d == [queue[i] EXCEPT !.live = FALSE]
                                      IN  d \in Command /\ ~d.live /\ d.op = queue[i].op
      BY <3>1 DEF Command
    <3>3. Len(queue) \in Nat /\ DOMAIN queue = 1 .. Len(queue)
      BY DEF TypeOK
    <3>4. queue' = [i \in 1 .. Len(queue) |-> [queue[i] EXCEPT !.live = FALSE]]
      BY <3>3
    <3>5. queue' \in Seq(Command) /\ Len(queue') = Len(queue)
      BY <3>2, <3>3, <3>4
    <3> QED BY <3>2, <3>3, <3>4, <3>5
  <2>4. TypeOK'
    <3>1. data' \in [Pointers -> Data]
      BY DEF TypeOK
    <3>2. at' \in [Threads -> Places] /\ val' \in [Threads -> Data] /\ mem' \in Data
      BY <2>1, <2>2 DEF TypeOK, Places, Data
    <3> QED BY <2>2, <2>3, <3>1, <3>2 DEF TypeOK
  <2>5. ControlInv'
    BY <2>1, <2>2, MappingAssumption DEF ControlInv, Control, TypeOK, Ops, Places, MappingAssumption
  <2>6. OwnerInv'
    <3>1. Mapped' = Mapped /\ \A u \in Threads : Owns(u)' <=> Owns(u)
      BY <2>1, <2>2 DEF Mapped, Owns, TypeOK
    <3> QED BY <2>2, <3>1 DEF OwnerInv
  <2>7. QueueInv'
    <3> SUFFICES ASSUME NEW i \in DOMAIN queue'
                 PROVE  queue'[i].op \in {"write", "readImage"}
      BY <2>2, <2>3 DEF QueueInv
    <3>1. i \in DOMAIN queue /\ queue'[i].op = queue[i].op
      BY <2>3 DEF TypeOK
    <3>2. CASE queue[i].live
      <4>1. ~block[t] /\ op[t] # "map" /\ queue[i].op = op[t]
        BY <2>2, <3>1, <3>2 DEF Executed, ServerBlocks, QueueInv
      <4>2. op[t] \in {"write", "readImage"}
        BY <4>1 DEF ControlInv, Control, TypeOK, Ops
      <4> QED BY <3>1, <4>1, <4>2
    <3>3. CASE ~queue[i].live
      BY <3>1, <3>3 DEF QueueInv
    <3> QED BY <3>2, <3>3
  <2>8. MemoryInv'
    BY <2>1, <2>2 DEF MemoryInv, ControlInv, Control, TypeOK
  <2>9. TransfersAreCurrent'
    <3>1. ServerBlocks(t) => val'[t] \in seen'[t]
      BY <2>2 DEF MemoryInv, TypeOK
    <3>2. op[t] \in {"map", "unmap"} \/ block[t] => ServerBlocks(t)
      BY DEF ServerBlocks, ControlInv, Control
    <3> QED BY <2>1, <2>2, <3>1, <3>2 DEF TransfersAreCurrent, TypeOK
  <2> QED BY <2>4, <2>5, <2>6, <2>7, <2>8, <2>9
<1> QED BY <1>1, <1>2 DEF Finish

\* The call returns.
LEMMA DoneKeeps ==
  ASSUME IInv, NEW t \in Threads, Done(t)
  PROVE  IInv'
<1> USE DEF IInv, Done, Return, clientVars, serverVars
<1>1. TypeOK'
  BY DEF TypeOK, Ops, Places, Data
<1>2. ControlInv'
  BY DEF ControlInv, Control, TypeOK, Ops, Places
<1>3. OwnerInv'
  BY DEF OwnerInv, Owns, Mapped, ControlInv, Control, TypeOK
<1>4. QueueInv' /\ MemoryInv'
  BY DEF QueueInv, MemoryInv, Executed, Writes, ControlInv, Control, TypeOK
<1>5. TransfersAreCurrent'
  BY DEF TransfersAreCurrent, TypeOK
<1> QED BY <1>1, <1>2, <1>3, <1>4, <1>5

-----------------------------------------------------------------------------
(* The rest of a map and of an unmap. *)

\* The new mapping goes from the thread to the application.
LEMMA MapRetainKeeps ==
  ASSUME IInv, NEW t \in Threads, MapRetain(t)
  PROVE  IInv'
<1> USE DEF IInv, MapRetain
<1>1. TypeOK'
  <2>1. refs' \in Nat
    BY DEF TypeOK
  <2>2. given' \in SUBSET Pointers
    BY DEF TypeOK, OwnerInv, Mapped, Owns, ControlInv, Control, Ops, Places
  <2>3. /\ op' \in [Threads -> Ops] /\ at' \in [Threads -> Places]
        /\ val' \in [Threads -> Data] /\ block' \in [Threads -> BOOLEAN]
        /\ ptr' \in [Threads -> Pointers \cup {AnyPointer}]
        /\ seen' \in [Threads -> SUBSET Data]
    BY DEF TypeOK, Return, Ops, Places, Data
  <2> QED BY <2>1, <2>2, <2>3 DEF TypeOK
<1>2. ControlInv'
  BY DEF ControlInv, Control, TypeOK, Ops, Places, Return
<1>3. OwnerInv'
  BY DEF OwnerInv, Owns, Mapped, ControlInv, Control, TypeOK, Ops, Places, Return
<1>4. QueueInv' /\ MemoryInv'
  BY DEF QueueInv, MemoryInv, Executed, Writes, ControlInv, Control, TypeOK, Return
<1>5. TransfersAreCurrent'
  BY DEF TransfersAreCurrent, TypeOK, Return
<1> QED BY <1>1, <1>2, <1>3, <1>4, <1>5

\* dropMapping takes away the mapping of this thread and no other.
LEMMA UnmapDropKeeps ==
  ASSUME IInv, NEW t \in Threads, UnmapDrop(t)
  PROVE  IInv'
<1> USE DEF IInv, UnmapDrop, Goto, serverVars
<1>1. TypeOK'
  <2>1. data' \in [Pointers -> Data]
    BY DEF TypeOK, Data
  <2>2. mMappings' \in [Pointers -> (SUBSET {"r", "w"}) \cup {NoMapping}]
    BY DEF TypeOK, Dropped
  <2>3. at' \in [Threads -> Places]
    BY DEF TypeOK, Places
  <2> QED BY <2>1, <2>2, <2>3 DEF TypeOK
<1>2. ControlInv'
  BY DEF ControlInv, Control, TypeOK, Ops, Places
<1>3. OwnerInv'
  BY DEF OwnerInv, Owns, Mapped, Dropped, NoMapping, ControlInv, Control, TypeOK, Ops, Places
<1>4. QueueInv' /\ MemoryInv'
  BY DEF QueueInv, MemoryInv, Executed, Writes, ControlInv, Control, TypeOK
<1>5. TransfersAreCurrent'
  BY DEF TransfersAreCurrent, OwnerInv, Owns, Dropped, ControlInv, Control, TypeOK, Ops, Places
<1> QED BY <1>1, <1>2, <1>3, <1>4, <1>5

\* The thread has no mapping any more.
LEMMA UnmapReleaseKeeps ==
  ASSUME IInv, NEW t \in Threads, UnmapRelease(t)
  PROVE  IInv'
<1> USE DEF IInv, UnmapRelease, Return, clientVars
<1>1. TypeOK'
  <2>1. refs' \in Nat
    BY DEF TypeOK
  <2> QED BY <2>1 DEF TypeOK, Ops, Places, Data
<1>2. ControlInv'
  BY DEF ControlInv, Control, TypeOK, Ops, Places
<1>3. OwnerInv'
  BY DEF OwnerInv, Owns, Mapped, ControlInv, Control, TypeOK
<1>4. QueueInv' /\ MemoryInv'
  BY DEF QueueInv, MemoryInv, Executed, Writes, ControlInv, Control, TypeOK
<1>5. TransfersAreCurrent'
  BY DEF TransfersAreCurrent, TypeOK
<1> QED BY <1>1, <1>2, <1>3, <1>4, <1>5

\* A loss leaves the client as it is.
LEMMA CutKeeps ==
  ASSUME IInv, Cut
  PROVE  IInv'
<1> USE DEF IInv, Cut, callVars
<1>1. TypeOK'
  <2>1. buffer' \in Data /\ mem' \in Data
    BY DEF Data
  <2>2. queue' \in Seq(Command)
    BY DEF TypeOK
  <2>3. open' \in BOOLEAN /\ refs' \in Nat
    OBVIOUS
  <2> QED BY <2>1, <2>2, <2>3 DEF TypeOK
<1>2. ControlInv' /\ OwnerInv'
  BY DEF ControlInv, Control, OwnerInv, Owns, Mapped
<1>3. QueueInv' /\ MemoryInv' /\ TransfersAreCurrent'
  BY DEF QueueInv, MemoryInv, TransfersAreCurrent
<1> QED BY <1>1, <1>2, <1>3

\* Every step keeps the invariant.
LEMMA NextKeeps ==
  ASSUME IInv, [Next]_vars
  PROVE  IInv'
<1>1. CASE UNCHANGED vars
  BY <1>1 DEF vars, callVars, clientVars, serverVars, IInv, TypeOK, ControlInv, Control,
              OwnerInv, Owns, Mapped, QueueInv, MemoryInv, Executed, Writes, TransfersAreCurrent
<1>2. ASSUME NEW t \in Threads, Map(t) \/ Unmap(t) \/ Transfer(t)
      PROVE  IInv'
  BY <1>2, MapKeeps, UnmapKeeps, TransferKeeps
<1>3. ASSUME NEW t \in Threads, Step(t)
      PROVE  IInv'
  BY <1>3, SendKeeps, FinishKeeps, DoneKeeps, MapRetainKeeps, UnmapDropKeeps, UnmapReleaseKeeps
     DEF Step
<1>4. CASE Touch \/ AppRelease \/ Execute \/ Cut
  BY <1>4, TouchKeeps, AppReleaseKeeps, ExecuteKeeps, CutKeeps
<1> QED BY <1>1, <1>2, <1>3, <1>4 DEF Next

\* The inductive invariant holds in every reachable state.
LEMMA Invariance == Spec => []IInv
BY InitIInv, NextKeeps, PTL DEF Spec

-----------------------------------------------------------------------------
(* The theorems. *)

\* A mapping stays in the list while a thread uses the reference that getMapping
\* gave it, and no two threads have the same one.
THEOREM MappingsAreNotPulledAway == Spec => []MappingsStay
<1>1. IInv => MappingsStay
  BY DEF IInv, OwnerInv, Owns, MappingsStay
<1> QED BY <1>1, Invariance, PTL

\* Blocking transfers, maps and unmaps carry values the buffer had meanwhile.
THEOREM CurrentTransfers == Spec => []TransfersAreCurrent
<1>1. IInv => TransfersAreCurrent
  BY DEF IInv
<1> QED BY <1>1, Invariance, PTL

\* Only unblocked writes and image reads outlive the memory of their handler.
THEOREM HandlerMemory == Spec => []HandlerMemoryIsSafe
<1>1. IInv => HandlerMemoryIsSafe
  BY DEF IInv, QueueInv, HandlerMemoryIsSafe
<1> QED BY <1>1, Invariance, PTL
-----------------------------------------------------------------------------
(* The references. *)

\* The mappings that were returned, and the threads that have dropped one.
Kept      == {p \in Mapped : \A t \in Threads : ~(op[t] = "map" /\ ptr[t] = p)}
Releasing == {t \in Threads : at[t] = "release"}

\* The balance in terms of these sets, before and after a step.
LEMMA BalanceOfSets ==
  /\ RetainsBalance <=>
       (open => refs = (IF appRef THEN 1 ELSE 0) + Cardinality(Kept) + Cardinality(Releasing))
  /\ RetainsBalance' <=>
       (open' => refs' = (IF appRef' THEN 1 ELSE 0) + Cardinality(Kept') + Cardinality(Releasing'))
BY DEF RetainsBalance, Kept, Releasing

\* Both sets can be counted.
LEMMA KeptIsFinite ==
  ASSUME IInv
  PROVE  /\ IsFiniteSet(Kept) /\ Cardinality(Kept) \in Nat
         /\ IsFiniteSet(Releasing) /\ Cardinality(Releasing) \in Nat
<1>1. Kept \subseteq Pointers /\ Releasing \subseteq Threads
  BY DEF Kept, Mapped, Releasing
<1>2. IsFiniteSet(Kept) /\ IsFiniteSet(Releasing)
  BY <1>1, FS_Subset, MappingAssumption DEF MappingAssumption
<1> QED BY <1>2, FS_CardinalityType

\* A step that leaves the references and the two sets alone keeps the balance.
LEMMA BalanceStays ==
  ASSUME RetainsBalance, Kept' = Kept, Releasing' = Releasing,
         UNCHANGED <<refs, open, appRef>>
  PROVE  RetainsBalance'
BY BalanceOfSets

\* While the application has its reference, or a thread is about to release
\* one, there is one to release.
LEMMA SomethingToRelease ==
  ASSUME IInv, RetainsBalance, open
  PROVE  /\ refs = (IF appRef THEN 1 ELSE 0) + Cardinality(Kept) + Cardinality(Releasing)
         /\ appRef \/ Releasing # {} => refs > 0
<1>1. refs = (IF appRef THEN 1 ELSE 0) + Cardinality(Kept) + Cardinality(Releasing)
  BY BalanceOfSets
<1>2. Releasing # {} => Cardinality(Releasing) > 0
  BY KeptIsFinite, FS_EmptySet
<1> QED BY <1>1, <1>2, KeptIsFinite DEF IInv, TypeOK

\* A transfer that failed has not retained anything.
LEMMA FailedBalances ==
  ASSUME IInv, RetainsBalance, NEW t \in Threads, Failed(t), at[t] # "release",
         UNCHANGED <<refs, open, appRef>>
  PROVE  RetainsBalance'
<1> USE DEF IInv, Failed, Return
<1>1. Releasing' = Releasing
  BY DEF Releasing, TypeOK
<1>2. Kept' = Kept
  <2>1. \A p \in Pointers : p # ptr[t] \/ op[t] # "map" => (p \in Mapped' <=> p \in Mapped)
    BY DEF Mapped, Dropped, TypeOK
  <2>2. op[t] = "map" => ptr[t] \notin Mapped' /\ ptr[t] \notin Kept
    BY DEF Mapped, Dropped, TypeOK, Kept
  <2>3. op'[t] = "none" /\ \A u \in Threads : u # t => op'[u] = op[u] /\ ptr'[u] = ptr[u]
    BY DEF TypeOK
  <2> QED BY <2>1, <2>2, <2>3 DEF Kept, Mapped
<1> QED BY <1>1, <1>2, BalanceStays

\* The reference that a map retains is that of its mapping.
LEMMA MapRetainBalances ==
  ASSUME IInv, RetainsBalance, NEW t \in Threads, MapRetain(t)
  PROVE  RetainsBalance'
<1> USE DEF IInv, MapRetain, Return
<1>1. op[t] = "map" /\ appRef /\ Owns(t)
  BY DEF ControlInv, Control, TypeOK, Ops, Places, Owns
<1>2. Releasing' = Releasing
  BY DEF Releasing, TypeOK
<1>3. ptr[t] \notin Kept /\ Kept' = Kept \cup {ptr[t]}
  <2>1. ptr[t] \in Mapped /\ Mapped' = Mapped
    BY <1>1 DEF OwnerInv, Mapped
  <2>2. \A u \in Threads : u # t /\ op[u] = "map" => ptr[u] # ptr[t]
    BY <1>1 DEF OwnerInv, Owns, ControlInv, Control
  <2>3. op'[t] = "none" /\ \A u \in Threads : u # t => op'[u] = op[u] /\ ptr'[u] = ptr[u]
    BY DEF TypeOK
  <2> QED BY <1>1, <2>1, <2>2, <2>3 DEF Kept
<1>4. Cardinality(Kept') = Cardinality(Kept) + 1
  BY <1>3, KeptIsFinite, FS_AddElement
<1>5. open => refs' = refs + 1
  BY <1>1, SomethingToRelease
<1> QED BY <1>2, <1>4, <1>5, KeptIsFinite, BalanceOfSets DEF TypeOK

\* A dropped mapping leaves its reference to the release that follows.
LEMMA UnmapDropBalances ==
  ASSUME IInv, RetainsBalance, NEW t \in Threads, UnmapDrop(t)
  PROVE  RetainsBalance'
<1>1. op[t] = "unmap" /\ Owns(t)
  BY DEF UnmapDrop, IInv, ControlInv, Control, TypeOK, Ops, Places, Owns
<1>2. t \notin Releasing /\ Releasing' = Releasing \cup {t}
  BY DEF UnmapDrop, Goto, IInv, Releasing, TypeOK
<1>3. ptr[t] \in Kept /\ Kept' = Kept \ {ptr[t]}
  <2>1. ptr[t] \in Mapped /\ Mapped' = Mapped \ {ptr[t]}
    BY <1>1 DEF UnmapDrop, IInv, OwnerInv, Mapped, Dropped, TypeOK
  <2>2. \A u \in Threads : op[u] = "map" => ptr[u] # ptr[t]
    BY <1>1 DEF IInv, OwnerInv, Owns, ControlInv, Control
  <2> QED BY <2>1, <2>2 DEF UnmapDrop, Kept
<1>4. Cardinality(Kept') = Cardinality(Kept) - 1
  BY <1>3, KeptIsFinite, FS_RemoveElement
<1>5. Cardinality(Releasing') = Cardinality(Releasing) + 1
  BY <1>2, KeptIsFinite, FS_AddElement
<1>6. UNCHANGED <<refs, open, appRef>> /\ refs \in Nat
  BY DEF UnmapDrop, serverVars, IInv, TypeOK
<1> QED BY <1>4, <1>5, <1>6, KeptIsFinite, BalanceOfSets

\* The release takes that reference.
LEMMA UnmapReleaseBalances ==
  ASSUME IInv, RetainsBalance, NEW t \in Threads, UnmapRelease(t)
  PROVE  RetainsBalance'
<1>1. op[t] = "unmap"
  BY DEF UnmapRelease, IInv, ControlInv, Control, TypeOK, Ops, Places
<1>2. t \in Releasing /\ Releasing' = Releasing \ {t}
  BY DEF UnmapRelease, Return, IInv, Releasing, TypeOK
<1>3. Kept' = Kept
  BY <1>1 DEF UnmapRelease, Return, clientVars, IInv, Kept, Mapped, TypeOK
<1>4. Cardinality(Releasing') = Cardinality(Releasing) - 1
  BY <1>2, KeptIsFinite, FS_RemoveElement
<1>5. open => refs' = refs - 1
  BY <1>2, SomethingToRelease DEF UnmapRelease
<1>6. UNCHANGED <<open, appRef>> /\ refs \in Nat
  BY DEF UnmapRelease, clientVars, IInv, TypeOK
<1> QED BY <1>3, <1>4, <1>5, <1>6, KeptIsFinite, BalanceOfSets

\* The application's reference goes.
LEMMA AppReleaseBalances ==
  ASSUME IInv, RetainsBalance, AppRelease
  PROVE  RetainsBalance'
<1> USE DEF IInv, AppRelease, callVars
<1>1. Kept' = Kept /\ Releasing' = Releasing
  BY DEF Kept, Mapped, Releasing
<1>2. open => refs' = refs - 1
  BY SomethingToRelease
<1> QED BY <1>1, <1>2, KeptIsFinite, BalanceOfSets DEF TypeOK

\* Every step keeps the balance.
LEMMA NextBalances ==
  ASSUME IInv, RetainsBalance, [Next]_vars
  PROVE  RetainsBalance'
<1> USE DEF IInv
<1>1. ASSUME NEW t \in Threads, Map(t)
      PROVE  RetainsBalance'
  <2>1. PICK p \in Pointers \ Mapped, f \in MapFlags :
          /\ mMappings' = [mMappings EXCEPT ![p] = f]
          /\ ptr' = [ptr EXCEPT ![t] = p]
    BY <1>1 DEF Map
  <2>2. Releasing' = Releasing /\ UNCHANGED <<refs, open, appRef>>
    BY <1>1 DEF Map, Goto, serverVars, Releasing, TypeOK
  <2>3. op[t] = "none" /\ op'[t] = "map" /\ ptr'[t] = p
    BY <1>1, <2>1 DEF Map, ControlInv, Control, TypeOK
  <2>4. \A u \in Threads : u # t => op'[u] = op[u] /\ ptr'[u] = ptr[u]
    BY <1>1, <2>1 DEF Map, TypeOK
  <2>5. \A q \in Pointers : q # p => (q \in Mapped' <=> q \in Mapped)
    BY <2>1 DEF Mapped, TypeOK
  <2>6. Kept' = Kept
    BY <2>1, <2>3, <2>4, <2>5 DEF Kept, Mapped
  <2> QED BY <2>2, <2>6, BalanceStays
<1>2. ASSUME NEW t \in Threads, Unmap(t) \/ Transfer(t) \/ Done(t)
      PROVE  RetainsBalance'
  <2>1. /\ UNCHANGED <<refs, open, appRef, mMappings>>
        /\ at[t] # "release" /\ at'[t] # "release" /\ \A u \in Threads \ {t} : at'[u] = at[u]
    BY <1>2 DEF Unmap, Transfer, Done, Return, Goto, clientVars, serverVars, TypeOK
  <2>2. op[t] # "map" /\ op'[t] # "map"
    BY <1>2 DEF Unmap, Transfer, Done, Return, ControlInv, Control, TypeOK
  <2>3. \A u \in Threads : u # t => op'[u] = op[u] /\ ptr'[u] = ptr[u]
    BY <1>2 DEF Unmap, Transfer, Done, Return, TypeOK
  <2>4. Kept' = Kept /\ Releasing' = Releasing
    BY <2>1, <2>2, <2>3 DEF Kept, Mapped, Releasing
  <2> QED BY <2>1, <2>4, BalanceStays
<1>3. ASSUME NEW t \in Threads, Send(t) \/ Finish(t)
      PROVE  RetainsBalance'
  <2>1. at[t] # "release" /\ UNCHANGED <<refs, open, appRef>>
    BY <1>3 DEF Send, Finish
  <2>2. CASE Failed(t)
    BY <2>1, <2>2, FailedBalances
  <2>3. CASE ~Failed(t)
    <3>1. /\ UNCHANGED <<op, ptr, mMappings>>
          /\ at'[t] # "release" /\ \A u \in Threads \ {t} : at'[u] = at[u]
      BY <1>3, <2>3 DEF Send, Finish, Goto, TypeOK
    <3>2. Kept' = Kept /\ Releasing' = Releasing
      BY <2>1, <3>1 DEF Kept, Mapped, Releasing
    <3> QED BY <2>1, <3>2, BalanceStays
  <2> QED BY <2>2, <2>3
<1>4. ASSUME NEW t \in Threads, MapRetain(t) \/ UnmapDrop(t) \/ UnmapRelease(t)
      PROVE  RetainsBalance'
  BY <1>4, MapRetainBalances, UnmapDropBalances, UnmapReleaseBalances
<1>5. CASE Touch \/ Execute \/ UNCHANGED vars
  <2>1. UNCHANGED <<refs, open, appRef, mMappings, op, at, ptr>>
    BY <1>5 DEF Touch, Execute, vars, callVars, clientVars, serverVars
  <2>2. Kept' = Kept /\ Releasing' = Releasing
    BY <2>1 DEF Kept, Mapped, Releasing
  <2> QED BY <2>1, <2>2, BalanceStays
<1>6. CASE AppRelease
  BY <1>6, AppReleaseBalances
<1>7. CASE Cut
  BY <1>7 DEF Cut, RetainsBalance
<1> QED BY <1>1, <1>2, <1>3, <1>4, <1>5, <1>6, <1>7 DEF Next, Step

\* A new buffer has the reference of the application.
LEMMA InitBalances == Init => RetainsBalance
<1> SUFFICES ASSUME Init PROVE RetainsBalance
  OBVIOUS
<1>1. Kept = {} /\ Releasing = {}
  BY DEF Init, Kept, Mapped, Releasing
<1> QED BY <1>1, FS_EmptySet, BalanceOfSets DEF Init

\* The server counts one reference for the application and one for each mapping
\* that was returned and not yet released, whatever threads map, unmap, fail
\* and release at once.
THEOREM ReferencesBalance == Spec => []RetainsBalance
BY InitBalances, NextBalances, Invariance, PTL DEF Spec
=============================================================================

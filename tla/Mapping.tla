------------------------------- MODULE Mapping -------------------------------
(***************************************************************************)
(* Mapped memory.  The server knows nothing of a mapping: clEnqueueMap-    *)
(* Buffer reads the buffer into memory of the client and retains it, and   *)
(* clEnqueueUnmapMemObject writes the memory back and releases the buffer. *)
(* Each is several calls to the server, between which other threads map,   *)
(* unmap, read, write and release the same buffer.                         *)
(*                                                                         *)
(* One buffer with one value is modelled, which the driver's in-order      *)
(* queue reads and writes.  A transfer holds the connection's lock from    *)
(* its request to its reply; the conversation itself, and the waiting for  *)
(* event lists, is in ApiProtocol.                                         *)
(***************************************************************************)
EXTENDS Integers, Sequences, FiniteSets

CONSTANTS Threads,   \* threads of the application
          Nobody,    \* no thread: the connection's lock is free
          Pointers,  \* blocks of the client's heap
          Values,    \* what the application writes
          MapFlags,  \* the flags it maps with: sets of "r" and "w"
          Pending    \* bound: commands in the driver's queue

Raw  == "raw"   \* what is in memory that was never written, or was freed
Data == Values \cup {Raw}

ASSUME MappingAssumption ==
  /\ Nobody \notin Threads
  /\ IsFiniteSet(Threads) /\ IsFiniteSet(Pointers)
  /\ Raw \notin Values
  /\ MapFlags \subseteq SUBSET {"r", "w"}
  /\ Pending \in Nat \ {0}

VARIABLES
  op,        \* op[t]: the call thread t is in
  at,        \* at[t]: where in it
  ptr,       \* ptr[t]: the mapping it is about
  val,       \* val[t]: what it writes, or has read
  block,     \* block[t]: its transfer is blocking
  mMappings, \* the flags of the mappings in MemObject::mMappings, by pointer
  data,      \* the mapped memory
  given,     \* the pointers the application has, of mappings it has not unmapped
  appRef,    \* the application still has its own reference to the buffer
  conn,      \* the thread that holds the connection's lock
  open,      \* the connection works
  refs,      \* references to the buffer at the server
  buffer,    \* its value
  queue,     \* the driver's commands: what, the value, whether its memory is still there
  mem,       \* the memory of the handler that is running
  seen       \* seen[t]: the values the buffer had during the transfer of t

callVars == <<op, at, ptr, val, block>>
clientVars == <<mMappings, data, given, appRef, conn, open>>
serverVars == <<refs, buffer, queue, mem>>
vars == <<callVars, clientVars, serverVars, seen>>

NoMapping == {"none"}
Mapped == {p \in Pointers : mMappings[p] # NoMapping}

AnyPointer == CHOOSE p \in Pointers : TRUE

Init ==
  /\ op = [t \in Threads |-> "none"]
  /\ at = [t \in Threads |-> "idle"]
  /\ ptr = [t \in Threads |-> AnyPointer]
  /\ val = [t \in Threads |-> Raw]
  /\ block = [t \in Threads |-> TRUE]
  /\ mMappings = [p \in Pointers |-> NoMapping]
  /\ data = [p \in Pointers |-> Raw]
  /\ given = {} /\ appRef = TRUE
  /\ conn = Nobody /\ open = TRUE
  /\ refs = 1 /\ buffer \in Data /\ queue = << >> /\ mem = Raw
  /\ seen = [t \in Threads |-> {}]

Goto(t, a) == at' = [at EXCEPT ![t] = a]

\* A thread that is in no call has nothing.
Return(t) ==
  /\ at' = [at EXCEPT ![t] = "idle"]
  /\ op' = [op EXCEPT ![t] = "none"]
  /\ ptr' = [ptr EXCEPT ![t] = AnyPointer]
  /\ val' = [val EXCEPT ![t] = Raw]
  /\ block' = [block EXCEPT ![t] = TRUE]
  /\ seen' = [seen EXCEPT ![t] = {}]

-----------------------------------------------------------------------------
(* The application. *)

\* clEnqueueMapBuffer begins with getMapping(size, offset, flags): new memory
\* in the list of the buffer.  A map for writing only has no transfer.
\* The map is non-blocking: a blocking one asks for no less.
Map(t) ==
  /\ at[t] = "idle" /\ appRef
  /\ \E p \in Pointers \ Mapped, f \in MapFlags :
       /\ mMappings' = [mMappings EXCEPT ![p] = f]
       /\ data' = [data EXCEPT ![p] = Raw]
       /\ ptr' = [ptr EXCEPT ![t] = p]
       /\ block' = [block EXCEPT ![t] = FALSE]
       /\ Goto(t, IF "r" \in f THEN "transfer" ELSE "retain")
  /\ op' = [op EXCEPT ![t] = "map"]
  /\ val' = [val EXCEPT ![t] = Raw]
  /\ UNCHANGED <<given, appRef, conn, open, serverVars, seen>>

\* clEnqueueUnmapMemObject begins with getMapping(ptr); a pointer that is not in
\* the list is CL_INVALID_VALUE, an event for a mapping that is not written back
\* CL_INVALID_OPERATION.  The application does not unmap a mapping twice at the
\* same time.
Unmap(t) ==
  /\ at[t] = "idle"
  /\ \E p \in Pointers :
       \/ /\ p \notin Mapped \/ (p \in given /\ "w" \notin mMappings[p])
          /\ UNCHANGED <<op, at, ptr, val, given>>
       \/ /\ p \in given
          /\ op' = [op EXCEPT ![t] = "unmap"]
          /\ ptr' = [ptr EXCEPT ![t] = p]
          /\ val' = [val EXCEPT ![t] = data[p]]
          /\ given' = given \ {p}
          /\ Goto(t, IF "w" \in mMappings[p] THEN "transfer" ELSE "drop")
  /\ UNCHANGED <<block, mMappings, data, appRef, conn, open, serverVars, seen>>

\* clEnqueueWriteBuffer and clEnqueueWriteImage; clEnqueueReadImage, whose
\* handler need not block, while that of clEnqueueReadBuffer, which a map calls,
\* always does.
Transfer(t) ==
  /\ at[t] = "idle" /\ appRef
  /\ \E b \in BOOLEAN : block' = [block EXCEPT ![t] = b]
  /\ \/ /\ op' = [op EXCEPT ![t] = "readImage"]
        /\ val' = [val EXCEPT ![t] = Raw]
     \/ /\ op' = [op EXCEPT ![t] = "write"]
        /\ \E v \in Values : val' = [val EXCEPT ![t] = v]
  /\ Goto(t, "transfer")
  /\ UNCHANGED <<ptr, clientVars, serverVars, seen>>

\* The application writes to mapped memory.
Touch ==
  /\ \E p \in given, v \in Values : data' = [data EXCEPT ![p] = v]
  /\ UNCHANGED <<callVars, mMappings, given, appRef, conn, open, serverVars, seen>>

\* clReleaseMemObject of the application's own reference, when it is in no call
\* with the buffer: "it is possible that an application releases the buffer
\* expecting the mapping to be preserved" (memory.cpp line 120).
AppRelease ==
  /\ appRef /\ conn = Nobody
  /\ \A t \in Threads : op[t] \in {"none", "unmap"}
  /\ appRef' = FALSE
  /\ refs' = IF open /\ refs > 0 THEN refs - 1 ELSE refs
  /\ UNCHANGED <<callVars, mMappings, data, given, conn, open, buffer, queue, mem, seen>>

-----------------------------------------------------------------------------
(* A transfer: the lock, the handler, the driver, the reply. *)

Writes(o) == o \in {"write", "unmap"}

\* dropMapping: the memory is freed.
Dropped(p) == [mMappings EXCEPT ![p] = NoMapping]

\* Mutated form: an unmap that failed drops its mapping too.
FailedDrops(t) ==
  /\ Return(t)
  /\ mMappings' = IF op[t] \in {"map", "unmap"} THEN Dropped(ptr[t]) ELSE mMappings
  /\ given' = IF op[t] = "unmap" THEN given \cup {ptr[t]} ELSE given
  /\ UNCHANGED data

\* What follows a transfer that failed: a map drops its mapping and reports
\* CL_INVALID_VALUE; an unmap returns and leaves its mapping in the list.
Failed(t) ==
  /\ Return(t)
  /\ mMappings' = IF op[t] = "map" THEN Dropped(ptr[t]) ELSE mMappings
  /\ given' = IF op[t] = "unmap" THEN given \cup {ptr[t]} ELSE given
  /\ UNCHANGED data

\* gConnection.get(), the request, and the handler up to the driver's call.  The
\* connection may be lost, and the driver may refuse, say a mapping that is out
\* of bounds.
Send(t) ==
  /\ at[t] = "transfer" /\ conn = Nobody
  /\ \/ /\ open /\ refs > 0 /\ Len(queue) < Pending
        /\ conn' = t
        /\ queue' = Append(queue, [op |-> op[t], val |-> val[t], live |-> TRUE])
        /\ mem' = IF Writes(op[t]) THEN val[t] ELSE Raw
        /\ seen' = [seen EXCEPT ![t] = {buffer}]
        /\ Goto(t, "sent")
        /\ UNCHANGED <<op, ptr, val, block, mMappings, data, given>>
     \/ Failed(t) /\ UNCHANGED <<conn, queue, mem>>
  /\ UNCHANGED <<appRef, open, refs, buffer>>

\* The driver executes the oldest command.  The memory of a command that is not
\* live was freed: a write takes what is there, a read overwrites it.
Execute ==
  /\ queue # << >>
  /\ LET c == Head(queue)
     IN  /\ \/ Writes(c.op) /\ c.live /\ buffer' = c.val
            \/ Writes(c.op) /\ ~c.live /\ buffer' \in {c.val, Raw}
            \/ ~Writes(c.op) /\ UNCHANGED buffer
         /\ mem' = IF ~Writes(c.op) /\ c.live THEN buffer ELSE mem
  /\ queue' = Tail(queue)
  /\ seen' = [t \in Threads |-> IF at[t] = "sent" THEN seen[t] \cup {buffer'} ELSE seen[t]]
  /\ UNCHANGED <<callVars, clientVars, refs>>

\* The command of the handler that is running is the last one.
Executed == \A i \in DOMAIN queue : ~queue[i].live

\* Mutated form: the handlers of writes do not block.
ServerWritesLater(t) == op[t] = "map"

\* Mutated form: the handler of a read waits only when it is asked to.
ServerBlocksAsAsked(t) == block[t]

\* readBuffer blocks whatever the client asked for.
ServerBlocks(t) == block[t] \/ op[t] = "map"

\* The driver's call returns, the reply is sent and read, and the handler frees
\* its memory, whether or not the command has been executed.
Finish(t) ==
  /\ at[t] = "sent" /\ conn = t
  /\ conn' = Nobody
  /\ \/ /\ open
        /\ ServerBlocks(t) => Executed
        /\ queue' = [i \in DOMAIN queue |-> [queue[i] EXCEPT !.live = FALSE]]
        /\ data' = IF op[t] = "map" THEN [data EXCEPT ![ptr[t]] = mem] ELSE data
        /\ val' = [val EXCEPT ![t] = mem]
        /\ mem' = Raw
        /\ \/ op[t] = "map" /\ Goto(t, "retain") /\ UNCHANGED <<op, ptr, block>>
           \/ op[t] = "unmap" /\ Goto(t, "drop") /\ UNCHANGED <<op, ptr, block>>
           \/ op[t] \notin {"map", "unmap"} /\ Goto(t, "done") /\ UNCHANGED <<op, ptr, block>>
        /\ UNCHANGED <<mMappings, given, seen>>
     \/ ~open /\ Failed(t) /\ UNCHANGED <<queue, mem>>
  /\ UNCHANGED <<appRef, open, refs, buffer>>

\* The call returns to the application.
Done(t) ==
  /\ at[t] = "done"
  /\ Return(t)
  /\ UNCHANGED <<clientVars, serverVars>>

-----------------------------------------------------------------------------
(* The rest of a map and of an unmap. *)

\* Mutated form: the buffer is not retained.
MapWithoutRetain(t) ==
  /\ at[t] = "retain" /\ conn = Nobody
  /\ given' = given \cup {ptr[t]}
  /\ Return(t)
  /\ UNCHANGED <<mMappings, data, appRef, conn, open, serverVars>>

\* clRetainMemObject, whose result is not looked at; the pointer is returned.
MapRetain(t) ==
  /\ at[t] = "retain" /\ conn = Nobody
  /\ refs' = IF open /\ refs > 0 THEN refs + 1 ELSE refs
  /\ given' = given \cup {ptr[t]}
  /\ Return(t)
  /\ UNCHANGED <<mMappings, data, appRef, conn, open, buffer, queue, mem>>

\* dropMapping(mapped_ptr)
UnmapDrop(t) ==
  /\ at[t] = "drop"
  /\ mMappings' = Dropped(ptr[t])
  /\ data' = [data EXCEPT ![ptr[t]] = Raw]
  /\ Goto(t, "release")
  /\ UNCHANGED <<op, ptr, val, block, given, appRef, conn, open, serverVars, seen>>

\* clReleaseMemObject: "Mirror the clRetain on the MapMemObject".
UnmapRelease(t) ==
  /\ at[t] = "release" /\ conn = Nobody
  /\ refs' = IF open /\ refs > 0 THEN refs - 1 ELSE refs
  /\ Return(t)
  /\ UNCHANGED <<clientVars, buffer, queue, mem>>

\* The connection is lost; the server's process ends, and with it the buffer.
Cut ==
  /\ open /\ open' = FALSE
  /\ refs' = 0 /\ buffer' = Raw /\ queue' = << >> /\ mem' = Raw
  /\ UNCHANGED <<callVars, mMappings, data, given, appRef, conn, seen>>

Step(t) == Send(t) \/ Finish(t) \/ Done(t) \/ MapRetain(t) \/ UnmapDrop(t) \/ UnmapRelease(t)

Next ==
  \/ \E t \in Threads : Map(t) \/ Unmap(t) \/ Transfer(t) \/ Step(t)
  \/ Touch \/ AppRelease \/ Execute \/ Cut

Spec == Init /\ [][Next]_vars
-----------------------------------------------------------------------------
(* Properties. *)

\* While the connection lasts, the server counts the application's reference and
\* one for each mapping that was returned and not released: failures, and
\* threads that map and unmap at once, leave no reference behind and take none
\* too many ("Mirror the clRetain", memory.cpp line 286).
RetainsBalance ==
  open => refs = (IF appRef THEN 1 ELSE 0)
                 + Cardinality({p \in Mapped : \A t \in Threads : ~(op[t] = "map" /\ ptr[t] = p)})
                 + Cardinality({t \in Threads : at[t] = "release"})

\* The reference to a mapping that getMapping returns is used after the list's
\* mutex is released (memory.cpp lines 101 and 262): the mapping stays in the
\* list, and belongs to one thread, until that thread drops it.
MappingsStay ==
  /\ \A t \in Threads : op[t] \in {"map", "unmap"} /\ at[t] # "release" => ptr[t] \in Mapped
  /\ \A t, u \in Threads : t # u /\ {op[t], op[u]} \subseteq {"map", "unmap"}
       /\ at[t] # "release" /\ at[u] # "release" => ptr[t] # ptr[u]
  /\ given \subseteq Mapped

\* A blocking transfer, a map or an unmap carries the data of its own time: what
\* was read is a value the buffer had during the call, and what was written has
\* been the buffer's value before the mapping is dropped and the handler's memory
\* is freed.  Not so a non-blocking image read, whose reply may be sent before
\* the driver has written the data (image.cpp lines 126 and 138), nor a
\* non-blocking write (memory.cpp line 170).
TransfersAreCurrent ==
  \A t \in Threads :
    \/ op[t] \in {"readImage", "write"} /\ at[t] = "done" /\ block[t]
    \/ op[t] = "map" /\ at[t] = "retain" /\ "r" \in mMappings[ptr[t]]
    \/ op[t] = "unmap" /\ at[t] = "drop" /\ "w" \in mMappings[ptr[t]]
    => val[t] \in seen[t]

\* The driver never has a command whose memory is gone, except the non-blocking
\* writes and image reads: "We don't support background reading of buffer data,
\* so block the command" (server/memory.cpp line 92), whatever a map asks for.
HandlerMemoryIsSafe ==
  \A i \in DOMAIN queue :
    \/ queue[i].live
    \/ queue[i].op \in {"write", "readImage"}
=============================================================================

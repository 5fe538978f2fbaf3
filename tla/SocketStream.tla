---------------------------- MODULE SocketStream ----------------------------
(***************************************************************************)
(* One direction of a RemoteCL connection (common/socketstream.{h,cpp},    *)
(* common/socket.cpp): the write half of the sender's SocketStream, the    *)
(* TCP socket and the read half of the receiver's SocketStream.            *)
(*                                                                         *)
(* A byte is named by its position in the stream of bytes handed to        *)
(* write(): byte 1 is the first.  The two char arrays are kept with their  *)
(* offsets, so copying to or from a wrong place shows as a wrong name.     *)
(*                                                                         *)
(* The two halves belong to different processes.  Each of them acts on the *)
(* other only through the socket, so one step of the model is one loop     *)
(* iteration, or what the kernel does of one socket call at a time: send() *)
(* takes its bytes piece by piece, as the socket has room for them.        *)
(***************************************************************************)
EXTENDS Naturals, Sequences

CONSTANTS BufferSize,   \* SocketStream::BufferSize (1024 in the code)
          SocketRoom,   \* bytes the kernels of both ends hold before send() blocks
          MaxBytes,     \* bound: how many bytes the application writes
          WriteSizes,   \* the sizes write() is called with
          ReadSizes     \* the sizes read() is called with

ASSUME SizesAssumption ==
  /\ BufferSize \in Nat \ {0}
  /\ SocketRoom \in Nat \ {0}
  /\ MaxBytes \in Nat
  /\ WriteSizes \subseteq Nat \ {0}
  /\ ReadSizes \subseteq Nat \ {0}

VARIABLES
  mWriteBuffer, mWriteOffset,  \* the sender's buffer and how much of it is used
  written,      \* how many bytes the application called write() with
  left,         \* leftToWrite of the write() under way (n, if it is direct)
  wpc,          \* "idle", "loop" and "full" (write, lines 88 and 103), "direct"
                \* (write, line 77), "flush" (flush()) or "aborted"
  iterations,   \* iterations of the loop in this call of write(), up to 3
  sent,         \* bytes of the send() under way that the kernel has taken
  wire,         \* all bytes the connection accepted and will not lose
  received,     \* how many of them recv() has returned
  conn,         \* "open", "reset" (the next recv fails) or "eof" (recv gives 0)
  mReadBuffer, mReadOffset, mAvailable,  \* the receiver's buffer
  count,        \* what is left to read of the read() under way
  rpc,          \* "idle" or "read"
  out           \* every byte read() has copied to its callers

writerVars == <<mWriteBuffer, mWriteOffset, written, left, wpc, iterations, sent>>
readerVars == <<received, mReadBuffer, mReadOffset, mAvailable, count, rpc, out>>
vars == <<writerVars, wire, conn, readerVars>>

-----------------------------------------------------------------------------
Positions == 0 .. BufferSize - 1

\* Mutated form: the limit is forgotten.
MinimumIgnored(a, b) == b

Minimum(a, b) == IF a < b THEN a ELSE b

\* The k bytes of buffer from offset on: the source of a memcpy or a send.
Slice(buffer, offset, k) == [i \in 1..k |-> buffer[offset + i - 1]]

\* memcpy(&buffer[offset], bytes, Len(bytes))
CopyInto(buffer, offset, bytes) ==
  [i \in Positions |-> IF i \in offset .. offset + Len(bytes) - 1
                       THEN bytes[i - offset + 1] ELSE buffer[i]]

\* Mutated form: the comparison is off by one.
FullTooLate(offset) == offset > BufferSize

\* write(), line 102.
Full(offset) == offset = BufferSize

\* The next k bytes of the application's data, at the cursor s of write().
Source(k) == [i \in 1..k |-> written - left + i]

Init ==
  /\ mWriteBuffer = [i \in Positions |-> 0] /\ mWriteOffset = 0
  /\ written = 0 /\ left = 0 /\ wpc = "idle" /\ iterations = 0
  /\ sent = 0 /\ wire = << >> /\ conn = "open" /\ received = 0
  /\ mReadBuffer = [i \in Positions |-> 0] /\ mReadOffset = 0 /\ mAvailable = 0
  /\ count = 0 /\ rpc = "idle" /\ out = << >>

-----------------------------------------------------------------------------
(* The socket: Socket::send and Socket::receive over a blocking TCP socket. *)

\* How many bytes the kernels can still take.
Room == SocketRoom - (Len(wire) - received)

\* Socket::send is blocked in send(): of its bytes the rest is not yet taken,
\* and the kernel takes k of them, but not the last.
SendGoesOn(rest, k) ==
  /\ conn = "open"
  /\ k < Len(rest) /\ k <= Room
  /\ wire' = wire \o SubSeq(rest, 1, k)
  /\ sent' = sent + k

\* Socket::send returns: the last bytes are on the wire, or the connection is
\* gone and the kernel took them without an error.
SendReturns(rest) ==
  /\ \/ conn = "open" /\ Len(rest) <= Room /\ wire' = wire \o rest
     \/ conn # "open" /\ UNCHANGED wire
  /\ sent' = 0

\* Socket::send throws Socket::Error: only a lost connection makes it fail, and
\* only before any byte was taken.
SendThrows == conn # "open" /\ sent = 0 /\ UNCHANGED <<wire, sent>>

\* The connection was lost after a part was taken: send() returns less than it
\* was given, and the assertion of Socket::send (line 144) ends the process.
SendAborts ==
  /\ conn # "open" /\ sent # 0
  /\ wpc' = "aborted"
  /\ UNCHANGED <<wire, sent>>

\* The connection is lost, by an orderly close or by a reset.  Bytes that were
\* on their way and not yet received may be lost, from some byte on.
Cut ==
  /\ conn = "open"
  /\ conn' \in {"eof", "reset"}
  /\ \E n \in received .. Len(wire) : wire' = SubSeq(wire, 1, n)
  /\ UNCHANGED <<writerVars, readerVars>>

-----------------------------------------------------------------------------
(* The sender. *)

\* Mutated form: large writes are buffered too.
WriteAlwaysBuffered(n) ==
  /\ wpc = "idle"
  /\ written + n <= MaxBytes
  /\ written' = written + n
  /\ left' = n
  /\ wpc' = "loop"
  /\ iterations' = 0
  /\ UNCHANGED <<mWriteBuffer, mWriteOffset, sent, wire, conn, readerVars>>

\* SocketStream::write is called with n bytes.
Write(n) ==
  /\ wpc = "idle"
  /\ written + n <= MaxBytes
  /\ written' = written + n
  /\ left' = n
  /\ wpc' = IF n >= BufferSize THEN "direct" ELSE "loop"
  /\ iterations' = 0
  /\ UNCHANGED <<mWriteBuffer, mWriteOffset, sent, wire, conn, readerVars>>

\* A throw of Socket::Error leaves write() or flush(); the offset is not reset
\* and the rest of the caller's bytes is not looked at.
Abandon ==
  /\ wpc' = "idle"
  /\ left' = 0

\* Where flushWriteBuffer() is called from, and where its caller goes on:
\* flush(), write() with a full buffer and write() before a large write.
AfterFlush == [flush |-> "idle", full |-> "loop", direct |-> "direct"]

\* Mutated form: the offset is not reset.
FlushKeepsOffset ==
  LET rest == Slice(mWriteBuffer, sent, mWriteOffset - sent)
  IN  /\ wpc \in DOMAIN AfterFlush /\ mWriteOffset # 0
      /\ \/ /\ \E k \in 1 .. mWriteOffset : SendGoesOn(rest, k)
            /\ UNCHANGED <<left, wpc>>
         \/ /\ SendReturns(rest)
            /\ wpc' = AfterFlush[wpc]
            /\ UNCHANGED left
         \/ SendThrows /\ Abandon
         \/ SendAborts /\ UNCHANGED left
      /\ UNCHANGED <<mWriteBuffer, mWriteOffset, written, iterations, conn, readerVars>>

\* flushWriteBuffer(): the buffer goes to Socket::send and is empty when that
\* returns.
FlushWriteBuffer ==
  LET rest == Slice(mWriteBuffer, sent, mWriteOffset - sent)
  IN  /\ wpc \in DOMAIN AfterFlush /\ mWriteOffset # 0
      /\ \/ /\ \E k \in 1 .. mWriteOffset : SendGoesOn(rest, k)
            /\ UNCHANGED <<mWriteOffset, left, wpc>>
         \/ /\ SendReturns(rest)
            /\ mWriteOffset' = 0
            /\ wpc' = AfterFlush[wpc]
            /\ UNCHANGED left
         \/ SendThrows /\ Abandon /\ UNCHANGED mWriteOffset
         \/ SendAborts /\ UNCHANGED <<mWriteOffset, left>>
      /\ UNCHANGED <<mWriteBuffer, written, iterations, conn, readerVars>>

\* The rest of a large write, which send() takes from the caller's memory.
DirectRest == SubSeq(Source(left), sent + 1, left)

\* Mutated form: what is buffered is overtaken.
WriteDirectAtOnce ==
  /\ wpc = "direct"
  /\ \/ (\E k \in 1 .. left : SendGoesOn(DirectRest, k)) /\ UNCHANGED <<left, wpc>>
     \/ (SendReturns(DirectRest) \/ SendThrows) /\ Abandon
     \/ SendAborts /\ UNCHANGED left
  /\ UNCHANGED <<mWriteBuffer, mWriteOffset, written, iterations, conn, readerVars>>

\* write(), line 80: a large write goes straight to the socket, and write()
\* returns.
WriteDirect ==
  /\ wpc = "direct" /\ mWriteOffset = 0
  /\ \/ (\E k \in 1 .. left : SendGoesOn(DirectRest, k)) /\ UNCHANGED <<left, wpc>>
     \/ SendReturns(DirectRest) /\ left' = 0 /\ wpc' = "idle"
     \/ SendThrows /\ Abandon
     \/ SendAborts /\ UNCHANGED left
  /\ UNCHANGED <<mWriteBuffer, mWriteOffset, written, iterations, conn, readerVars>>

\* write(), lines 88-108: one iteration.  What fits is copied; a buffer that
\* became full is flushed at once.
WriteLoop ==
  LET writeSize == Minimum(BufferSize - mWriteOffset, left)
      end       == mWriteOffset + writeSize
  IN  /\ wpc = "loop" /\ left # 0
      /\ mWriteBuffer' = CopyInto(mWriteBuffer, mWriteOffset, Source(writeSize))
      /\ mWriteOffset' = end
      /\ left' = left - writeSize
      /\ wpc' = IF Full(end) THEN "full" ELSE "loop"
      /\ iterations' = Minimum(iterations + 1, 3)
      /\ UNCHANGED <<written, sent, wire, conn, readerVars>>

\* write() returns.
WriteReturn ==
  /\ wpc = "loop" /\ left = 0
  /\ wpc' = "idle"
  /\ UNCHANGED <<mWriteBuffer, mWriteOffset, written, left, iterations, sent, wire, conn, readerVars>>

\* SocketStream::flush is called, between two writes.
Flush ==
  /\ wpc = "idle" /\ mWriteOffset # 0
  /\ wpc' = "flush"
  /\ UNCHANGED <<mWriteBuffer, mWriteOffset, written, left, iterations, sent, wire, conn, readerVars>>

-----------------------------------------------------------------------------
(* The receiver. *)

\* Mutated form: receive waits until it can fill its buffer.
ReceiveAll(limit, n) ==
  /\ n = limit /\ n <= Len(wire) - received
  /\ received' = received + n
  /\ UNCHANGED conn

\* Socket::receive returns n bytes out of those on the wire: recv blocks until
\* there is one and gives at most `limit`.
Receive(limit, n) ==
  /\ n \in 1 .. Minimum(limit, Len(wire) - received)
  /\ received' = received + n
  /\ UNCHANGED conn

\* Socket::receive returns 0: the peer's end of the stream.
ReceiveEnd ==
  /\ received = Len(wire) /\ conn = "eof"
  /\ UNCHANGED <<received, conn>>

\* Socket::receive throws Socket::Error.  The error of a socket is reported
\* once; after that recv returns 0.
ReceiveThrows ==
  /\ received = Len(wire) /\ conn = "reset"
  /\ conn' = "eof"
  /\ UNCHANGED received

\* SocketStream::read is called for n bytes.
Read(n) ==
  /\ rpc = "idle"
  /\ rpc' = "read" /\ count' = n
  /\ UNCHANGED <<received, mReadBuffer, mReadOffset, mAvailable, out, wire, conn, writerVars>>

\* Mutated form: no data is not an error.
ReadThrowNot == UNCHANGED <<rpc, count>>

\* read() throws Socket::Error.
ReadThrow == rpc' = "idle" /\ count' = 0

\* readMoreData(): the buffer is empty and is filled from its start.
Refill ==
  /\ mReadOffset' = 0
  /\ \/ \E n \in 1 .. BufferSize :
           /\ Receive(BufferSize, n)
           /\ mReadBuffer' = CopyInto(mReadBuffer, 0, Slice(wire, received + 1, n))
           /\ mAvailable' = n
     \/ ReceiveEnd /\ UNCHANGED <<mReadBuffer, mAvailable>>
     \/ ReceiveThrows /\ UNCHANGED <<mReadBuffer, mAvailable>>

\* Mutated form: a large read overtakes the bytes in the buffer.
ReadDirectAtOnce ==
  /\ rpc = "read" /\ count >= BufferSize
  /\ \/ \E n \in 1 .. count :
           /\ Receive(count, n)
           /\ out' = out \o Slice(wire, received + 1, n)
           /\ count' = count - n
           /\ UNCHANGED rpc
     \/ ReceiveEnd /\ UNCHANGED <<out, count, rpc>>
     \/ ReceiveThrows /\ ReadThrow /\ UNCHANGED out
  /\ UNCHANGED <<mReadBuffer, mReadOffset, mAvailable, wire, writerVars>>

\* read(), lines 30-36: a large read takes its bytes straight from the socket.
\* A receive of 0 bytes changes nothing and the loop goes round.
ReadDirect ==
  /\ rpc = "read" /\ count >= BufferSize /\ mAvailable = 0
  /\ \/ \E n \in 1 .. count :
           /\ Receive(count, n)
           /\ out' = out \o Slice(wire, received + 1, n)
           /\ count' = count - n
           /\ UNCHANGED rpc
     \/ ReceiveEnd /\ UNCHANGED <<out, count, rpc>>
     \/ ReceiveThrows /\ ReadThrow /\ UNCHANGED out
  /\ UNCHANGED <<mReadBuffer, mReadOffset, mAvailable, wire, writerVars>>

\* read(), lines 37-38: readMoreData() for a small read; no data is an error.
ReadRefill ==
  /\ rpc = "read" /\ count # 0 /\ count < BufferSize /\ mAvailable = 0
  /\ Refill
  /\ IF mAvailable' = 0 THEN ReadThrow ELSE UNCHANGED <<rpc, count>>
  /\ UNCHANGED <<out, wire, writerVars>>

\* read(), lines 41-58: one copy out of the buffer.
ReadCopy ==
  LET readSize == Minimum(count, mAvailable)
  IN  /\ rpc = "read" /\ count # 0 /\ mAvailable # 0
      /\ out' = out \o Slice(mReadBuffer, mReadOffset, readSize)
      /\ mReadOffset' = mReadOffset + readSize
      /\ mAvailable' = mAvailable - readSize
      /\ count' = count - readSize
      /\ UNCHANGED <<received, mReadBuffer, rpc, wire, conn, writerVars>>

\* read() returns.
ReadReturn ==
  /\ rpc = "read" /\ count = 0
  /\ rpc' = "idle"
  /\ UNCHANGED <<received, mReadBuffer, mReadOffset, mAvailable, count, out, wire, conn, writerVars>>

\* SocketStream::peek between two reads.  It changes nothing but the buffer:
\* an end of stream or an error becomes the result -1.
Peek ==
  /\ rpc = "idle" /\ mAvailable = 0
  /\ Refill
  /\ UNCHANGED <<count, rpc, out, wire, writerVars>>

-----------------------------------------------------------------------------
Writer == FlushWriteBuffer \/ WriteDirect \/ WriteLoop \/ WriteReturn
Reader == ReadDirect \/ ReadRefill \/ ReadCopy \/ ReadReturn

Next ==
  \/ \E n \in WriteSizes : Write(n)
  \/ Writer \/ Flush
  \/ \E n \in ReadSizes : Read(n)
  \/ Reader \/ Peek
  \/ Cut

Spec == Init /\ [][Next]_vars

\* A call that was made runs: neither process stops inside read() or write().
\* Nothing obliges the application to call, or the connection to be cut.
Fairness == WF_vars(Writer) /\ WF_vars(Reader)

FairSpec == Spec /\ Fairness
-----------------------------------------------------------------------------
(* Properties. *)

\* The variables keep their ranges.  The offsets stay inside the buffers, as
\* the assertions of socketstream.cpp lines 41, 57, 68 and 97 say.
TypeOK ==
  /\ mWriteBuffer \in [Positions -> Nat] /\ mWriteOffset \in 0 .. BufferSize
  /\ written \in Nat /\ left \in Nat /\ iterations \in Nat
  /\ wpc \in {"idle", "loop", "full", "direct", "flush", "aborted"}
  /\ sent \in Nat
  /\ wire \in Seq(Nat) /\ received \in Nat
  /\ conn \in {"open", "reset", "eof"}
  /\ mReadBuffer \in [Positions -> Nat]
  /\ mReadOffset \in 0 .. BufferSize /\ mAvailable \in 0 .. BufferSize
  /\ count \in Nat /\ rpc \in {"idle", "read"} /\ out \in Seq(Nat)

\* A sequence that holds the first bytes of the stream, each at its place.
InOrder(s) == \A i \in 1 .. Len(s) : s[i] = i

\* What read() gives its callers is what write() was given, in the same order:
\* nothing is lost, repeated or taken from a stale part of a buffer, whatever
\* mixture of buffered and direct writes and reads was used (read, write).
DeliveredInOrder == InOrder(out)

\* The bytes the sender still holds are exactly those that were written and
\* are not yet on the wire, also in the middle of a send() that blocks, so that
\* a flush() completes the stream (socketstream.cpp lines 72-116).
WriterHoldsTheRest ==
  conn = "open" =>
    /\ Len(wire) + mWriteOffset + left = written + sent
    /\ \A i \in 0 .. mWriteOffset - 1 : mWriteBuffer[i] + sent = Len(wire) + i + 1

\* The bytes the receiver holds are exactly those that were received and not
\* yet read, and they lie inside mReadBuffer (socketstream.cpp lines 41-69).
ReaderHoldsTheRest ==
  /\ Len(out) + mAvailable = received
  /\ received <= Len(wire)
  /\ mReadOffset + mAvailable <= BufferSize
  /\ \A i \in 0 .. mAvailable - 1 : mReadBuffer[mReadOffset + i] = Len(out) + i + 1

\* No byte is lost or doubled between the two ends: each buffer holds what it
\* has taken and not yet passed on.
BuffersHoldTheRest == WriterHoldsTheRest /\ ReaderHoldsTheRest

\* "Ensure that we don't leave the buffer completely full" (write, line 101):
\* while the connection lives no call of write() returns with a full buffer,
\* so the next one can make progress.
NeverLeftFull == conn = "open" /\ wpc = "idle" => mWriteOffset < BufferSize

\* "This will loop at most twice" (write, line 86), also on a buffer that an
\* earlier failure left full.
LoopAtMostTwice == iterations <= 2

Pipe == INSTANCE BytePipe WITH accepted <- written, delivered <- out

\* The two buffered halves and the socket together are a pipe of bytes.
ImplementsPipe == Pipe!Spec

\* The peer lives and the socket is full, but the peer's application does not
\* call read(): a blocking send() (socket.cpp line 136) waits for as long as
\* that lasts.
PeerDoesNotRead == conn = "open" /\ Room = 0 /\ rpc = "idle"

\* Every call of write() and flush() comes back, by returning or by throwing,
\* on a slow peer as well as on a lost connection, unless the peer stops reading
\* for ever or the connection is lost inside a send(), where the assertion of
\* Socket::send ends the process.  A buffer that a failed send left full does
\* not hold up the next write() (write, lines 86-108).
WriteEnds == wpc # "idle" ~> (wpc \in {"idle", "aborted"} \/ []PeerDoesNotRead)

\* Bytes that were flushed reach a reader that waits for them: once everything
\* it asked for has left the sender, read() ends.
FlushedIsRead ==
  (rpc = "read" /\ Len(out) + count <= Len(wire)) ~> (rpc = "idle" \/ conn # "open")

\* A lost connection ends a read() that goes through the buffer: it throws
\* Socket::Error when readMoreData() brings nothing (read, line 38).
CutEndsSmallRead ==
  (rpc = "read" /\ count < BufferSize /\ conn # "open") ~> rpc = "idle"

\* A lost connection ends every read(): "If, for some reason, the connection is
\* dropped or cut, the OpenCL calls will start returning
\* CL_DEVICE_NOT_AVAILABLE" (README.md line 41), which they do by the
\* Socket::Error that read() throws.
CutEndsRead == (rpc = "read" /\ conn # "open") ~> rpc = "idle"
=============================================================================

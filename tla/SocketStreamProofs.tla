------------------------- MODULE SocketStreamProofs -------------------------
(***************************************************************************)
(* Proofs about SocketStream, for every buffer size, every set of write    *)
(* and read sizes and every number of bytes.                               *)
(***************************************************************************)
EXTENDS SocketStream, SequenceTheorems, TLAPS

-----------------------------------------------------------------------------
(* The inductive invariant. *)

\* Where the two buffers and the wire stand.  NeverLeftFull has to hold inside
\* write() too, and what was sent after a cut counts as written.
StreamInv ==
  /\ InOrder(wire)
  /\ DeliveredInOrder
  /\ WriterHoldsTheRest
  /\ ReaderHoldsTheRest
  /\ Len(wire) <= written
  /\ conn = "open" /\ wpc # "full" => mWriteOffset < BufferSize

\* How far a call of write() or flush() is: a send() under way has taken a part
\* of what it was given and not all.
CallInv ==
  /\ left <= written
  /\ wpc \in {"idle", "flush"} => left = 0
  /\ wpc \in {"idle", "loop"} => sent = 0
  /\ wpc \in {"flush", "full", "direct"} /\ mWriteOffset # 0 => sent < mWriteOffset
  /\ wpc = "direct" => left # 0 /\ (mWriteOffset = 0 => sent < left)
  /\ wpc = "aborted" => conn # "open"

\* How far the loop of write() is: a second iteration starts on an empty buffer
\* that is larger than what is left, so there is no third.
LoopInv ==
  /\ iterations <= 2
  /\ wpc \in {"loop", "full"} => left < BufferSize /\ (iterations = 2 => left = 0)
  /\ wpc = "loop" /\ iterations = 1 /\ left # 0 => mWriteOffset = 0

IInv == TypeOK /\ StreamInv /\ CallInv /\ LoopInv

-----------------------------------------------------------------------------
(* The operators. *)

\* What Slice returns: a sequence of the k bytes from offset on.
LEMMA SliceOfBuffer ==
  ASSUME NEW buffer \in [Positions -> Nat], NEW offset \in Nat, NEW k \in Nat,
         offset + k <= BufferSize
  PROVE  /\ Slice(buffer, offset, k) \in Seq(Nat)
         /\ Len(Slice(buffer, offset, k)) = k
         /\ \A i \in 1..k : Slice(buffer, offset, k)[i] = buffer[offset + i - 1]
BY SizesAssumption DEF Slice, Positions

\* The same for a part of the wire.
LEMMA SliceOfWire ==
  ASSUME NEW s \in Seq(Nat), NEW from \in Nat, NEW k \in Nat,
         from + k <= Len(s)
  PROVE  /\ Slice(s, from + 1, k) \in Seq(Nat)
         /\ Len(Slice(s, from + 1, k)) = k
         /\ \A i \in 1..k : Slice(s, from + 1, k)[i] = s[from + i]
BY DEF Slice

\* What Source returns: the bytes of the stream from the cursor of write() on.
LEMMA SourceType ==
  ASSUME NEW k \in Nat, written \in Nat, left \in Nat, left <= written
  PROVE  /\ Source(k) \in Seq(Nat)
         /\ Len(Source(k)) = k
         /\ \A i \in 1..k : Source(k)[i] = written - left + i
BY DEF Source

\* A memcpy that fits changes its target range of the buffer and nothing else.
LEMMA CopyIntoBuffer ==
  ASSUME NEW buffer \in [Positions -> Nat], NEW offset \in Nat, NEW bytes \in Seq(Nat),
         offset + Len(bytes) <= BufferSize
  PROVE  /\ CopyInto(buffer, offset, bytes) \in [Positions -> Nat]
         /\ \A i \in 0 .. offset - 1 : CopyInto(buffer, offset, bytes)[i] = buffer[i]
         /\ \A i \in 1 .. Len(bytes) : CopyInto(buffer, offset, bytes)[offset + i - 1] = bytes[i]
<1> DEFINE filled == CopyInto(buffer, offset, bytes)
<1>1. ASSUME NEW i \in Positions
      PROVE  filled[i] = IF i \in offset .. offset + Len(bytes) - 1
                         THEN bytes[i - offset + 1] ELSE buffer[i]
  BY DEF CopyInto
<1>2. \A j \in 1 .. Len(bytes) : bytes[j] \in Nat
  OBVIOUS
<1>3. filled \in [Positions -> Nat]
  <2>1. ASSUME NEW i \in Positions
        PROVE  (IF i \in offset .. offset + Len(bytes) - 1
                THEN bytes[i - offset + 1] ELSE buffer[i]) \in Nat
    BY <1>2, SizesAssumption DEF Positions, SizesAssumption
  <2> QED BY <2>1 DEF CopyInto
<1>4. \A i \in 0 .. offset - 1 : filled[i] = buffer[i]
  BY <1>1, SizesAssumption DEF Positions, SizesAssumption
<1>5. \A i \in 1 .. Len(bytes) : filled[offset + i - 1] = bytes[i]
  BY <1>1, SizesAssumption DEF Positions, SizesAssumption
<1> QED BY <1>3, <1>4, <1>5

\* A sequence in order stays so when the next bytes of the stream are appended.
LEMMA AppendInOrder ==
  ASSUME NEW s \in Seq(Nat), NEW t \in Seq(Nat), InOrder(s),
         \A i \in 1 .. Len(t) : t[i] = Len(s) + i
  PROVE  /\ s \o t \in Seq(Nat)
         /\ Len(s \o t) = Len(s) + Len(t)
         /\ InOrder(s \o t)
BY ConcatProperties DEF InOrder
-----------------------------------------------------------------------------
(* Init and the steps. *)

\* A new connection has empty buffers and satisfies the invariant.
LEMMA InitIInv == Init => IInv
BY SizesAssumption
   DEF Init, IInv, TypeOK, StreamInv, CallInv, LoopInv, InOrder, DeliveredInOrder,
       WriterHoldsTheRest, ReaderHoldsTheRest, Positions, SizesAssumption

\* The wire after a step of send(): still in order, longer only while the
\* connection lives.
LEMMA SendKeepsOrder ==
  ASSUME IInv, NEW rest \in Seq(Nat), SendReturns(rest),
         conn = "open" => \A i \in 1 .. Len(rest) : rest[i] = Len(wire) + i
  PROVE  /\ wire' \in Seq(Nat)
         /\ InOrder(wire')
         /\ conn = "open" => Len(wire') = Len(wire) + Len(rest)
         /\ conn # "open" => wire' = wire
         /\ Len(wire) <= Len(wire')
         /\ sent' = 0
<1>1. CASE conn = "open"
  <2>1. wire' = wire \o rest /\ sent' = 0
    BY <1>1 DEF SendReturns
  <2>2. wire \in Seq(Nat) /\ InOrder(wire) /\ \A i \in 1 .. Len(rest) : rest[i] = Len(wire) + i
    BY <1>1 DEF IInv, TypeOK, StreamInv
  <2>3. wire' \in Seq(Nat) /\ Len(wire') = Len(wire) + Len(rest) /\ InOrder(wire')
    BY ONLY <2>1, <2>2, rest \in Seq(Nat), AppendInOrder
  <2> QED BY <1>1, <2>1, <2>2, <2>3
<1>2. CASE conn # "open"
  BY <1>2 DEF IInv, TypeOK, StreamInv, SendReturns
<1> QED BY <1>1, <1>2

\* The same for a send() that goes on.
LEMMA PartKeepsOrder ==
  ASSUME IInv, NEW rest \in Seq(Nat), NEW k \in Nat, SendGoesOn(rest, k),
         \A i \in 1 .. Len(rest) : rest[i] = Len(wire) + i
  PROVE  /\ wire' \in Seq(Nat)
         /\ InOrder(wire')
         /\ Len(wire') = Len(wire) + k
         /\ sent' = sent + k
         /\ conn = "open"
<1>1. k \in 0 .. Len(rest)
  BY DEF SendGoesOn
<1> DEFINE part == SubSeq(rest, 1, k)
<1>2. part \in Seq(Nat) /\ Len(part) = k /\ \A i \in 1 .. k : part[i] = rest[i]
  <2>1. rest \in Seq(Nat) /\ k \in Nat /\ k <= Len(rest)
    BY <1>1
  <2>2. \A i \in 1 .. k : rest[i] \in Nat
    BY <2>1
  <2> QED BY <2>1, <2>2, SubSeqProperties
<1>3. \A i \in 1 .. Len(part) : part[i] = Len(wire) + i
  BY <1>1, <1>2
<1>4. wire' = wire \o part /\ sent' = sent + k /\ conn = "open"
  BY DEF SendGoesOn
<1> HIDE DEF part
<1> QED BY <1>2, <1>3, <1>4, AppendInOrder DEF IInv, TypeOK, StreamInv

\* What flushWriteBuffer() has still to send is the next of the stream.
LEMMA BufferedBytes ==
  ASSUME IInv, wpc \in {"flush", "full", "direct"}, mWriteOffset # 0,
         NEW rest, rest = Slice(mWriteBuffer, sent, mWriteOffset - sent)
  PROVE  /\ rest \in Seq(Nat)
         /\ Len(rest) = mWriteOffset - sent
         /\ conn = "open" => \A i \in 1 .. Len(rest) : rest[i] = Len(wire) + i
<1>1. /\ sent \in Nat /\ mWriteOffset \in Nat /\ sent < mWriteOffset
      /\ mWriteOffset <= BufferSize /\ BufferSize \in Nat /\ Len(wire) \in Nat
  BY SizesAssumption DEF IInv, TypeOK, CallInv, SizesAssumption
<1> DEFINE k == mWriteOffset - sent
<1>2. /\ rest \in Seq(Nat) /\ Len(rest) = k
      /\ \A i \in 1 .. k : rest[i] = mWriteBuffer[sent + i - 1]
  <2>1. /\ mWriteBuffer \in [Positions -> Nat] /\ sent \in Nat /\ k \in Nat
        /\ sent + k <= BufferSize
    BY <1>1 DEF IInv, TypeOK
  <2> QED BY <2>1, SliceOfBuffer
<1>3. ASSUME conn = "open", NEW i \in 1 .. Len(rest)
      PROVE  rest[i] = Len(wire) + i
  <2>1. i \in 1 .. k /\ sent + i - 1 \in 0 .. mWriteOffset - 1
    BY <1>1, <1>2, <1>3
  <2>2. mWriteBuffer[sent + i - 1] + sent = Len(wire) + (sent + i - 1) + 1
    BY <1>3, <2>1 DEF IInv, StreamInv, WriterHoldsTheRest
  <2>3. rest[i] = mWriteBuffer[sent + i - 1]
    BY <1>2, <2>1
  <2>4. rest[i] \in Nat /\ i \in Nat
    BY <1>2, <2>1
  <2> QED BY <1>1, <2>2, <2>3, <2>4
<1> QED BY <1>2, <1>3

\* What a large write has still to send is the next of the stream too.
LEMMA DirectBytes ==
  ASSUME IInv, wpc = "direct", mWriteOffset = 0
  PROVE  /\ DirectRest \in Seq(Nat)
         /\ Len(DirectRest) = left - sent
         /\ conn = "open" => \A i \in 1 .. Len(DirectRest) : DirectRest[i] = Len(wire) + i
<1>1. /\ sent \in Nat /\ left \in Nat /\ written \in Nat /\ sent < left /\ left <= written
      /\ Len(wire) \in Nat
      /\ conn = "open" => Len(wire) + left = written + sent
  BY DEF IInv, TypeOK, CallInv, StreamInv, WriterHoldsTheRest
<1> DEFINE all == Source(left)
<1>2. all \in Seq(Nat) /\ Len(all) = left /\ \A i \in 1 .. left : all[i] = written - left + i
  BY <1>1, SourceType
<1> HIDE DEF all
<1>3. /\ SubSeq(all, sent + 1, left) \in Seq(Nat)
      /\ Len(SubSeq(all, sent + 1, left)) = left - sent
      /\ \A i \in 1 .. left - sent : SubSeq(all, sent + 1, left)[i] = all[sent + i]
  BY <1>1, <1>2
<1>4. \A i \in 1 .. left - sent : all[sent + i] = written - left + (sent + i)
  BY <1>1, <1>2
<1>5. conn = "open" => \A i \in 1 .. left - sent : written - left + (sent + i) = Len(wire) + i
  BY <1>1
<1>6. DirectRest = SubSeq(all, sent + 1, left)
  BY DEF DirectRest, all
<1> QED BY ONLY <1>3, <1>4, <1>5, <1>6

\* A writer step that accounts for the writer's half keeps what is said of both.
LEMMA WriterStep ==
  ASSUME IInv, UNCHANGED readerVars, UNCHANGED conn,
         mWriteBuffer' \in [Positions -> Nat], mWriteOffset' \in 0 .. BufferSize,
         written' \in Nat, left' \in Nat, iterations' \in Nat, sent' \in Nat,
         wpc' \in {"idle", "loop", "full", "direct", "flush", "aborted"},
         wire' \in Seq(Nat), InOrder(wire'), Len(wire) <= Len(wire'), Len(wire') <= written',
         WriterHoldsTheRest', conn = "open" /\ wpc' # "full" => mWriteOffset' < BufferSize
  PROVE  TypeOK' /\ StreamInv'
<1>1. TypeOK'
  BY DEF IInv, TypeOK, readerVars
<1>2. ReaderHoldsTheRest' /\ DeliveredInOrder'
  BY DEF IInv, TypeOK, StreamInv, ReaderHoldsTheRest, DeliveredInOrder, InOrder, readerVars
<1> QED BY <1>1, <1>2 DEF StreamInv, InOrder

\* A call of write() only chooses its path.
LEMMA WriteStep ==
  ASSUME IInv, NEW n \in WriteSizes, Write(n)
  PROVE  IInv'
<1>1. n \in Nat \ {0} /\ BufferSize \in Nat \ {0}
  BY SizesAssumption DEF SizesAssumption
<1>2. TypeOK' /\ StreamInv'
  <2>1. /\ UNCHANGED <<mWriteBuffer, mWriteOffset, sent, wire, conn, readerVars>>
        /\ written' = written + n /\ left' = n /\ iterations' = 0
        /\ wpc' \in {"direct", "loop"} /\ wpc = "idle" /\ left = 0
    BY DEF Write, IInv, CallInv
  <2>2. WriterHoldsTheRest'
    <3>1. conn = "open" => Len(wire) + mWriteOffset + n = written + n + sent
      <4>1. conn = "open" => Len(wire) + mWriteOffset + left = written + sent
        BY DEF IInv, StreamInv, WriterHoldsTheRest
      <4>2. /\ n \in Nat /\ mWriteOffset \in Nat /\ written \in Nat /\ sent \in Nat
            /\ Len(wire) \in Nat /\ left = 0
        BY <1>1, <2>1 DEF IInv, TypeOK
      <4> QED BY ONLY <4>1, <4>2
    <3> QED BY <2>1, <3>1 DEF IInv, StreamInv, WriterHoldsTheRest
  <2>3. /\ Len(wire) <= written' /\ written' \in Nat /\ left' \in Nat
        /\ conn = "open" => mWriteOffset < BufferSize
    BY <1>1, <2>1 DEF IInv, TypeOK, StreamInv
  <2> QED BY <2>1, <2>2, <2>3, WriterStep DEF IInv, TypeOK, StreamInv, InOrder
<1>3. CallInv'
  BY <1>1 DEF Write, IInv, TypeOK, StreamInv, CallInv
<1>4. LoopInv'
  BY <1>1 DEF Write, LoopInv
<1> QED BY <1>2, <1>3, <1>4 DEF IInv

\* A call of flush() only begins.
LEMMA FlushStep == IInv /\ Flush => IInv'
BY DEF Flush, IInv, TypeOK, StreamInv, CallInv, LoopInv, InOrder, DeliveredInOrder,
       WriterHoldsTheRest, ReaderHoldsTheRest, readerVars

\* A send() that fails, or ends the process, leaves buffer and wire as they are.
LEMMA SendFailsStep ==
  ASSUME IInv, conn # "open",
         UNCHANGED <<mWriteBuffer, mWriteOffset, written, iterations, sent, wire, conn, readerVars>>,
         \/ wpc' = "idle" /\ left' = 0 /\ sent = 0
         \/ wpc' = "aborted" /\ left' = left
  PROVE  IInv'
<1>1. TypeOK' /\ StreamInv'
  BY DEF IInv, TypeOK, StreamInv, InOrder, DeliveredInOrder,
         WriterHoldsTheRest, ReaderHoldsTheRest, readerVars
<1>2. CallInv' /\ LoopInv'
  BY DEF IInv, TypeOK, CallInv, LoopInv
<1> QED BY <1>1, <1>2 DEF IInv

\* flushWriteBuffer() sends what is buffered, in pieces, and nothing else.
LEMMA FlushWriteBufferStep == IInv /\ FlushWriteBuffer => IInv'
<1> SUFFICES ASSUME IInv, FlushWriteBuffer PROVE IInv'
  OBVIOUS
<1> DEFINE rest == Slice(mWriteBuffer, sent, mWriteOffset - sent)
<1>1. /\ wpc \in {"flush", "full", "direct"} /\ mWriteOffset # 0
      /\ UNCHANGED <<mWriteBuffer, written, iterations, conn, readerVars>>
      /\ \/ /\ \E k \in 1 .. mWriteOffset : SendGoesOn(rest, k)
            /\ UNCHANGED <<mWriteOffset, left, wpc>>
         \/ /\ SendReturns(rest)
            /\ mWriteOffset' = 0 /\ wpc' = AfterFlush[wpc] /\ UNCHANGED left
         \/ SendThrows /\ Abandon /\ UNCHANGED mWriteOffset
         \/ SendAborts /\ UNCHANGED <<mWriteOffset, left>>
  BY DEF FlushWriteBuffer, AfterFlush
<1>2. /\ rest \in Seq(Nat) /\ Len(rest) = mWriteOffset - sent
      /\ conn = "open" => \A i \in 1 .. Len(rest) : rest[i] = Len(wire) + i
  BY <1>1, BufferedBytes
<1>3. /\ sent \in Nat /\ mWriteOffset \in Nat /\ sent < mWriteOffset /\ mWriteOffset <= BufferSize
      /\ BufferSize \in Nat \ {0} /\ left \in Nat /\ written \in Nat /\ Len(wire) \in Nat
      /\ Len(wire) <= written /\ left <= written
      /\ conn = "open" => Len(wire) + mWriteOffset + left = written + sent
  BY <1>1, SizesAssumption
     DEF IInv, TypeOK, StreamInv, CallInv, WriterHoldsTheRest, SizesAssumption
<1> HIDE DEF rest
<1>4. ASSUME NEW k \in 1 .. mWriteOffset, SendGoesOn(rest, k), UNCHANGED <<mWriteOffset, left, wpc>>
      PROVE  IInv'
  <2>1. k \in Nat /\ k < mWriteOffset - sent
    BY <1>2, <1>3, <1>4 DEF SendGoesOn
  <2>2. /\ wire' \in Seq(Nat) /\ InOrder(wire') /\ Len(wire') = Len(wire) + k
        /\ sent' = sent + k /\ conn = "open"
    <3>1. conn = "open"
      BY <1>4 DEF SendGoesOn
    <3> QED BY <1>2, <1>4, <2>1, <3>1, PartKeepsOrder
  <2>3. ASSUME NEW i \in 0 .. mWriteOffset - 1
        PROVE  mWriteBuffer[i] + (sent + k) = Len(wire) + k + i + 1
    <3>1. mWriteBuffer[i] \in Nat
      BY <1>3 DEF IInv, TypeOK, Positions
    <3>2. mWriteBuffer[i] + sent = Len(wire) + i + 1
      BY <2>2 DEF IInv, StreamInv, WriterHoldsTheRest
    <3> QED BY <1>3, <2>1, <3>1, <3>2
  <2>4. WriterHoldsTheRest'
    <3>1. Len(wire) + k + mWriteOffset + left = written + (sent + k)
      BY <1>3, <2>1, <2>2
    <3>2. UNCHANGED <<mWriteBuffer, mWriteOffset, left, written>>
      BY <1>1, <1>4
    <3> QED BY <2>2, <2>3, <3>1, <3>2 DEF WriterHoldsTheRest
  <2>5. TypeOK' /\ StreamInv'
    <3>1. Len(wire') <= written' /\ Len(wire) <= Len(wire') /\ sent' \in Nat
      BY <1>1, <1>3, <2>1, <2>2
    <3>2. conn = "open" /\ wpc' # "full" => mWriteOffset' < BufferSize
      BY <1>4 DEF IInv, StreamInv
    <3> QED BY <1>1, <1>4, <2>2, <2>4, <3>1, <3>2, WriterStep DEF IInv, TypeOK
  <2>6. CallInv' /\ LoopInv'
    BY <1>1, <1>3, <1>4, <2>1, <2>2 DEF IInv, CallInv, LoopInv
  <2> QED BY <2>5, <2>6 DEF IInv
<1>5. CASE SendReturns(rest) /\ mWriteOffset' = 0 /\ wpc' = AfterFlush[wpc] /\ UNCHANGED left
  <2>1. /\ wire' \in Seq(Nat) /\ InOrder(wire') /\ Len(wire) <= Len(wire')
        /\ conn = "open" => Len(wire') = Len(wire) + (mWriteOffset - sent)
        /\ conn # "open" => wire' = wire
        /\ sent' = 0
    BY <1>2, <1>5, SendKeepsOrder
  <2>2. /\ wpc = "flush" => wpc' = "idle"
        /\ wpc = "full" => wpc' = "loop"
        /\ wpc = "direct" => wpc' = "direct"
    BY <1>1, <1>5 DEF AfterFlush
  <2>3. WriterHoldsTheRest' /\ Len(wire') <= written'
    BY <1>1, <1>3, <1>5, <2>1 DEF WriterHoldsTheRest
  <2>4. TypeOK' /\ StreamInv'
    <3>1. /\ mWriteBuffer' \in [Positions -> Nat] /\ mWriteOffset' \in 0 .. BufferSize
          /\ written' \in Nat /\ left' \in Nat /\ iterations' \in Nat /\ sent' \in Nat
          /\ mWriteOffset' < BufferSize
      BY <1>1, <1>3, <1>5, <2>1 DEF IInv, TypeOK
    <3>2. wpc' \in {"idle", "loop", "full", "direct", "flush", "aborted"}
      BY <1>1, <2>2
    <3> QED BY <1>1, <2>1, <2>3, <3>1, <3>2, WriterStep
  <2>5. CallInv'
    <3>1. wpc = "direct" => left # 0
      BY <1>1, <1>3 DEF IInv, CallInv
    <3> QED BY <1>1, <1>3, <1>5, <2>1, <2>2, <3>1 DEF IInv, CallInv
  <2>6. LoopInv'
    BY <1>1, <1>5, <2>2 DEF IInv, LoopInv
  <2> QED BY <2>4, <2>5, <2>6 DEF IInv
<1>6. CASE SendThrows /\ Abandon /\ UNCHANGED mWriteOffset
  BY <1>1, <1>6, SendFailsStep DEF SendThrows, Abandon
<1>7. CASE SendAborts /\ UNCHANGED <<mWriteOffset, left>>
  BY <1>1, <1>7, SendFailsStep DEF SendAborts
<1> QED BY <1>1, <1>4, <1>5, <1>6, <1>7

\* A large write (line 80) finds the buffer empty, so it sends the next bytes.
LEMMA WriteDirectStep == IInv /\ WriteDirect => IInv'
<1> SUFFICES ASSUME IInv, WriteDirect PROVE IInv'
  OBVIOUS
<1> DEFINE rest == DirectRest
<1>1. /\ wpc = "direct" /\ mWriteOffset = 0
      /\ UNCHANGED <<mWriteBuffer, mWriteOffset, written, iterations, conn, readerVars>>
      /\ \/ (\E k \in 1 .. left : SendGoesOn(rest, k)) /\ UNCHANGED <<left, wpc>>
         \/ SendReturns(rest) /\ left' = 0 /\ wpc' = "idle"
         \/ SendThrows /\ Abandon
         \/ SendAborts /\ UNCHANGED left
  BY DEF WriteDirect
<1>2. /\ rest \in Seq(Nat) /\ Len(rest) = left - sent
      /\ conn = "open" => \A i \in 1 .. Len(rest) : rest[i] = Len(wire) + i
  BY <1>1, DirectBytes
<1>3. /\ sent \in Nat /\ left \in Nat /\ sent < left
      /\ BufferSize \in Nat \ {0} /\ written \in Nat /\ Len(wire) \in Nat
      /\ Len(wire) <= written /\ left <= written
      /\ conn = "open" => Len(wire) + left = written + sent
  BY <1>1, SizesAssumption
     DEF IInv, TypeOK, StreamInv, CallInv, WriterHoldsTheRest, SizesAssumption
<1> HIDE DEF rest
<1>4. ASSUME NEW k \in 1 .. left, SendGoesOn(rest, k), UNCHANGED <<left, wpc>>
      PROVE  IInv'
  <2>1. k \in Nat /\ k < left - sent
    BY <1>2, <1>3, <1>4 DEF SendGoesOn
  <2>2. /\ wire' \in Seq(Nat) /\ InOrder(wire') /\ Len(wire') = Len(wire) + k
        /\ sent' = sent + k /\ conn = "open"
    <3>1. conn = "open"
      BY <1>4 DEF SendGoesOn
    <3> QED BY <1>2, <1>4, <2>1, <3>1, PartKeepsOrder
  <2>3. WriterHoldsTheRest'
    BY <1>1, <1>3, <1>4, <2>1, <2>2 DEF WriterHoldsTheRest
  <2>4. TypeOK' /\ StreamInv'
    <3>1. Len(wire') <= written' /\ Len(wire) <= Len(wire') /\ sent' \in Nat
      BY <1>1, <1>3, <2>1, <2>2
    <3>2. /\ mWriteBuffer' \in [Positions -> Nat] /\ mWriteOffset' \in 0 .. BufferSize
          /\ written' \in Nat /\ left' \in Nat /\ iterations' \in Nat
          /\ mWriteOffset' < BufferSize
      BY <1>1, <1>3, <1>4 DEF IInv, TypeOK
    <3>3. wpc' \in {"idle", "loop", "full", "direct", "flush", "aborted"}
      BY <1>1, <1>4
    <3> QED BY <1>1, <2>2, <2>3, <3>1, <3>2, <3>3, WriterStep
  <2>5. CallInv' /\ LoopInv'
    BY <1>1, <1>3, <1>4, <2>1, <2>2 DEF IInv, CallInv, LoopInv
  <2> QED BY <2>4, <2>5 DEF IInv
<1>5. CASE SendReturns(rest) /\ left' = 0 /\ wpc' = "idle"
  <2>1. /\ wire' \in Seq(Nat) /\ InOrder(wire') /\ Len(wire) <= Len(wire')
        /\ conn = "open" => Len(wire') = Len(wire) + (left - sent)
        /\ conn # "open" => wire' = wire
        /\ sent' = 0
    BY <1>2, <1>5, SendKeepsOrder
  <2>2. WriterHoldsTheRest' /\ Len(wire') <= written'
    BY <1>1, <1>3, <1>5, <2>1 DEF WriterHoldsTheRest
  <2>3. TypeOK' /\ StreamInv'
    BY <1>1, <1>3, <1>5, <2>1, <2>2, WriterStep DEF IInv, TypeOK
  <2>4. CallInv' /\ LoopInv'
    BY <1>1, <1>3, <1>5, <2>1 DEF IInv, CallInv, LoopInv
  <2> QED BY <2>3, <2>4 DEF IInv
<1>6. CASE SendThrows /\ Abandon
  BY <1>1, <1>6, SendFailsStep DEF SendThrows, Abandon
<1>7. CASE SendAborts /\ UNCHANGED left
  BY <1>1, <1>7, SendFailsStep DEF SendAborts
<1> QED BY <1>1, <1>4, <1>5, <1>6, <1>7

\* The loop copies the next bytes of the stream behind those it holds.
LEMMA WriteLoopStep == IInv /\ WriteLoop => IInv'
<1> SUFFICES ASSUME IInv, WriteLoop PROVE IInv'
  OBVIOUS
<1> DEFINE k      == Minimum(BufferSize - mWriteOffset, left)
           filled == CopyInto(mWriteBuffer, mWriteOffset, Source(k))
           end    == mWriteOffset + k
<1>1. /\ k \in Nat /\ k <= left /\ end \in 0 .. BufferSize
      /\ end # BufferSize => k = left
      /\ mWriteOffset = 0 /\ left < BufferSize => k = left /\ end # BufferSize
      /\ BufferSize \in Nat \ {0} /\ mWriteOffset \in Nat /\ left \in Nat /\ written \in Nat
  BY SizesAssumption DEF IInv, TypeOK, Minimum, SizesAssumption
<1>2. /\ Source(k) \in Seq(Nat) /\ Len(Source(k)) = k
      /\ \A i \in 1 .. k : Source(k)[i] = written - left + i
      /\ left <= written
  BY <1>1, SourceType DEF IInv, CallInv
<1>3. /\ filled \in [Positions -> Nat]
      /\ \A i \in 0 .. mWriteOffset - 1 : filled[i] = mWriteBuffer[i]
      /\ \A i \in 1 .. k : filled[mWriteOffset + i - 1] = written - left + i
  <2> HIDE DEF k
  <2>1. mWriteBuffer \in [Positions -> Nat] /\ mWriteOffset + Len(Source(k)) <= BufferSize
    BY <1>1, <1>2 DEF IInv, TypeOK
  <2>2. /\ filled \in [Positions -> Nat]
        /\ \A i \in 0 .. mWriteOffset - 1 : filled[i] = mWriteBuffer[i]
        /\ \A i \in 1 .. Len(Source(k)) : filled[mWriteOffset + i - 1] = Source(k)[i]
    BY <1>1, <1>2, <2>1, CopyIntoBuffer
  <2> QED BY <1>2, <2>2
<1>4. /\ mWriteBuffer' = filled /\ mWriteOffset' = end /\ left' = left - k
      /\ wpc = "loop" /\ left # 0
      /\ wpc' = IF end = BufferSize THEN "full" ELSE "loop"
      /\ UNCHANGED <<written, sent, wire, conn, readerVars>>
  BY DEF WriteLoop, Full
<1>5. /\ iterations \in Nat /\ iterations < 2 /\ iterations' = iterations + 1
      /\ left < BufferSize
      /\ iterations = 1 => mWriteOffset = 0
      /\ sent = 0 /\ Len(wire) \in Nat /\ Len(wire) <= written
      /\ conn = "open" => Len(wire) + mWriteOffset + left = written
  <2>1. iterations \in Nat /\ iterations <= 2 /\ iterations # 2 /\ left < BufferSize
        /\ (iterations = 1 => mWriteOffset = 0)
    BY <1>4 DEF IInv, TypeOK, LoopInv
  <2>2. iterations' = Minimum(iterations + 1, 3)
    BY DEF WriteLoop
  <2>3. sent = 0 /\ Len(wire) \in Nat /\ Len(wire) <= written
        /\ (conn = "open" => Len(wire) + mWriteOffset + left = written)
    BY <1>1, <1>4 DEF IInv, TypeOK, StreamInv, CallInv, WriterHoldsTheRest
  <2> QED BY <2>1, <2>2, <2>3 DEF Minimum
<1>6. ASSUME conn = "open", NEW i \in 0 .. end - 1
      PROVE  filled[i] = Len(wire) + i + 1
  <2>1. CASE i < mWriteOffset
    <3>1. i \in 0 .. mWriteOffset - 1 /\ i \in Positions
      BY <1>1, <2>1 DEF Positions
    <3>2. mWriteBuffer[i] \in Nat /\ mWriteBuffer[i] + sent = Len(wire) + i + 1
      BY <1>6, <3>1 DEF IInv, TypeOK, StreamInv, WriterHoldsTheRest
    <3> QED BY <1>3, <1>5, <3>1, <3>2
  <2>2. CASE i >= mWriteOffset
    <3> DEFINE j == i - mWriteOffset + 1
    <3>1. j \in 1 .. k /\ mWriteOffset + j - 1 = i /\ written - left + j = Len(wire) + i + 1
      <4>1. /\ k \in Nat /\ mWriteOffset \in Nat /\ left \in Nat /\ written \in Nat
            /\ i \in Nat /\ i < mWriteOffset + k /\ Len(wire) \in Nat /\ left <= written
            /\ Len(wire) + mWriteOffset + left = written
        BY <1>1, <1>2, <1>5, <1>6
      <4> HIDE DEF k
      <4> QED BY ONLY <2>2, <4>1
    <3> HIDE DEF j, filled, k
    <3> QED BY <1>3, <3>1
  <2> QED BY <1>1, <2>1, <2>2
<1> HIDE DEF k, filled
<1>7. WriterHoldsTheRest'
  <2>1. conn = "open" => Len(wire) + end + (left - k) = written + sent
    BY <1>1, <1>5
  <2>2. ASSUME conn = "open", NEW i \in 0 .. end - 1
        PROVE  filled[i] + sent = Len(wire) + i + 1
    BY <1>1, <1>5, <1>6, <2>2
  <2> HIDE DEF end
  <2> QED BY <1>4, <2>1, <2>2 DEF WriterHoldsTheRest
<1>8. TypeOK' /\ StreamInv'
  <2>1. /\ left' \in Nat /\ iterations' \in Nat /\ mWriteOffset' \in 0 .. BufferSize
        /\ mWriteBuffer' \in [Positions -> Nat] /\ wpc' \in {"full", "loop"}
        /\ conn = "open" /\ wpc' # "full" => mWriteOffset' < BufferSize
    BY <1>1, <1>3, <1>4, <1>5
  <2>2. wire' \in Seq(Nat) /\ InOrder(wire') /\ Len(wire') = Len(wire) /\ sent' \in Nat /\ written' \in Nat
    BY <1>4 DEF IInv, TypeOK, StreamInv, InOrder
  <2> QED BY <1>4, <1>5, <1>7, <2>1, <2>2, WriterStep
<1>9. CallInv'
  <2>1. end = BufferSize => end > 0
    BY <1>1
  <2> QED BY <1>1, <1>2, <1>4, <1>5, <2>1 DEF IInv, CallInv
<1>10. LoopInv'
  BY <1>1, <1>4, <1>5 DEF LoopInv
<1> QED BY <1>8, <1>9, <1>10 DEF IInv

\* The return of write() leaves buffer and wire alone.
LEMMA WriteReturnStep == IInv /\ WriteReturn => IInv'
BY DEF WriteReturn, IInv, TypeOK, StreamInv, CallInv, LoopInv, InOrder, DeliveredInOrder,
       WriterHoldsTheRest, ReaderHoldsTheRest, readerVars

\* A cut loses a tail of the wire that the receiver has not seen.
LEMMA CutStep == IInv /\ Cut => IInv'
<1> SUFFICES ASSUME IInv, Cut PROVE IInv'
  OBVIOUS
<1>1. PICK n \in received .. Len(wire) : wire' = SubSeq(wire, 1, n)
  BY DEF Cut
<1>2. n \in Nat /\ n <= Len(wire) /\ Len(wire) \in Nat /\ received <= n
  BY DEF IInv, TypeOK
<1>3. \A i \in 1 .. n : wire[i] \in Nat /\ wire[i] = i
  BY <1>2 DEF IInv, TypeOK, StreamInv, InOrder
<1>4. wire' \in Seq(Nat) /\ Len(wire') = n /\ \A i \in 1 .. n : wire'[i] = i
  BY <1>1, <1>2, <1>3, SubSeqProperties
<1>5. conn' \in {"eof", "reset"} /\ UNCHANGED writerVars /\ UNCHANGED readerVars
  BY DEF Cut
<1>6. TypeOK' /\ CallInv' /\ LoopInv'
  BY <1>4, <1>5 DEF IInv, TypeOK, CallInv, LoopInv, writerVars, readerVars
<1>7. StreamInv'
  BY <1>2, <1>4, <1>5 DEF IInv, TypeOK, StreamInv, InOrder, DeliveredInOrder,
       WriterHoldsTheRest, ReaderHoldsTheRest, writerVars, readerVars
<1> QED BY <1>6, <1>7 DEF IInv

\* A reader step leaves the sender's half alone.
LEMMA ReaderStep ==
  ASSUME IInv, UNCHANGED writerVars, UNCHANGED wire,
         conn' \in {"open", "reset", "eof"}, conn' = "open" => conn = "open",
         received' \in Nat, mReadBuffer' \in [Positions -> Nat],
         mReadOffset' \in 0 .. BufferSize, mAvailable' \in 0 .. BufferSize,
         count' \in Nat, rpc' \in {"idle", "read"}, out' \in Seq(Nat),
         InOrder(out'), ReaderHoldsTheRest'
  PROVE  IInv'
<1>1. TypeOK' /\ CallInv' /\ LoopInv'
  BY DEF IInv, TypeOK, CallInv, LoopInv, writerVars
<1>2. WriterHoldsTheRest'
  BY DEF IInv, StreamInv, WriterHoldsTheRest, writerVars
<1>3. StreamInv'
  BY <1>2 DEF IInv, StreamInv, InOrder, DeliveredInOrder, writerVars
<1> QED BY <1>1, <1>3 DEF IInv

\* A call of read() leaves the buffer alone.
LEMMA ReadStep ==
  ASSUME IInv, NEW n \in ReadSizes, Read(n)
  PROVE  IInv'
<1>1. n \in Nat
  BY SizesAssumption DEF SizesAssumption
<1>2. ReaderHoldsTheRest' /\ InOrder(out')
  BY DEF Read, IInv, StreamInv, ReaderHoldsTheRest, DeliveredInOrder, InOrder
<1> QED BY <1>1, <1>2, ReaderStep DEF Read, IInv, TypeOK

\* The return of read() leaves the buffer alone.
LEMMA ReadReturnStep == IInv /\ ReadReturn => IInv'
<1> SUFFICES ASSUME IInv, ReadReturn PROVE IInv'
  OBVIOUS
<1>1. ReaderHoldsTheRest' /\ InOrder(out')
  BY DEF ReadReturn, IInv, StreamInv, ReaderHoldsTheRest, DeliveredInOrder, InOrder
<1> QED BY <1>1, ReaderStep DEF ReadReturn, IInv, TypeOK

\* n bytes taken from the wire are the next n of the stream.
LEMMA ReceivedBytes ==
  ASSUME IInv, NEW limit \in Nat, NEW n \in Nat, Receive(limit, n)
  PROVE  /\ n \in 1 .. limit /\ received + n <= Len(wire) /\ received' = received + n
         /\ conn' = conn
         /\ Slice(wire, received + 1, n) \in Seq(Nat)
         /\ Len(Slice(wire, received + 1, n)) = n
         /\ \A i \in 1 .. n : Slice(wire, received + 1, n)[i] = received + i
<1>1. wire \in Seq(Nat) /\ Len(wire) \in Nat /\ received \in Nat /\ received <= Len(wire)
  BY DEF IInv, TypeOK, StreamInv, ReaderHoldsTheRest
<1>2. n \in 1 .. limit /\ received + n <= Len(wire) /\ received' = received + n /\ conn' = conn
  BY <1>1 DEF Receive, Minimum
<1>3. /\ Slice(wire, received + 1, n) \in Seq(Nat)
      /\ Len(Slice(wire, received + 1, n)) = n
      /\ \A i \in 1 .. n : Slice(wire, received + 1, n)[i] = wire[received + i]
  BY <1>1, <1>2, SliceOfWire
<1>4. \A i \in 1 .. n : wire[received + i] = received + i
  BY <1>1, <1>2 DEF IInv, StreamInv, InOrder
<1> QED BY <1>2, <1>3, <1>4

\* readMoreData() on an empty buffer.
LEMMA RefillStep ==
  ASSUME IInv, mAvailable = 0, Refill, UNCHANGED <<out, wire, writerVars>>,
         count' \in Nat, rpc' \in {"idle", "read"}
  PROVE  IInv'
<1>1. InOrder(out') /\ out' \in Seq(Nat) /\ BufferSize \in Nat \ {0}
  BY SizesAssumption DEF IInv, TypeOK, StreamInv, DeliveredInOrder, InOrder, SizesAssumption
<1>2. ASSUME NEW n \in 1 .. BufferSize, Receive(BufferSize, n), mReadOffset' = 0,
             mReadBuffer' = CopyInto(mReadBuffer, 0, Slice(wire, received + 1, n)),
             mAvailable' = n
      PROVE  IInv'
  <2> DEFINE bytes == Slice(wire, received + 1, n)
  <2>1. /\ n \in Nat /\ received + n <= Len(wire) /\ received' = received + n /\ conn' = conn
        /\ bytes \in Seq(Nat) /\ Len(bytes) = n
        /\ \A i \in 1 .. n : bytes[i] = received + i
    BY <1>1, <1>2, ReceivedBytes
  <2> HIDE DEF bytes
  <2>2. /\ mReadBuffer' \in [Positions -> Nat]
        /\ \A i \in 1 .. n : mReadBuffer'[0 + i - 1] = received + i
    <3>1. mReadBuffer \in [Positions -> Nat] /\ 0 \in Nat /\ 0 + Len(bytes) <= BufferSize
      BY <1>1, <2>1 DEF IInv, TypeOK
    <3>2. /\ CopyInto(mReadBuffer, 0, bytes) \in [Positions -> Nat]
          /\ \A i \in 1 .. Len(bytes) : CopyInto(mReadBuffer, 0, bytes)[0 + i - 1] = bytes[i]
      BY ONLY <2>1, <3>1, CopyIntoBuffer
    <3>3. mReadBuffer' = CopyInto(mReadBuffer, 0, bytes)
      BY <1>2 DEF bytes
    <3> QED BY ONLY <2>1, <3>2, <3>3
  <2>3. Len(out) = received /\ received \in Nat
    BY DEF IInv, TypeOK, StreamInv, ReaderHoldsTheRest
  <2>4. ASSUME NEW i \in 0 .. n - 1
        PROVE  mReadBuffer'[0 + i] = Len(out) + i + 1
    <3>1. i + 1 \in 1 .. n /\ 0 + (i + 1) - 1 = 0 + i /\ received + (i + 1) = Len(out) + i + 1
      BY <2>1, <2>3
    <3> QED BY <2>2, <3>1
  <2>5. ReaderHoldsTheRest'
    BY <1>1, <1>2, <2>1, <2>3, <2>4 DEF ReaderHoldsTheRest
  <2>6. /\ conn' \in {"open", "reset", "eof"} /\ (conn' = "open" => conn = "open")
        /\ received' \in Nat /\ mReadOffset' \in 0 .. BufferSize /\ mAvailable' \in 0 .. BufferSize
        /\ UNCHANGED writerVars /\ UNCHANGED wire
    BY <1>1, <1>2, <2>1, <2>3 DEF IInv, TypeOK
  <2> QED BY <1>1, <2>2, <2>5, <2>6, ReaderStep
<1>3. ASSUME ReceiveEnd \/ ReceiveThrows, mReadOffset' = 0, UNCHANGED <<mReadBuffer, mAvailable>>
      PROVE  IInv'
  <2>1. received' = received /\ (conn' = "open" => conn = "open") /\ conn' \in {"open", "reset", "eof"}
    BY <1>3 DEF ReceiveEnd, ReceiveThrows, IInv, TypeOK
  <2>2. ReaderHoldsTheRest'
    BY <1>1, <1>3, <2>1 DEF IInv, TypeOK, StreamInv, ReaderHoldsTheRest
  <2> QED BY <1>1, <1>3, <2>1, <2>2, ReaderStep DEF IInv, TypeOK
<1> QED BY <1>2, <1>3 DEF Refill

\* readMoreData() inside read() (line 37).
LEMMA ReadRefillStep == IInv /\ ReadRefill => IInv'
BY RefillStep DEF ReadRefill, ReadThrow, IInv, TypeOK

\* readMoreData() inside peek() (socketstream.h line 54).
LEMMA PeekStep == IInv /\ Peek => IInv'
BY RefillStep DEF Peek, IInv, TypeOK

\* A large read (line 31) finds the buffer empty, so it gets the next bytes.
LEMMA ReadDirectStep == IInv /\ ReadDirect => IInv'
<1> SUFFICES ASSUME IInv, ReadDirect PROVE IInv'
  OBVIOUS
<1>1. /\ mAvailable = 0 /\ UNCHANGED <<mReadBuffer, mReadOffset, mAvailable, wire, writerVars>>
      /\ count \in Nat /\ Len(out) = received /\ received \in Nat /\ out \in Seq(Nat) /\ InOrder(out)
  BY DEF ReadDirect, IInv, TypeOK, StreamInv, ReaderHoldsTheRest, DeliveredInOrder
<1>2. ASSUME NEW n \in 1 .. count, Receive(count, n), out' = out \o Slice(wire, received + 1, n),
             count' = count - n, UNCHANGED rpc
      PROVE  IInv'
  <2>1. /\ n \in Nat /\ received + n <= Len(wire) /\ received' = received + n /\ conn' = conn
        /\ Slice(wire, received + 1, n) \in Seq(Nat) /\ Len(Slice(wire, received + 1, n)) = n
        /\ \A i \in 1 .. n : Slice(wire, received + 1, n)[i] = received + i
    BY <1>1, <1>2, ReceivedBytes
  <2>2. out' \in Seq(Nat) /\ Len(out') = Len(out) + n /\ InOrder(out')
    BY <1>1, <1>2, <2>1, AppendInOrder
  <2>3. ReaderHoldsTheRest'
    BY <1>1, <2>1, <2>2 DEF ReaderHoldsTheRest, IInv, TypeOK, StreamInv
  <2>4. /\ conn' \in {"open", "reset", "eof"} /\ (conn' = "open" => conn = "open")
        /\ received' \in Nat /\ mReadOffset' \in 0 .. BufferSize /\ mAvailable' \in 0 .. BufferSize
        /\ mReadBuffer' \in [Positions -> Nat] /\ count' \in Nat /\ rpc' \in {"idle", "read"}
        /\ UNCHANGED writerVars /\ UNCHANGED wire
    BY <1>1, <1>2, <2>1 DEF IInv, TypeOK
  <2> QED BY <2>2, <2>3, <2>4, ReaderStep
<1>3. ASSUME ReceiveEnd \/ ReceiveThrows, UNCHANGED out, rpc' \in {"idle", "read"}, count' \in Nat
      PROVE  IInv'
  <2>1. received' = received /\ (conn' = "open" => conn = "open") /\ conn' \in {"open", "reset", "eof"}
    BY <1>3 DEF ReceiveEnd, ReceiveThrows, IInv, TypeOK
  <2>2. ReaderHoldsTheRest' /\ InOrder(out')
    BY <1>1, <1>3, <2>1 DEF IInv, StreamInv, ReaderHoldsTheRest
  <2>3. /\ received' \in Nat /\ mReadOffset' \in 0 .. BufferSize /\ mAvailable' \in 0 .. BufferSize
        /\ mReadBuffer' \in [Positions -> Nat] /\ out' \in Seq(Nat)
        /\ UNCHANGED writerVars /\ UNCHANGED wire
    BY <1>1, <1>3, <2>1 DEF IInv, TypeOK
  <2> QED BY <1>3, <2>1, <2>2, <2>3, ReaderStep
<1>4. CASE ReceiveEnd /\ UNCHANGED <<out, count, rpc>>
  BY <1>3, <1>4 DEF IInv, TypeOK
<1>5. CASE ReceiveThrows /\ ReadThrow /\ UNCHANGED out
  BY <1>3, <1>5 DEF ReadThrow
<1> QED BY <1>2, <1>4, <1>5 DEF ReadDirect

\* The copy out of the buffer gives the caller the next bytes of the stream.
LEMMA ReadCopyStep == IInv /\ ReadCopy => IInv'
<1> SUFFICES ASSUME IInv, ReadCopy PROVE IInv'
  OBVIOUS
<1> DEFINE k == Minimum(count, mAvailable)
<1>1. /\ k \in Nat /\ k <= mAvailable /\ k <= count /\ count \in Nat
      /\ mAvailable \in Nat /\ mReadOffset \in Nat /\ mReadOffset + mAvailable <= BufferSize
      /\ BufferSize \in Nat /\ out \in Seq(Nat) /\ Len(out) \in Nat /\ InOrder(out)
      /\ mReadBuffer \in [Positions -> Nat]
  BY SizesAssumption DEF IInv, TypeOK, StreamInv, ReaderHoldsTheRest, DeliveredInOrder, Minimum, SizesAssumption
<1>2. /\ out' = out \o Slice(mReadBuffer, mReadOffset, k)
      /\ mReadOffset' = mReadOffset + k /\ mAvailable' = mAvailable - k /\ count' = count - k
      /\ UNCHANGED <<received, mReadBuffer, rpc, wire, conn, writerVars>>
  BY DEF ReadCopy
<1>3. \A i \in 0 .. mAvailable - 1 : mReadBuffer[mReadOffset + i] = Len(out) + i + 1
  BY DEF IInv, StreamInv, ReaderHoldsTheRest
<1> HIDE DEF k
<1>4. /\ Slice(mReadBuffer, mReadOffset, k) \in Seq(Nat) /\ Len(Slice(mReadBuffer, mReadOffset, k)) = k
      /\ \A i \in 1 .. k : Slice(mReadBuffer, mReadOffset, k)[i] = mReadBuffer[mReadOffset + i - 1]
  <2>1. mReadOffset + k <= BufferSize
    BY <1>1
  <2> QED BY ONLY <1>1, <2>1, SliceOfBuffer
<1>5. ASSUME NEW i \in 1 .. k
      PROVE  Slice(mReadBuffer, mReadOffset, k)[i] = Len(out) + i
  <2>1. i - 1 \in 0 .. mAvailable - 1 /\ mReadOffset + (i - 1) = mReadOffset + i - 1
        /\ Len(out) + (i - 1) + 1 = Len(out) + i
    BY <1>1
  <2> QED BY <1>3, <1>4, <2>1
<1>6. out' \in Seq(Nat) /\ Len(out') = Len(out) + k /\ InOrder(out')
  BY <1>1, <1>2, <1>4, <1>5, AppendInOrder
<1>7. ASSUME NEW i \in 0 .. mAvailable' - 1
      PROVE  mReadBuffer'[mReadOffset' + i] = Len(out') + i + 1
  <2>1. k + i \in 0 .. mAvailable - 1 /\ mReadOffset + (k + i) = mReadOffset' + i
        /\ Len(out) + (k + i) + 1 = Len(out') + i + 1
    BY <1>1, <1>2, <1>6
  <2> QED BY <1>2, <1>3, <2>1
<1>8. ReaderHoldsTheRest'
  <2>1. /\ Len(out') + mAvailable' = received' /\ received' <= Len(wire')
        /\ mReadOffset' + mAvailable' <= BufferSize
    <3>1. Len(out) + mAvailable = received /\ received <= Len(wire) /\ received' = received
          /\ Len(wire') = Len(wire) /\ received \in Nat /\ Len(wire) \in Nat
      BY <1>2 DEF IInv, TypeOK, StreamInv, ReaderHoldsTheRest
    <3>2. /\ k \in Nat /\ k <= mAvailable /\ mAvailable \in Nat /\ mReadOffset \in Nat /\ Len(out) \in Nat
          /\ mReadOffset + mAvailable <= BufferSize /\ BufferSize \in Nat
          /\ mReadOffset' = mReadOffset + k /\ mAvailable' = mAvailable - k /\ Len(out') = Len(out) + k
      BY <1>1, <1>2, <1>6
    <3> QED BY ONLY <3>1, <3>2
  <2> QED BY <1>7, <2>1 DEF ReaderHoldsTheRest
<1>9. mReadOffset' \in 0 .. BufferSize /\ mAvailable' \in 0 .. BufferSize /\ count' \in Nat
  BY <1>1, <1>2
<1> QED BY <1>2, <1>6, <1>8, <1>9, ReaderStep DEF IInv, TypeOK
-----------------------------------------------------------------------------
(* The theorems. *)

\* Every step preserves the invariant: one lemma per action.
LEMMA NextIInv == IInv /\ [Next]_vars => IInv'
<1> SUFFICES ASSUME IInv, [Next]_vars PROVE IInv'
  OBVIOUS
<1>1. ASSUME NEW n \in WriteSizes, Write(n) PROVE IInv'
  BY <1>1, WriteStep
<1>2. CASE Writer
  BY <1>2, FlushWriteBufferStep, WriteDirectStep, WriteLoopStep, WriteReturnStep DEF Writer
<1>3. CASE Flush
  BY <1>3, FlushStep
<1>4. ASSUME NEW n \in ReadSizes, Read(n) PROVE IInv'
  BY <1>4, ReadStep
<1>5. CASE Reader
  BY <1>5, ReadDirectStep, ReadRefillStep, ReadCopyStep, ReadReturnStep DEF Reader
<1>6. CASE Peek
  BY <1>6, PeekStep
<1>7. CASE Cut
  BY <1>7, CutStep
<1>8. CASE UNCHANGED vars
  BY <1>8 DEF vars, writerVars, readerVars, IInv, TypeOK, StreamInv, CallInv, LoopInv, InOrder,
     DeliveredInOrder, WriterHoldsTheRest, ReaderHoldsTheRest
<1> QED BY <1>1, <1>2, <1>3, <1>4, <1>5, <1>6, <1>7, <1>8 DEF Next

\* The invariant holds in every reachable state.
LEMMA Invariance == Spec => []IInv
BY InitIInv, NextIInv, PTL DEF Spec

\* The offsets of both buffers stay inside the buffers, so no memcpy of read()
\* or write() leaves them, for every BufferSize and every use.
THEOREM TypeCorrect == Spec => []TypeOK
<1>1. IInv => TypeOK
  BY DEF IInv
<1> QED BY <1>1, Invariance, PTL

\* Whatever is read through a SocketStream is what was written into the other
\* end, in order, for every mixture of buffered and direct writes and reads and
\* also when the connection is cut.
THEOREM StreamIntegrity == Spec => []DeliveredInOrder
<1>1. IInv => DeliveredInOrder
  BY DEF IInv, StreamInv
<1> QED BY <1>1, Invariance, PTL

\* Both buffers hold exactly the bytes that are between their two ends.
THEOREM NothingIsLost == Spec => []BuffersHoldTheRest
<1>1. IInv => BuffersHoldTheRest
  BY DEF IInv, StreamInv, BuffersHoldTheRest
<1> QED BY <1>1, Invariance, PTL

\* The comment of write(), line 86, holds for every buffer size: the loop makes
\* at most two iterations, also on a buffer left full by a failed send.
THEOREM TwoIterations == Spec => []LoopAtMostTwice
<1>1. IInv => LoopAtMostTwice
  BY DEF IInv, LoopInv, LoopAtMostTwice
<1> QED BY <1>1, Invariance, PTL

\* The comment of write(), line 101: a write on a live connection never returns
\* with a full buffer.
THEOREM SpaceForTheNextWrite == Spec => []NeverLeftFull
<1>1. IInv => NeverLeftFull
  BY DEF IInv, StreamInv, NeverLeftFull
<1> QED BY <1>1, Invariance, PTL

\* Two buffered halves with a socket between them implement a pipe of bytes.
THEOREM StreamIsAPipe == Spec => ImplementsPipe
<1>1. Init => Pipe!Init
  BY DEF Init, Pipe!Init
<1>2. IInv /\ IInv' /\ [Next]_vars => [Pipe!Next]_(Pipe!pipeVars)
  <2> SUFFICES ASSUME IInv, IInv', [Next]_vars
               PROVE  Pipe!Next \/ UNCHANGED <<written, out>>
    BY DEF Pipe!pipeVars
  <2>1. written \in Nat /\ written' \in Nat /\ out \in Seq(Nat) /\ out' \in Seq(Nat)
        /\ Len(out') <= written'
    <3>1. written \in Nat /\ written' \in Nat /\ out \in Seq(Nat) /\ out' \in Seq(Nat)
          /\ wire' \in Seq(Nat) /\ mAvailable' \in Nat /\ received' \in Nat
      BY SizesAssumption DEF IInv, TypeOK, SizesAssumption
    <3>2. Len(out') + mAvailable' = received' /\ received' <= Len(wire') /\ Len(wire') <= written'
      BY DEF IInv, StreamInv, ReaderHoldsTheRest
    <3>3. Len(out') \in Nat /\ Len(wire') \in Nat
      BY <3>1
    <3> QED BY ONLY <3>1, <3>2, <3>3
  <2>2. ASSUME written' > written, UNCHANGED out PROVE Pipe!Next
    BY <2>1, <2>2 DEF Pipe!Next, Pipe!Accept
  <2>3. ASSUME UNCHANGED written, NEW t \in Seq(Nat), Len(t) # 0, out' = out \o t
        PROVE  Pipe!Next
    <3> DEFINE k == Len(t)
    <3>1. Len(out') = Len(out) + k /\ k \in 1 .. written - Len(out)
      BY <2>1, <2>3, ConcatProperties
    <3>2. t = Pipe!Numbers(Len(out), k)
      <4>1. ASSUME NEW i \in 1 .. k PROVE t[i] = Len(out) + i
        <5>1. Len(out) + i \in 1 .. Len(out') /\ Len(out) + i > Len(out) /\ Len(out) + i - Len(out) = i
          BY <2>1, <3>1
        <5>2. out'[Len(out) + i] = Len(out) + i
          BY <5>1 DEF IInv, StreamInv, DeliveredInOrder, InOrder
        <5>3. out'[Len(out) + i] = t[i]
          BY <2>1, <2>3, <3>1, <5>1, ConcatProperties
        <5> QED BY <5>2, <5>3
      <4> QED BY <2>3, <4>1 DEF Pipe!Numbers
    <3> HIDE DEF k
    <3> QED BY <2>3, <3>1, <3>2 DEF Pipe!Next, Pipe!Deliver
  <2>4. CASE \E n \in WriteSizes : Write(n)
    <3>1. PICK n \in WriteSizes : Write(n)
      BY <2>4
    <3>2. out' = out /\ written' = written + n /\ n \in Nat \ {0}
      BY <3>1, SizesAssumption DEF Write, readerVars, SizesAssumption
    <3> QED BY <2>1, <2>2, <3>2
  <2>5. CASE FlushWriteBuffer \/ WriteDirect \/ WriteLoop
    BY <2>5 DEF FlushWriteBuffer, WriteDirect, WriteLoop, readerVars
  <2>8. CASE WriteReturn \/ Flush \/ Cut
    BY <2>8 DEF WriteReturn, Flush, Cut, readerVars, writerVars
  <2>9. CASE (\E n \in ReadSizes : Read(n)) \/ ReadReturn \/ Peek \/ ReadRefill
    BY <2>9 DEF Read, ReadReturn, Peek, ReadRefill, writerVars
  <2>10. CASE ReadDirect
    <3>1. written' = written
      BY <2>10 DEF ReadDirect, writerVars
    <3>2. ASSUME NEW n \in 1 .. count, Receive(count, n), out' = out \o Slice(wire, received + 1, n)
          PROVE  Pipe!Next
      <4>1. n \in Nat /\ n # 0 /\ count \in Nat
        BY DEF IInv, TypeOK
      <4>2. Slice(wire, received + 1, n) \in Seq(Nat) /\ Len(Slice(wire, received + 1, n)) = n
        BY <3>2, <4>1, ReceivedBytes
      <4> QED BY <2>3, <3>1, <3>2, <4>1, <4>2
    <3> QED BY <2>10, <3>1, <3>2 DEF ReadDirect
  <2>11. CASE ReadCopy
    <3> DEFINE k == Minimum(count, mAvailable)
    <3>1. out' = out \o Slice(mReadBuffer, mReadOffset, k) /\ written' = written
      BY <2>11 DEF ReadCopy, writerVars
    <3>2. k \in Nat /\ k # 0 /\ mReadOffset \in Nat /\ mReadOffset + k <= BufferSize
          /\ mReadBuffer \in [Positions -> Nat]
      <4>1. /\ count \in Nat /\ count # 0 /\ mAvailable \in Nat /\ mAvailable # 0
            /\ mReadOffset \in Nat /\ mReadBuffer \in [Positions -> Nat]
        BY <2>11 DEF ReadCopy, IInv, TypeOK
      <4>2. mReadOffset + mAvailable <= BufferSize /\ BufferSize \in Nat
        BY SizesAssumption DEF IInv, StreamInv, ReaderHoldsTheRest, SizesAssumption
      <4>3. k \in Nat /\ k # 0 /\ k <= mAvailable
        BY <4>1 DEF Minimum
      <4> HIDE DEF k
      <4> QED BY <4>1, <4>2, <4>3
    <3> HIDE DEF k
    <3>3. Slice(mReadBuffer, mReadOffset, k) \in Seq(Nat) /\ Len(Slice(mReadBuffer, mReadOffset, k)) = k
      BY ONLY <3>2, SliceOfBuffer
    <3> QED BY <2>3, <3>1, <3>2, <3>3
  <2>12. CASE UNCHANGED vars
    BY <2>12 DEF vars, writerVars, readerVars
  <2> QED BY <2>4, <2>5, <2>8, <2>9, <2>10, <2>11, <2>12 DEF Next, Writer, Reader
<1> QED BY <1>1, <1>2, Invariance, PTL DEF Spec, ImplementsPipe, Pipe!Spec
=============================================================================

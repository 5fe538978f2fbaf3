------------------------------- MODULE Packets -------------------------------
(***************************************************************************)
(* The bytes of a packet: what operator<< puts into the stream and what    *)
(* operator>> takes out of it, for every packet but Version (Session).     *)
(* The two are written separately in the code and nothing compares them;   *)
(* no packet says where it ends, so one byte too many or too few turns     *)
(* every later packet into something else.                                 *)
(*                                                                         *)
(* A byte has Base values instead of 256, which brings the limits of the   *)
(* length fields (one and two bytes) within reach.  Both ends know the     *)
(* type of the packet that comes next: that they agree on it is TypesAgree *)
(* of ApiProtocol.  The stream itself is the pipe of BytePipe.             *)
(***************************************************************************)
EXTENDS Integers, Sequences, SequencesExt

CONSTANTS Base,          \* values of a byte
          Seeds,         \* choices of the members' values
          Counts,        \* lengths of lists that are sent in one byte
          Lengths,       \* lengths of strings, and of lists, that are sent in two
          SizeTs,        \* widths of a payload's size
          DataSizes,     \* sizes of payloads
          PatternBytes,  \* length of mPattern of FillBuffer
          Threshold,     \* CompressionSizeThreshold
          Debug,         \* assertions are compiled in
          MaxPackets     \* bound: packets sent

\* Base^k, for the up to eight bytes of a number.
Pow[k \in 0 .. 8] == IF k = 0 THEN 1 ELSE Base * Pow[k - 1]

ASSUME PacketsAssumption ==
  /\ Base \in Nat \ {0, 1}
  /\ Seeds \subseteq Nat
  /\ Counts \subseteq Nat /\ Lengths \subseteq Nat
  /\ SizeTs \subseteq {1, 2, 4}
  /\ DataSizes \subseteq Nat
  /\ PatternBytes \in Nat
  /\ Threshold \in Nat /\ Threshold > Pow[2]   \* 1 MB is more than 16 bits can say
  /\ Debug \in BOOLEAN
  /\ MaxPackets \in Nat

VARIABLES
  zlib,    \* REMOTECL_USE_ZLIB: the same at both ends (Session.CompatibleOnly)
  sent,    \* the packets written
  got,     \* the packets read
  wire,    \* the bytes between
  aborted  \* an assertion ended the writer

vars == <<zlib, sent, got, wire, aborted>>

-----------------------------------------------------------------------------
(* Types of members.  A value is the sequence of its elements; n elements, *)
(* or as many as a length field of lw bytes says, of w bytes each; w = 0   *)
(* stands for elements that are strings.                                   *)

Number(w)   == [lw |-> 0, n |-> 1, w |-> w, bool |-> FALSE]
Array(n, w) == [lw |-> 0, n |-> n, w |-> w, bool |-> FALSE]
List(lw, w) == [lw |-> lw, n |-> 0, w |-> w, bool |-> FALSE]

U8     == Number(1)
U16    == Number(2)
U32    == Number(4)
U64    == Number(8)
ID     == U16
Bool   == [U8 EXCEPT !.bool = TRUE]
U32x3  == Array(3, 4)
String == List(2, 1)
IDs    == List(1, 2)
Names  == List(1, 0)      \* a list of strings

-----------------------------------------------------------------------------
(* The packets: the members with their types, the order in which operator  *)
(* << puts them and the order in which operator >> takes them.  A member   *)
(* in "only" is there when the Boolean member it names is set.             *)

Always == [m \in {} |-> ""]

EnqueueKernel ==
  [is |-> [mKernelID |-> ID, mQueueID |-> ID, mWorkDim |-> U8, mGlobalSize |-> U32x3,
           mGlobalOffset |-> U32x3, mLocalSize |-> U32x3, mWantEvent |-> Bool,
           mExpectEventList |-> Bool],
   put |-> <<"mKernelID", "mQueueID", "mWorkDim", "mGlobalSize", "mGlobalOffset",
             "mLocalSize", "mWantEvent", "mExpectEventList">>,
   get |-> <<"mKernelID", "mQueueID", "mWorkDim", "mGlobalSize", "mGlobalOffset",
             "mLocalSize", "mWantEvent", "mExpectEventList">>,
   only |-> Always]

ImageRW ==
  [is |-> [mImageID |-> ID, mQueueID |-> ID, mRowPitch |-> U32, mSlicePitch |-> U32,
           mOrigin |-> U32x3, mRegion |-> U32x3, mWantEvent |-> Bool,
           mExpectEventList |-> Bool, mBlock |-> Bool],
   put |-> <<"mImageID", "mQueueID", "mOrigin", "mRegion", "mRowPitch", "mSlicePitch",
             "mWantEvent", "mExpectEventList", "mBlock">>,
   get |-> <<"mImageID", "mQueueID", "mOrigin", "mRegion", "mRowPitch", "mSlicePitch",
             "mWantEvent", "mExpectEventList", "mBlock">>,
   only |-> Always]

BufferRW ==
  [is |-> [mBufferID |-> ID, mQueueID |-> ID, mSize |-> U32, mOffset |-> U32,
           mWantEvent |-> Bool, mExpectEventList |-> Bool, mBlock |-> Bool],
   put |-> <<"mBufferID", "mQueueID", "mSize", "mOffset", "mWantEvent",
             "mExpectEventList", "mBlock">>,
   get |-> <<"mBufferID", "mQueueID", "mSize", "mOffset", "mWantEvent",
             "mExpectEventList", "mBlock">>,
   only |-> Always]

BufferRectRW ==
  [is |-> [mBufferID |-> ID, mQueueID |-> ID, mBufferOrigin |-> U32x3,
           mHostOrigin |-> U32x3, mRegion |-> U32x3, mBufferRowPitch |-> U32,
           mBufferSlicePitch |-> U32, mHostRowPitch |-> U32, mHostSlicePitch |-> U32,
           mWantEvent |-> Bool, mExpectEventList |-> Bool, mBlock |-> Bool],
   put |-> <<"mBufferID", "mQueueID", "mBufferOrigin", "mHostOrigin", "mRegion",
             "mBufferRowPitch", "mBufferSlicePitch", "mHostRowPitch", "mHostSlicePitch",
             "mWantEvent", "mExpectEventList", "mBlock">>,
   get |-> <<"mBufferID", "mQueueID", "mBufferOrigin", "mHostOrigin", "mRegion",
             "mBufferRowPitch", "mBufferSlicePitch", "mHostRowPitch", "mHostSlicePitch",
             "mWantEvent", "mExpectEventList", "mBlock">>,
   only |-> Always]

\* All of the pattern, 128 bytes in the code, whatever mPatternSize says.
FillBuffer ==
  [is |-> [mBufferID |-> ID, mQueueID |-> ID, mOffset |-> U32, mSize |-> U32,
           mPatternSize |-> U8, mWantEvent |-> Bool, mExpectEventList |-> Bool,
           mPattern |-> Array(PatternBytes, 1)],
   put |-> <<"mBufferID", "mQueueID", "mSize", "mOffset", "mPatternSize", "mWantEvent",
             "mExpectEventList", "mPattern">>,
   get |-> <<"mBufferID", "mQueueID", "mSize", "mOffset", "mPatternSize", "mWantEvent",
             "mExpectEventList", "mPattern">>,
   only |-> Always]

\* ProgramSource, KernelName, BuildProgram.
IDStringPair ==
  [is |-> [mID |-> ID, mString |-> String],
   put |-> <<"mID", "mString">>, get |-> <<"mID", "mString">>, only |-> Always]

KernelArg ==
  [is |-> [mArgIndex |-> U32, mKernelID |-> ID],
   put |-> <<"mKernelID", "mArgIndex">>, get |-> <<"mKernelID", "mArgIndex">>,
   only |-> Always]

KernelArgInfo ==
  [is |-> [mArgIndex |-> U32, mParam |-> U32, mKernelID |-> ID],
   put |-> <<"mKernelID", "mArgIndex", "mParam">>,
   get |-> <<"mKernelID", "mArgIndex", "mParam">>, only |-> Always]

KernelWGInfo ==
  [is |-> [mKernelID |-> ID, mDeviceID |-> ID, mParam |-> U32],
   put |-> <<"mKernelID", "mDeviceID", "mParam">>,
   get |-> <<"mKernelID", "mDeviceID", "mParam">>, only |-> Always]

CreateKernels ==
  [is |-> [mProgramID |-> ID, mKernelCount |-> U32],
   put |-> <<"mProgramID", "mKernelCount">>, get |-> <<"mProgramID", "mKernelCount">>,
   only |-> Always]

CompileProgram ==
  [is |-> [mProgramID |-> ID, mOptions |-> String, mDeviceIDs |-> IDs, mHeaderIDs |-> IDs,
           mHeaderNames |-> Names, mHasCallback |-> Bool, mCallbackID |-> ID],
   put |-> <<"mProgramID", "mOptions", "mDeviceIDs", "mHeaderIDs", "mHeaderNames",
             "mHasCallback", "mCallbackID">>,
   get |-> <<"mProgramID", "mOptions", "mDeviceIDs", "mHeaderIDs", "mHeaderNames",
             "mHasCallback", "mCallbackID">>,
   only |-> [mCallbackID |-> "mHasCallback"]]

\* Mutated form: the reader takes the programs before the devices.
LinkProgramSwapped ==
  [is |-> [mContext |-> ID, mProgramIDs |-> IDs, mDeviceIDs |-> IDs, mOptions |-> String],
   put |-> <<"mContext", "mOptions", "mDeviceIDs", "mProgramIDs">>,
   get |-> <<"mContext", "mOptions", "mProgramIDs", "mDeviceIDs">>, only |-> Always]

LinkProgram ==
  [is |-> [mContext |-> ID, mProgramIDs |-> IDs, mDeviceIDs |-> IDs, mOptions |-> String],
   put |-> <<"mContext", "mOptions", "mDeviceIDs", "mProgramIDs">>,
   get |-> <<"mContext", "mOptions", "mDeviceIDs", "mProgramIDs">>, only |-> Always]

ProgramBuildInfo ==
  [is |-> [mParam |-> U32, mProgramID |-> ID, mDeviceID |-> ID],
   put |-> <<"mParam", "mProgramID", "mDeviceID">>,
   get |-> <<"mParam", "mProgramID", "mDeviceID">>, only |-> Always]

CreateImage ==
  [is |-> [mFlags |-> U32, mChannelOrder |-> U32, mChannelType |-> U32, mImageType |-> U32,
           mWidth |-> U32, mHeight |-> U32, mDepth |-> U32, mArraySize |-> U32,
           mRowPitch |-> U32, mSlicePitch |-> U32, mMipLevels |-> U32, mSamples |-> U32,
           mContextID |-> ID],
   put |-> <<"mFlags", "mChannelOrder", "mChannelType", "mImageType", "mWidth", "mHeight",
             "mDepth", "mArraySize", "mRowPitch", "mSlicePitch", "mMipLevels", "mSamples",
             "mContextID">>,
   get |-> <<"mFlags", "mChannelOrder", "mChannelType", "mImageType", "mWidth", "mHeight",
             "mDepth", "mArraySize", "mRowPitch", "mSlicePitch", "mMipLevels", "mSamples",
             "mContextID">>,
   only |-> Always]

CreateBuffer ==
  [is |-> [mFlags |-> U32, mSize |-> U32, mContextID |-> ID, mExpectPayload |-> Bool],
   put |-> <<"mFlags", "mSize", "mContextID", "mExpectPayload">>,
   get |-> <<"mFlags", "mSize", "mContextID", "mExpectPayload">>, only |-> Always]

CreateSubBuffer ==
  [is |-> [mFlags |-> U32, mSize |-> U32, mOffset |-> U32, mCreateType |-> U32,
           mBufferID |-> ID],
   put |-> <<"mFlags", "mSize", "mOffset", "mCreateType", "mBufferID">>,
   get |-> <<"mFlags", "mSize", "mOffset", "mCreateType", "mBufferID">>, only |-> Always]

CreateQueue ==
  [is |-> [mProp |-> U32, mContext |-> ID, mDevice |-> ID],
   put |-> <<"mContext", "mDevice", "mProp">>, get |-> <<"mContext", "mDevice", "mProp">>,
   only |-> Always]

CreateQueueWithProp ==
  [is |-> [mContext |-> ID, mDevice |-> ID, mProperties |-> List(1, 8)],
   put |-> <<"mContext", "mDevice", "mProperties">>,
   get |-> <<"mContext", "mDevice", "mProperties">>, only |-> Always]

CreateContextFromType ==
  [is |-> [mDeviceType |-> U64, mProperties |-> List(1, 8)],
   put |-> <<"mDeviceType", "mProperties">>, get |-> <<"mDeviceType", "mProperties">>,
   only |-> Always]

\* mDevices has a length of two bytes, the default of Serialiseable.
CreateContext ==
  [is |-> [mProperties |-> List(1, 8), mDevices |-> List(2, 2)],
   put |-> <<"mProperties", "mDevices">>, get |-> <<"mProperties", "mDevices">>,
   only |-> Always]

GetImageFormats ==
  [is |-> [mContextID |-> ID, mFlags |-> U32, mImageType |-> U32],
   put |-> <<"mContextID", "mFlags", "mImageType">>,
   get |-> <<"mContextID", "mFlags", "mImageType">>, only |-> Always]

GetDeviceIDs ==
  [is |-> [mDeviceType |-> U64, mPlatformID |-> ID],
   put |-> <<"mDeviceType", "mPlatformID">>, get |-> <<"mDeviceType", "mPlatformID">>,
   only |-> Always]

IDListPacket ==
  [is |-> [mIDs |-> IDs], put |-> <<"mIDs">>, get |-> <<"mIDs">>, only |-> Always]

\* The queries (IDParamPair) and SetUserEventStatus.
IDTypePair ==
  [is |-> [mData |-> U32, mID |-> ID],
   put |-> <<"mData", "mID">>, get |-> <<"mData", "mID">>, only |-> Always]

\* Retain and Release.
RefCount ==
  [is |-> [mID |-> ID, mObjTy |-> U8],
   put |-> <<"mObjTy", "mID">>, get |-> <<"mObjTy", "mID">>, only |-> Always]

RegisterEventCallback ==
  [is |-> [mEventID |-> ID, mCallbackID |-> ID, mCBType |-> U32],
   put |-> <<"mEventID", "mCallbackID", "mCBType">>,
   get |-> <<"mEventID", "mCallbackID", "mCBType">>, only |-> Always]

SimplePacket(type) ==
  [is |-> [mData |-> type], put |-> <<"mData">>, get |-> <<"mData">>, only |-> Always]

SignalPacket == [is |-> Always, put |-> <<>>, get |-> <<>>, only |-> Always]

\* The packets that are a list of members, by name.
Structs ==
  [ EnqueueKernel |-> EnqueueKernel, ImageRW |-> ImageRW, BufferRW |-> BufferRW,
    BufferRectRW |-> BufferRectRW, FillBuffer |-> FillBuffer,
    IDStringPair |-> IDStringPair, KernelArg |-> KernelArg,
    KernelArgInfo |-> KernelArgInfo, KernelWGInfo |-> KernelWGInfo,
    CreateKernels |-> CreateKernels, CompileProgram |-> CompileProgram,
    LinkProgram |-> LinkProgram, ProgramBuildInfo |-> ProgramBuildInfo,
    CreateImage |-> CreateImage, CreateBuffer |-> CreateBuffer,
    CreateSubBuffer |-> CreateSubBuffer, CreateQueue |-> CreateQueue,
    CreateQueueWithProp |-> CreateQueueWithProp,
    CreateContextFromType |-> CreateContextFromType,
    CreateContext |-> CreateContext, GetImageFormats |-> GetImageFormats,
    GetDeviceIDs |-> GetDeviceIDs, IDListPacket |-> IDListPacket,
    IDTypePair |-> IDTypePair, RefCount |-> RefCount,
    RegisterEventCallback |-> RegisterEventCallback, Simple8 |-> SimplePacket(U8),
    Simple16 |-> SimplePacket(U16), Simple32 |-> SimplePacket(U32),
    Simple64 |-> SimplePacket(U64), SignalPacket |-> SignalPacket ]

-----------------------------------------------------------------------------
(* Members to bytes.                                                       *)

\* operator<< of an integer: its low w bytes, the lowest first.
Bytes(n, w) == [i \in 1 .. w |-> (n \div Pow[i - 1]) % Base]

\* The integer in these bytes.
Value(b) ==
  LET val[k \in 0 .. Len(b)] == IF k = 0 THEN 0 ELSE val[k - 1] + b[k] * Pow[k - 1]
  IN  val[Len(b)]

\* Integers of w bytes one after the other.
PutNumbers(v, w) == FlattenSeq([i \in 1 .. Len(v) |-> Bytes(v[i], w)])

\* operator<< of a std::string: the length in two bytes, then all of it.
PutString(s) == Bytes(Len(s), 2) \o PutNumbers(s, 1)

\* operator<< of an integer, an array, a string or a Serialiseable.
Put(type, v) ==
  Bytes(Len(v), type.lw)
    \o IF type.w = 0 THEN FlattenSeq([i \in 1 .. Len(v) |-> PutString(v[i])])
                     ELSE PutNumbers(v, type.w)

\* The assertions of both: the length fits its field.
Fits(type, v) ==
  /\ type.lw # 0 => Len(v) < Pow[type.lw]
  /\ type.w = 0 => \A i \in 1 .. Len(v) : Len(v[i]) < Pow[2]

\* The fixed members, and those in "only" whose Boolean is set.
Present(p, m, val) == m \in DOMAIN p.only => val[p.only[m]] = <<1>>

PutStruct(p, val) ==
  FlattenSeq([i \in 1 .. Len(p.put) |->
     IF Present(p, p.put[i], val) THEN Put(p.is[p.put[i]], val[p.put[i]]) ELSE <<>>])

-----------------------------------------------------------------------------
(* Bytes to members.  A reader has the value so far and the bytes it has   *)
(* not read; "ok" is FALSE where it would wait for more bytes.             *)

Starved(in) == [v |-> <<>>, in |-> in, ok |-> FALSE]

\* operator>> of n integers of w bytes.
GetNumbers(in, n, w) ==
  IF Len(in) < n * w THEN Starved(in)
  ELSE [v  |-> [i \in 1 .. n |-> Value(SubSeq(in, (i - 1) * w + 1, i * w))],
        in |-> SubSeq(in, n * w + 1, Len(in)),
        ok |-> TRUE]

\* operator>> of a Serialiseable of integers, or of a std::string.
GetList(in, lw, w) ==
  LET size == GetNumbers(in, 1, lw)
  IN  IF size.ok THEN GetNumbers(size.in, size.v[1], w) ELSE Starved(in)

\* The next string behind the strings that r has.
GetString(r) ==
  LET s == GetList(r.in, 2, 1)
  IN  IF r.ok THEN [v |-> Append(r.v, s.v), in |-> s.in, ok |-> s.ok] ELSE r

\* operator>> of a Serialiseable of strings.
GetNames(in, lw) ==
  LET size == GetNumbers(in, 1, lw)
      r[k \in 0 .. size.v[1]] ==
        IF k = 0 THEN [v |-> <<>>, in |-> size.in, ok |-> TRUE] ELSE GetString(r[k - 1])
  IN  IF size.ok THEN r[size.v[1]] ELSE Starved(in)

Get(type, in) ==
  CASE type.lw = 0                 -> GetNumbers(in, type.n, type.w)
    [] type.lw # 0 /\ type.w # 0   -> GetList(in, type.lw, type.w)
    [] type.lw # 0 /\ type.w = 0   -> GetNames(in, type.lw)

\* The next member behind those that r has.  Absent members keep the empty value
\* they start with.
GetMember(p, m, r) ==
  LET x == Get(p.is[m], r.in)
  IN  IF r.ok /\ Present(p, m, r.v)
      THEN [v |-> [r.v EXCEPT ![m] = x.v], in |-> x.in, ok |-> x.ok]
      ELSE r

GetStruct(p, in) ==
  LET r[k \in 0 .. Len(p.get)] ==
        IF k = 0 THEN [v |-> [m \in DOMAIN p.is |-> <<>>], in |-> in, ok |-> TRUE]
                 ELSE GetMember(p, p.get[k], r[k - 1])
  IN  r[Len(p.get)]

-----------------------------------------------------------------------------
(* Payloads.  The writer is a Payload, which has all the data, or a        *)
(* PayloadPtr, whose mSize is already cut to w bytes; the reader a Payload *)
(* or a PayloadInto.                                                       *)

\* compress() of zlib, by what it is used for: a run of one byte becomes half as long,
\* anything else a byte longer.
Compress(d) ==
  IF \A i \in 1 .. Len(d) : d[i] = d[1]
  THEN <<d[1]>> \o Bytes(Len(d), 4) \o [i \in 1 .. (Len(d) \div 2 - 5) |-> 0]
  ELSE <<0>> \o d

\* uncompress() into a buffer of n bytes; the result is not looked at.
Decompress(c, n) ==
  LET d == IF Len(c) < 5 THEN <<>> ELSE [i \in 1..Value(SubSeq(c, 2, 5)) |-> c[1]]
  IN  [i \in 1..n |-> IF i <= Len(d) THEN d[i] ELSE 0]

\* Mutated form: the zero that says "not compressed" is sent for large payloads only.
PutPayloadBare(w, ptr, d, fails) ==
  LET size == IF ptr THEN Len(d) % Pow[w] ELSE Len(d)
      c    == IF fails \/ d = <<>> THEN <<>> ELSE Compress(SubSeq(d, 1, size))
      zero == IF zlib /\ size >= Threshold THEN Bytes(0, w) ELSE <<>>
  IN  IF zlib /\ size >= Threshold /\ Len(c) # 0 /\ Len(c) < size
      THEN Bytes(size, w) \o Bytes(Len(c), w) \o c
      ELSE zero \o Bytes(size, w) \o SubSeq(d, 1, size % Pow[w])

PutPayload(w, ptr, d, fails) ==
  LET size == IF ptr THEN Len(d) % Pow[w] ELSE Len(d)
      c    == IF fails \/ d = <<>> THEN <<>> ELSE Compress(SubSeq(d, 1, size))
  IN  IF zlib /\ size >= Threshold /\ Len(c) # 0 /\ Len(c) < size
      THEN Bytes(size, w) \o Bytes(Len(c), w) \o c
      ELSE (IF zlib THEN Bytes(0, w) ELSE <<>>)
             \o Bytes(size, w) \o SubSeq(d, 1, size % Pow[w])

\* Reads into a vector (Payload) or to a pointer (PayloadInto): the same bytes.
GetPayload(w, in) ==
  LET full == IF zlib THEN GetNumbers(in, 1, w) ELSE [v |-> <<0>>, in |-> in, ok |-> TRUE]
      size == GetNumbers(full.in, 1, w)
      there == full.ok /\ size.ok /\ Len(size.in) >= size.v[1]
      data == SubSeq(size.in, 1, size.v[1])
  IN  [v  |-> IF there THEN IF full.v[1] # 0 THEN Decompress(data, full.v[1]) ELSE data
                       ELSE <<>>,
       in |-> IF there THEN SubSeq(size.in, size.v[1] + 1, Len(size.in)) ELSE in,
       ok |-> there]

-----------------------------------------------------------------------------
Init ==
  /\ zlib \in BOOLEAN
  /\ sent = <<>> /\ got = <<>> /\ wire = <<>>
  /\ aborted = FALSE

(* Values that tell members and elements apart: a Boolean is set for one   *)
(* of three seeds, the others are spread by position and seed.             *)
Elem(type, p, i, s) ==
  IF type.bool THEN IF (p + s) % 3 = 0 THEN 1 ELSE 0
  ELSE (5 * p + 2 * i + 7 * s) % Pow[type.w]

Choice(type, p, s, n, l) ==
  IF type.w = 0
  THEN [i \in 1..n |-> [j \in 1..(IF i = 1 THEN l ELSE s) |-> (i + j + s) % Base]]
  ELSE [i \in 1..(CASE type.lw = 0 -> type.n [] type.lw = 1 -> n [] type.lw = 2 -> l)
          |-> Elem(type, p, i, s)]

\* The packet of layout p with the values of seed s, its lists n and l long.
Filled(p, s, n, l) ==
  LET all == [m \in DOMAIN p.is |->
                Choice(p.is[m], CHOOSE i \in 1 .. Len(p.put) : p.put[i] = m, s, n, l)]
  IN  [m \in DOMAIN p.is |-> IF Present(p, m, all) THEN all[m] ELSE <<>>]

HasLength(p, lw) == \E m \in DOMAIN p.is : p.is[m].lw = lw

\* PacketStream::write of a struct.  Without the assertions a length is cut.
WriteStruct ==
  /\ ~aborted /\ Len(sent) < MaxPackets
  /\ \E name \in DOMAIN Structs, s \in Seeds :
       LET p == Structs[name]
       IN  \E n \in IF HasLength(p, 1) THEN Counts ELSE {0},
              l \in IF HasLength(p, 2) THEN Lengths ELSE {0} :
             LET val == Filled(p, s, n, l)
             IN  IF Debug /\ \E m \in DOMAIN val : ~Fits(p.is[m], val[m])
                 THEN /\ aborted' = TRUE
                      /\ UNCHANGED <<zlib, sent, got, wire>>
                 ELSE /\ sent' = Append(sent, [name |-> name, w |-> 0, val |-> val])
                      /\ wire' = wire \o PutStruct(p, val)
                      /\ UNCHANGED <<zlib, got, aborted>>

\* PacketStream::write of a Payload or PayloadPtr with a SizeT of w bytes.
WritePayload ==
  /\ ~aborted /\ Len(sent) < MaxPackets
  /\ \E w \in SizeTs, ptr, same, fails \in BOOLEAN, n \in DataSizes :
       LET d == [i \in 1..n |-> IF same THEN 1 ELSE i % Base]
       IN  /\ sent' = Append(sent, [name |-> "Payload", w |-> w, val |-> [mData |-> d]])
           /\ wire' = wire \o PutPayload(w, ptr, d, fails)
           /\ UNCHANGED <<zlib, got, aborted>>

\* What the reader makes of the bytes that are there.
Taken ==
  LET p == sent[Len(got) + 1]
      r == GetPayload(p.w, wire)
  IN  IF p.name # "Payload" THEN GetStruct(Structs[p.name], wire)
      ELSE [v |-> [mData |-> r.v], in |-> r.in, ok |-> r.ok]

\* PacketStream::read: blocks until the packet is there.
Read ==
  /\ Len(got) < Len(sent)
  /\ Taken.ok
  /\ got' = Append(got, Taken.v)
  /\ wire' = Taken.in
  /\ UNCHANGED <<zlib, sent, aborted>>

Next == WriteStruct \/ WritePayload \/ Read

Spec == Init /\ [][Next]_vars

-----------------------------------------------------------------------------
\* The data of a payload is no longer than its SizeT can say.
Small(p) == p.w # 0 => Len(p.val.mData) < Pow[p.w]

(* What is read is what was written, member by member and in order, for    *)
(* every packet, with lists and strings up to the limit of their length    *)
(* fields (an assertion ends the writer beyond it) and payloads up to the  *)
(* limit of theirs, compressed or not.                                     *)
RoundTrip ==
  (\A i \in DOMAIN sent : Small(sent[i]))
     => \A i \in DOMAIN got : got[i] = sent[i].val

(* The stream stays in step: the reader neither leaves bytes of a packet   *)
(* behind nor waits for bytes that nobody has written.  Without zlib this  *)
(* holds even for a payload that is too long: its data is cut like its     *)
(* size.  With zlib it needs the payload to fit.                           *)
InStep ==
  (zlib => \A i \in DOMAIN sent : Small(sent[i]))
     => /\ Len(got) = Len(sent) => wire = <<>>
        /\ Len(got) < Len(sent) => Taken.ok
=============================================================================

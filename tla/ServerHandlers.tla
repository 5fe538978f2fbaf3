--------------------------- MODULE ServerHandlers ---------------------------
(***************************************************************************)
(* The handlers of ServerInstance (server/*.cpp): for each one the packets *)
(* it reads and writes and the driver calls whose result it looks at, when *)
(* all of them succeed.  `o` is the option set of the request (see         *)
(* ClientCalls): flags, parameter names and counts that the packet carries, *)
(* and for a kernel argument the address space the driver reports.         *)
(***************************************************************************)
EXTENDS Script

CONSTANT TargetCL    \* CL_TARGET_OPENCL_VERSION of the server's build

ASSUME TargetAssumption == TargetCL \in Nat

ReadWaitList(o)  == When("wait" \in o, R("IDList"))
WriteEventID(o)  == When("event" \in o, W("ID"))

-----------------------------------------------------------------------------
(* Platforms, devices and contexts. *)

sendPlatformList == <<R("GetPlatformIDs"), Cl, W("IDList")>>

getPlatformInfo == <<R("GetPlatformInfo"), Cl, Cl, W("Pay8")>>

sendDeviceList == <<R("GetDeviceIDs"), Cl, Cl, W("IDList")>>

\* The four parameters of class "v2" are known only to a build for OpenCL 2.0;
\* otherwise they are sent as raw data.
getDeviceInfo(o) ==
  <<R("GetDeviceInfo"), Cl,
    W(CASE o = {"id"}    -> "ID"
        [] o = {"u64"}   -> "U64"
        [] o = {"v2"}    -> IF TargetCL >= 200 THEN "U64" ELSE "Pay32"
        [] o = {"sizes"} -> "Pay8"
        [] OTHER         -> "Pay32")>>

createContext == <<R("CreateContext"), Cl, W("ID")>>

createContextFromType == <<R("CreateContextFromType"), Cl, W("ID")>>

getContextInfo == <<R("GetContextInfo"), Cl, W("Pay8")>>

getImageFormats == <<R("GetImageFormats"), Cl, W("Pay16")>>

-----------------------------------------------------------------------------
(* Command queues. *)

createQueue == <<R("CreateQueue"), Cl, W("ID")>>

\* A build for an older OpenCL answers without reading the packet.
createQueueWithProp ==
  IF TargetCL >= 200 THEN <<R("CreateQueueWithProp"), Cl, W("ID")>> ELSE <<Refuse>>

getQueueInfo(o) ==
  IF o = {"id"} THEN <<R("GetQueueInfo"), Cl, W("ID")>>
                ELSE <<R("GetQueueInfo"), Cl, Cl, W("Pay8")>>

\* Mutated form: the packet is only looked at, not read.
flushQueueUnread == <<Cl, W("Success")>>

flushQueue  == <<R("Flush"), Cl, W("Success")>>
finishQueue == <<R("Finish"), Cl, W("Success")>>

-----------------------------------------------------------------------------
(* Memory objects. *)

createBuffer(o) == <<R("CreateBuffer")>> \o When("host" \in o, R("Pay32")) \o <<Cl, W("ID")>>

createSubBuffer == <<R("CreateSubBuffer"), Cl, W("ID")>>

readBuffer(o) ==
  <<R("ReadBuffer")>> \o ReadWaitList(o) \o <<Cl>> \o WriteEventID(o) \o <<W("Pay32")>>

readBufferRect(o) ==
  <<R("ReadBufferRect")>> \o ReadWaitList(o) \o <<Cl>> \o WriteEventID(o) \o <<W("Pay32")>>

\* Mutated form: the data is taken before the event list.
writeBufferDataFirst(o) ==
  <<R("WriteBuffer"), R("Pay32")>> \o ReadWaitList(o) \o <<Cl>> \o WriteEventID(o)
    \o <<W("Success")>>

writeBuffer(o) ==
  <<R("WriteBuffer")>> \o ReadWaitList(o) \o <<R("Pay32"), Cl>> \o WriteEventID(o)
    \o <<W("Success")>>

fillBuffer(o) ==
  <<R("FillBuffer")>> \o ReadWaitList(o) \o <<Cl>> \o WriteEventID(o) \o <<W("Success")>>

getMemObjInfo(o) ==
  IF o = {"id"} THEN <<R("GetMemObjInfo"), Cl, W("ID")>>
                ELSE <<R("GetMemObjInfo"), Cl, Cl, W("Pay8")>>

-----------------------------------------------------------------------------
(* Images. *)

createImage(o) ==
  <<R("CreateImage"), Cl>>
    \o (IF "host" \in o THEN <<Cl, W("U32"), F, R("Pay32"), Cl>> ELSE << >>) \o <<W("ID")>>

\* The driver is asked for the pixel size before the event list is read.
readImage(o) ==
  <<R("ReadImage"), Cl>> \o ReadWaitList(o) \o <<Cl>> \o WriteEventID(o) \o <<W("Pay32")>>

writeImage(o) ==
  <<R("WriteImage"), Cl>> \o ReadWaitList(o) \o <<W("U32"), F, R("Pay32"), Cl>>
    \o <<W(IF "event" \in o THEN "ID" ELSE "Success")>>

getImageInfo(o) ==
  IF o = {"id"} THEN <<R("GetImageInfo"), Cl, W("ID")>>
                ELSE <<R("GetImageInfo"), Cl, Cl, W("Pay8")>>

-----------------------------------------------------------------------------
(* Programs and kernels. *)

createProgramFromSource == <<R("CreateSourceProgram"), Cl, W("ID")>>

\* As many binaries as the list has devices.
createProgramFromBinary(o) ==
  <<R("CreateBinaryProgram"), R("IDList")>>
    \o Times(IF "two" \in o THEN 2 ELSE 1, R("Pay32")) \o <<Cl, W("ID"), W("Pay16")>>

compileProgram == <<R("CompileProgram"), Cl, W("Success")>>
linkProgram    == <<R("LinkProgram"), Cl, W("ID")>>
buildProgram   == <<R("BuildProgram"), R("IDList"), Cl, W("Success")>>

getProgramBuildInfo == <<R("BuildInfo"), Cl, W("Pay32")>>

getProgramInfo(o) ==
  <<R("ProgramInfo"), Cl>>
    \o (CASE "id" \in o       -> <<W("ID")>>
          [] "ids" \in o      -> <<W("IDList")>>
          [] "binaries" \in o -> <<Cl, W("U8")>>
                                   \o Times(IF "two" \in o THEN 2 ELSE 1, W("Pay16"))
          [] OTHER            -> <<Cl, W("Pay32")>>)

createKernel == <<R("CreateKernel"), Cl, W("ID")>>

createKernels(o) == <<R("CreateKernels"), Cl, W(IF "list" \in o THEN "IDList" ELSE "U32")>>

cloneKernel == IF TargetCL >= 210 THEN <<R("CloneKernel"), Cl, W("ID")>> ELSE <<Refuse>>

\* Mutated form: the question is left in the write buffer.
setKernelArgNoFlush(o) ==
  <<R("SetKernelArg"), Cl, W("Char"),
    R(CASE "I" \in o -> "ID" [] "S" \in o -> "U32" [] OTHER -> "Pay32"), Cl, W("Success")>>

\* The address space decides what the client is asked for.
setKernelArg(o) ==
  <<R("SetKernelArg"), Cl, W("Char"), F,
    R(CASE "I" \in o -> "ID" [] "S" \in o -> "U32" [] OTHER -> "Pay32"), Cl, W("Success")>>

getKernelInfo(o) ==
  <<R("KernelInfo"), Cl,
    W(CASE o = {"id"} -> "ID" [] o = {"u32"} -> "U32" [] OTHER -> "Pay32")>>

getKernelArgInfo(o) == <<R("KernelArgInfo"), Cl, W(IF o = {"u32"} THEN "U32" ELSE "Pay32")>>

getKernelWGInfo(o) ==
  <<R("KernelWGInfo"), Cl,
    W(CASE o = {"sizes"} -> "Pay8" [] o = {"u64"} -> "U64" [] OTHER -> "Pay32")>>

-----------------------------------------------------------------------------
(* Events, commands and reference counts. *)

\* The ErrorPacket of a failed clSetEventCallback is not the end of it.
registerEventCallback == <<R("RegisterEventCallback"), ClReport, W("Success")>>

enqueueKernel(o) ==
  <<R("EnqueueKernel")>> \o ReadWaitList(o) \o <<Cl>> \o WriteEventID(o) \o <<W("Success")>>

createUserEvent == <<R("CreateUserEvent"), Cl, W("ID")>>

setUserEventStatus == <<R("SetUserEventStatus"), ClComplete, W("Success")>>

\* A parameter the driver knows and the handler does not is refused.
getEventInfo(o) ==
  <<R("GetEventInfo"), Cl,
    CASE o = {"id"} -> W("ID") [] o = {"u32"} -> W("U32") [] OTHER -> Refuse>>

getEventProfilingInfo == <<R("GetEventProfilingInfo"), Cl, W("U64")>>

waitForEvents(o) ==
  <<R("WaitEvents"), R("IDList"), IF "user" \in o THEN ClAwait ELSE Cl, W("Success")>>

handleRelease == <<R("Release"), Cl, W("Success")>>
handleRetain  == <<R("Retain"), Cl, W("Success")>>

-----------------------------------------------------------------------------
\* The switch of handleNextPacket: which handler a request goes to.
Handlers(o) ==
  [GetDeviceIDs          |-> sendDeviceList,
   GetDeviceInfo         |-> getDeviceInfo(o),
   GetPlatformInfo       |-> getPlatformInfo,
   GetPlatformIDs        |-> sendPlatformList,
   CreateContext         |-> createContext,
   CreateContextFromType |-> createContextFromType,
   GetContextInfo        |-> getContextInfo,
   GetImageFormats       |-> getImageFormats,
   CreateSourceProgram   |-> createProgramFromSource,
   CreateBinaryProgram   |-> createProgramFromBinary(o),
   CompileProgram        |-> compileProgram,
   LinkProgram           |-> linkProgram,
   BuildProgram          |-> buildProgram,
   BuildInfo             |-> getProgramBuildInfo,
   ProgramInfo           |-> getProgramInfo(o),
   CreateKernel          |-> createKernel,
   CreateKernels         |-> createKernels(o),
   CloneKernel           |-> cloneKernel,
   SetKernelArg          |-> setKernelArg(o),
   KernelWGInfo          |-> getKernelWGInfo(o),
   KernelArgInfo         |-> getKernelArgInfo(o),
   KernelInfo            |-> getKernelInfo(o),
   CreateQueue           |-> createQueue,
   CreateQueueWithProp   |-> createQueueWithProp,
   GetQueueInfo          |-> getQueueInfo(o),
   Flush                 |-> flushQueue,
   Finish                |-> finishQueue,
   CreateBuffer          |-> createBuffer(o),
   CreateSubBuffer       |-> createSubBuffer,
   ReadBuffer            |-> readBuffer(o),
   ReadBufferRect        |-> readBufferRect(o),
   WriteBuffer           |-> writeBuffer(o),
   FillBuffer            |-> fillBuffer(o),
   GetMemObjInfo         |-> getMemObjInfo(o),
   CreateImage           |-> createImage(o),
   ReadImage             |-> readImage(o),
   WriteImage            |-> writeImage(o),
   GetImageInfo          |-> getImageInfo(o),
   EnqueueKernel         |-> enqueueKernel(o),
   WaitEvents            |-> waitForEvents(o),
   CreateUserEvent       |-> createUserEvent,
   GetEventProfilingInfo |-> getEventProfilingInfo,
   GetEventInfo          |-> getEventInfo(o),
   SetUserEventStatus    |-> setUserEventStatus,
   Release               |-> handleRelease,
   Retain                |-> handleRetain,
   RegisterEventCallback |-> registerEventCallback]

\* The packet types that open a request.
Requests == DOMAIN Handlers({})
=============================================================================

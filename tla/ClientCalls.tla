----------------------------- MODULE ClientCalls -----------------------------
(***************************************************************************)
(* The functions of the client library (client/*.cpp): for each one what   *)
(* it writes to and reads from the connection, from gConnection.get() to   *)
(* its return.  An option set `o` holds what the arguments of the call and *)
(* the objects they name decide:                                           *)
(*   "wait"     there is an event wait list                                *)
(*   "event"    the caller wants an event back                             *)
(*   "host"     host memory is copied into the new object                  *)
(*   "two"      there are two devices or binaries (otherwise one)          *)
(*   "list"     the caller wants the objects, not only their number        *)
(*   "user"     the event waited for is a user event                       *)
(*   "I", "S", "P"  the kernel argument is a memory object, local memory   *)
(*              or a value; "fits": its size is sizeof(cl_mem)             *)
(* and for a query the class of param_name: "id", "ids", "binaries", "u32", *)
(* "u64", "v2" (u64, of OpenCL 2.0), "sizes", "raw", "unknown".            *)
(***************************************************************************)
EXTENDS Script

\* A call: its steps and what it returns when the connection fails under it
\* (loss), when there is no connection (nostream) and when the server answers
\* with an ErrorPacket (error).
Call(fn, opts, steps) ==
  [nostream |-> "NOT_AVAILABLE", opts |-> opts, steps |-> steps,
   loss |-> "NOT_AVAILABLE", error |-> "ERROR", fn |-> fn]

Results == {"SUCCESS", "ERROR", "INVALID", "NOT_AVAILABLE", "throw"}

CallType == [nostream : Results, opts : SUBSET STRING, steps : Seq(Steps),
             loss : Results, error : Results, fn : STRING]

\* A call whose catch (...) falls through to "return CL_SUCCESS".
LosesQuietly(c) == [c EXCEPT !.loss = "SUCCESS", !.nostream = "SUCCESS"]

\* The common form: one request, one reply.
Ask(fn, opts, request, reply) == Call(fn, opts, <<W(request), F, R(reply)>>)

WaitList(o) == When("wait" \in o, W("IDList"))
EventID(o)  == When("event" \in o, R("ID"))
Count(o)    == IF "two" \in o THEN 2 ELSE 1

-----------------------------------------------------------------------------
(* Platforms, devices and contexts. *)

clGetPlatformIDs == LosesQuietly(Ask("clGetPlatformIDs", {}, "GetPlatformIDs", "IDList"))

clGetPlatformInfo == Ask("clGetPlatformInfo", {}, "GetPlatformInfo", "Pay8")

clRetainDevice  == Ask("clRetainDevice", {}, "Retain", "Success")
clReleaseDevice == Ask("clReleaseDevice", {}, "Release", "Success")

clGetDeviceIDs == LosesQuietly(Ask("clGetDeviceIDs", {}, "GetDeviceIDs", "IDList"))

clGetDeviceInfo(o) ==
  Ask("clGetDeviceInfo", o, "GetDeviceInfo",
      CASE o = {"id"}             -> "ID"
        [] o \in {{"u64"}, {"v2"}} -> "U64"
        [] o = {"sizes"}          -> "Pay8"
        [] o = {"raw"}            -> "Pay32")

\* An ErrorPacket is caught by catch (...) like everything else.
clCreateContext ==
  [Ask("clCreateContext", {}, "CreateContext", "ID") EXCEPT !.error = "NOT_AVAILABLE"]

clCreateContextFromType ==
  [Ask("clCreateContextFromType", {}, "CreateContextFromType", "ID")
     EXCEPT !.error = "NOT_AVAILABLE"]

clGetContextInfo == Ask("clGetContextInfo", {}, "GetContextInfo", "Pay8")

clRetainContext  == Ask("clRetainContext", {}, "Retain", "Success")
clReleaseContext == Ask("clReleaseContext", {}, "Release", "Success")

clGetSupportedImageFormats ==
  Ask("clGetSupportedImageFormats", {}, "GetImageFormats", "Pay16")

-----------------------------------------------------------------------------
(* Command queues. *)

clCreateCommandQueue == Ask("clCreateCommandQueue", {}, "CreateQueue", "ID")

clCreateCommandQueueWithProperties ==
  Ask("clCreateCommandQueueWithProperties", {}, "CreateQueueWithProp", "ID")

clGetCommandQueueInfo(o) ==
  Ask("clGetCommandQueueInfo", o, "GetQueueInfo", IF o = {"id"} THEN "ID" ELSE "Pay8")

clFlush  == Ask("clFlush", {}, "Flush", "Success")
clFinish == Ask("clFinish", {}, "Finish", "Success")

clRetainCommandQueue  == Ask("clRetainCommandQueue", {}, "Retain", "Success")
clReleaseCommandQueue == Ask("clReleaseCommandQueue", {}, "Release", "Success")

-----------------------------------------------------------------------------
(* Memory objects. *)

clEnqueueFillBuffer(o) ==
  Call("clEnqueueFillBuffer", o,
       <<W("FillBuffer")>> \o WaitList(o) \o <<F>> \o EventID(o) \o <<R("Success")>>)

clEnqueueReadBuffer(o) ==
  Call("clEnqueueReadBuffer", o,
       <<W("ReadBuffer")>> \o WaitList(o) \o <<F>> \o EventID(o) \o <<R("Pay32")>>)

clEnqueueReadBufferRect(o) ==
  Call("clEnqueueReadBufferRect", o,
       <<W("ReadBufferRect")>> \o WaitList(o) \o <<F>> \o EventID(o) \o <<R("Pay32")>>)

clEnqueueWriteBuffer(o) ==
  Call("clEnqueueWriteBuffer", o,
       <<W("WriteBuffer")>> \o WaitList(o) \o <<W("Pay32"), F>> \o EventID(o)
         \o <<R("Success")>>)

clCreateBuffer(o) ==
  Call("clCreateBuffer", o,
       <<W("CreateBuffer")>> \o When("host" \in o, W("Pay32")) \o <<F, R("ID")>>)

clCreateSubBuffer == Ask("clCreateSubBuffer", {}, "CreateSubBuffer", "ID")

clGetMemObjectInfo(o) ==
  Ask("clGetMemObjectInfo", o, "GetMemObjInfo", IF o = {"id"} THEN "ID" ELSE "Pay8")

clRetainMemObject  == Ask("clRetainMemObject", {}, "Retain", "Success")
clReleaseMemObject == Ask("clReleaseMemObject", {}, "Release", "Success")

-----------------------------------------------------------------------------
(* Images.  The server tells the client how much data to send. *)

clEnqueueReadImage(o) ==
  Call("clEnqueueReadImage", o,
       <<W("ReadImage")>> \o WaitList(o) \o <<F>> \o EventID(o) \o <<R("Pay32")>>)

clEnqueueWriteImage(o) ==
  Call("clEnqueueWriteImage", o,
       <<W("WriteImage")>> \o WaitList(o) \o <<F, R("U32"), W("Pay32"), F>>
         \o <<R(IF "event" \in o THEN "ID" ELSE "Success")>>)

clCreateImage(o) ==
  Call("clCreateImage", o,
       <<W("CreateImage"), F>>
         \o (IF "host" \in o THEN <<R("U32"), W("Pay32"), F>> ELSE << >>) \o <<R("ID")>>)

clGetImageInfo(o) ==
  Ask("clGetImageInfo", o, "GetImageInfo", IF o = {"id"} THEN "ID" ELSE "Pay8")

-----------------------------------------------------------------------------
(* Programs. *)

clCreateProgramWithSource ==
  Ask("clCreateProgramWithSource", {}, "CreateSourceProgram", "ID")

\* One binary for each device of the list, and one status for each of them.
clCreateProgramWithBinary(o) ==
  Call("clCreateProgramWithBinary", o,
       <<W("CreateBinaryProgram"), W("IDList")>> \o Times(Count(o), W("Pay32"))
         \o <<F, R("ID"), R("Pay16")>>)

clCompileProgram == Ask("clCompileProgram", {}, "CompileProgram", "Success")
clLinkProgram    == Ask("clLinkProgram", {}, "LinkProgram", "ID")

clBuildProgram ==
  Call("clBuildProgram", {}, <<W("BuildProgram"), W("IDList"), F, R("Success")>>)

clGetProgramBuildInfo == Ask("clGetProgramBuildInfo", {}, "BuildInfo", "Pay32")

clGetProgramInfo(o) ==
  Call("clGetProgramInfo", o,
       <<W("ProgramInfo"), F>>
         \o (CASE "id" \in o       -> <<R("ID")>>
               [] "ids" \in o      -> <<R("IDList")>>
               [] "binaries" \in o -> <<R("U8")>> \o Times(Count(o), R("Pay16"))
               [] "raw" \in o      -> <<R("Pay32")>>))

\* gConnection.get() is called outside of the try block.
clRetainProgram ==
  [LosesQuietly(Ask("clRetainProgram", {}, "Retain", "Success")) EXCEPT !.nostream = "throw"]

clReleaseProgram ==
  [LosesQuietly(Ask("clReleaseProgram", {}, "Release", "Success")) EXCEPT !.nostream = "throw"]

-----------------------------------------------------------------------------
(* Kernels. *)

clCreateKernel == Ask("clCreateKernel", {}, "CreateKernel", "ID")

clCreateKernelsInProgram(o) ==
  Ask("clCreateKernelsInProgram", o, "CreateKernels",
      IF "list" \in o THEN "IDList" ELSE "U32")

\* The server's answer 'I', 'S' or 'P' tells what to send.  A memory object
\* whose size is not that of a cl_mem is sent verbatim.
clSetKernelArg(o) ==
  Call("clSetKernelArg", o,
       <<W("SetKernelArg"), F, R("Char"),
         W(CASE {"I", "fits"} \subseteq o -> "ID" [] "S" \in o -> "U32" [] OTHER -> "Pay32"),
         F, R("Success")>>)

clGetKernelWorkGroupInfo(o) ==
  Ask("clGetKernelWorkGroupInfo", o, "KernelWGInfo",
      CASE o = {"sizes"} -> "Pay8" [] o = {"u64"} -> "U64" [] o = {"raw"} -> "Pay32")

clGetKernelInfo(o) ==
  Ask("clGetKernelInfo", o, "KernelInfo",
      CASE o = {"id"} -> "ID" [] o = {"u32"} -> "U32" [] o = {"raw"} -> "Pay32")

clGetKernelArgInfo(o) ==
  Ask("clGetKernelArgInfo", o, "KernelArgInfo", IF o = {"u32"} THEN "U32" ELSE "Pay32")

clCloneKernel == Ask("clCloneKernel", {}, "CloneKernel", "ID")

clRetainKernel  == Ask("clRetainKernel", {}, "Retain", "Success")
clReleaseKernel == Ask("clReleaseKernel", {}, "Release", "Success")

-----------------------------------------------------------------------------
(* Events and commands. *)

clSetEventCallback == Ask("clSetEventCallback", {}, "RegisterEventCallback", "Success")

clEnqueueNDRangeKernel(o) ==
  LosesQuietly(Call("clEnqueueNDRangeKernel", o,
    <<W("EnqueueKernel")>> \o WaitList(o) \o <<F>> \o EventID(o) \o <<R("Success")>>))

clCreateUserEvent    == Ask("clCreateUserEvent", {}, "CreateUserEvent", "ID")
clSetUserEventStatus == Ask("clSetUserEventStatus", {}, "SetUserEventStatus", "Success")

clGetEventInfo(o) ==
  Ask("clGetEventInfo", o, "GetEventInfo", IF o = {"id"} THEN "ID" ELSE "U32")

clGetEventProfilingInfo ==
  Ask("clGetEventProfilingInfo", {}, "GetEventProfilingInfo", "U64")

clWaitForEvents(o) ==
  Call("clWaitForEvents", o, <<W("WaitEvents"), W("IDList"), F, R("Success")>>)

clRetainEvent  == LosesQuietly(Ask("clRetainEvent", {}, "Retain", "Success"))
clReleaseEvent == LosesQuietly(Ask("clReleaseEvent", {}, "Release", "Success"))
=============================================================================

--------------------------- MODULE MCApiProtocol ---------------------------
(***************************************************************************)
(* Sets of calls for the runs of ApiProtocol.                              *)
(***************************************************************************)
EXTENDS ApiProtocol

Lists == SUBSET {"wait", "event"}

\* Queries, with every class of parameter each of them knows.
Queries ==
  {clGetPlatformIDs, clGetPlatformInfo, clGetDeviceIDs, clGetContextInfo,
   clGetSupportedImageFormats, clGetProgramBuildInfo, clGetEventProfilingInfo}
  \cup {clGetDeviceInfo({q}) : q \in {"id", "u64", "v2", "sizes", "raw"}}
  \cup {clGetCommandQueueInfo({q}) : q \in {"id", "raw"}}
  \cup {clGetMemObjectInfo({q}) : q \in {"id", "raw"}}
  \cup {clGetImageInfo({q}) : q \in {"id", "raw"}}
  \cup {clGetProgramInfo(q) : q \in {{"id"}, {"ids"}, {"binaries"}, {"binaries", "two"}, {"raw"}}}
  \cup {clGetKernelWorkGroupInfo({q}) : q \in {"sizes", "u64", "raw"}}
  \cup {clGetKernelInfo({q}) : q \in {"id", "u32", "raw"}}
  \cup {clGetKernelArgInfo({q}) : q \in {"u32", "raw"}}
  \cup {clGetEventInfo({q}) : q \in {"id", "u32", "unknown"}}

Creations ==
  {clCreateContext, clCreateContextFromType, clCreateCommandQueue,
   clCreateCommandQueueWithProperties, clCreateSubBuffer, clCreateProgramWithSource,
   clCompileProgram, clLinkProgram, clBuildProgram, clCreateKernel, clCloneKernel,
   clCreateUserEvent}
  \cup {clCreateBuffer(o) : o \in SUBSET {"host"}}
  \cup {clCreateImage(o) : o \in SUBSET {"host"}}
  \cup {clCreateProgramWithBinary(o) : o \in SUBSET {"two"}}
  \cup {clCreateKernelsInProgram(o) : o \in SUBSET {"list"}}

Counts ==
  {clRetainDevice, clReleaseDevice, clRetainContext, clReleaseContext,
   clRetainCommandQueue, clReleaseCommandQueue, clRetainMemObject, clReleaseMemObject,
   clRetainProgram, clReleaseProgram, clRetainKernel, clReleaseKernel,
   clRetainEvent, clReleaseEvent}

\* Of the image transfers those without an event list, and of the kernel
\* arguments those of the right size: the two sides disagree on the others.
Commanding ==
  {clFlush, clFinish, clSetUserEventStatus, clWaitForEvents({})}
  \cup {clEnqueueFillBuffer(o) : o \in Lists}
  \cup {clEnqueueReadBuffer(o) : o \in Lists}
  \cup {clEnqueueReadBufferRect(o) : o \in Lists}
  \cup {clEnqueueWriteBuffer(o) : o \in Lists}
  \cup {clEnqueueNDRangeKernel(o) : o \in Lists}
  \cup {clEnqueueReadImage(o) : o \in SUBSET {"event"}}
  \cup {clEnqueueWriteImage(o) : o \in SUBSET {"event"}}
  \cup {clSetKernelArg(o) : o \in {{"I", "fits"}, {"S"}, {"P"}, {"P", "fits"}}}

AllCalls == Queries \cup Creations \cup Counts \cup Commanding

\* One call of each shape of conversation that reports a lost connection.
Shapes ==
  {clCreateContext, clEnqueueWriteBuffer({"wait", "event"}), clSetKernelArg({"I", "fits"}),
   clCreateProgramWithBinary({"two"})}

\* A question back with a large payload, a large payload in the reply, and the two
\* calls on which the two sides disagree so that an assertion fails, of the
\* server or (built for OpenCL 1.2) of the client.
Conversations == {clSetKernelArg({"P"}), clGetProgramBuildInfo,
                  clSetKernelArg({"I"}), clGetDeviceInfo({"v2"})}

\* Calls on which the code disagrees with what is said of it.
Callbacks    == {clSetEventCallback, clFlush}
OddArguments == {clSetKernelArg({"I"})}
ImageLists   == {clEnqueueReadImage({"wait"})}
Enqueues     == {clEnqueueNDRangeKernel({})}
Clones       == {clCloneKernel, clFlush}
DeviceSizes  == {clGetDeviceInfo({"v2"})}
UserEvents   == {clWaitForEvents({"user"}), clSetUserEventStatus}
=============================================================================

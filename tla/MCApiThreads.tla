---------------------------- MODULE MCApiThreads ----------------------------
(***************************************************************************)
(* The calls of MCApiProtocol, and what the proofs assume of them.         *)
(***************************************************************************)
EXTENDS MCApiProtocol

\* The calls that return success when the connection is lost.
Silent ==
  {clGetPlatformIDs, clGetDeviceIDs, clRetainProgram, clReleaseProgram,
   clRetainEvent, clReleaseEvent} \cup {clEnqueueNDRangeKernel(o) : o \in Lists}

\* The client and a server that is built for OpenCL 2.1 agree on every call;
\* on the calls with which the code disagrees with itself they do not.  All
\* calls but the silent ones report the loss of the connection, and all report the
\* failure of their command.
ASSUME CallsAgree ==
  /\ TargetCL >= 210 => \A c \in AllCalls \cup Shapes \cup UserEvents \cup Enqueues :
                        Conversation(c) /\ Unblocked(c)
  /\ \A c \in AllCalls : ReportsLoss(c) <=> c \notin Silent
  /\ \A c \in AllCalls \cup Shapes \cup UserEvents \cup Enqueues : ReportsFailure(c)
  /\ \A c \in OddArguments \cup ImageLists \cup {clSetEventCallback} : ~Conversation(c)
=============================================================================

---------------------------- MODULE MCEventStream ----------------------------
(* Applications for TLC. *)
EXTENDS EventStream

\* Callbacks that make no OpenCL call, and those that make any call.
Simple == [ops |-> Ops, inside |-> {}, max |-> 2]
Nested == [ops |-> Ops, inside |-> Ops, max |-> 2]

MCApps  == {Simple, Nested}
MCCodes == {0, -14}
=============================================================================

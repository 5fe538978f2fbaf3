---------------------------- MODULE MCObjectTable ----------------------------
(* Driver objects for TLC. *)
EXTENDS ObjectTable

CONSTANTS p1, d1, d2

MCPlatforms == <<p1>>
MCDevices   == <<d1, d2>>
MCKinds     == {"Context", "Program", "MemObject", "Event"}
=============================================================================

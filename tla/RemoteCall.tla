----------------------------- MODULE RemoteCall -----------------------------
(***************************************************************************)
(* What forwarding a call promises to a thread of the application: the     *)
(* command is carried out at most once per call, and the result the call   *)
(* returns is the one the command had.  A call that is refused for its     *)
(* arguments was not carried out; one that loses the connection may or may *)
(* not have been, and the caller is not told which.                        *)
(***************************************************************************)
CONSTANT Threads

VARIABLES active,   \* active[t]: thread t is inside a call
          ran,      \* ran[t]: "no", or how the command of t's call ended
          result    \* result[t]: what t's last call returned

vars == <<active, ran, result>>

Init ==
  /\ active = [t \in Threads |-> FALSE]
  /\ ran = [t \in Threads |-> "no"]
  /\ result = [t \in Threads |-> "none"]

Invoke(t) ==
  /\ ~active[t]
  /\ active' = [active EXCEPT ![t] = TRUE]
  /\ ran' = [ran EXCEPT ![t] = "no"]
  /\ result' = [result EXCEPT ![t] = "none"]

Execute(t) ==
  /\ active[t] /\ ran[t] = "no"
  /\ \E outcome \in {"ok", "failed"} : ran' = [ran EXCEPT ![t] = outcome]
  /\ UNCHANGED <<active, result>>

\* The results a call may give when its command ended as `outcome`.
Allowed(outcome) ==
  {"NOT_AVAILABLE"}
    \cup (IF outcome = "ok" THEN {"SUCCESS"} ELSE {})
    \cup (IF outcome = "failed" THEN {"ERROR"} ELSE {})
    \cup (IF outcome = "no" THEN {"INVALID"} ELSE {})

Return(t) ==
  /\ active[t]
  /\ active' = [active EXCEPT ![t] = FALSE]
  /\ \E r \in Allowed(ran[t]) : result' = [result EXCEPT ![t] = r]
  /\ UNCHANGED ran

Next == \E t \in Threads : Invoke(t) \/ Execute(t) \/ Return(t)

Spec == Init /\ [][Next]_vars
=============================================================================

SPECIFICATION Spec
CONSTANTS
  Threads = {t1}
  NoThread = NoThread
  Calls <- Callbacks
  Failures = {"driver"}
  Capacity = 2
  TargetCL = 220
INVARIANT SuccessMeansExecuted

SPECIFICATION Spec
CONSTANTS
  Threads = {t1, t2}
  NoThread = NoThread
  Calls <- Shapes
  Failures = {"driver", "cut", "nostream"}
  Capacity = 2
  TargetCL = 220
INVARIANTS
  OwnPackets
  DroppedMeansNotAvailable
PROPERTIES
  ImplementsRemoteCall

SPECIFICATION FairSpec
CONSTANTS
  Threads = {t1, t2}
  NoThread = NoThread
  Calls <- Conversations
  Failures = {"driver", "cut", "nostream"}
  Capacity = 1
  TargetCL = 120
PROPERTIES
  HolderReleases
  ServerEnds

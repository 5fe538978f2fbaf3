SPECIFICATION Spec
CONSTANTS
  Threads = {t1}
  NoThread = NoThread
  Calls <- AllCalls
  Failures = {"driver"}
  Capacity = 2
  TargetCL = 220
INVARIANTS
  SomeoneGoesOn
  TypesAgree
  QuietBetweenCalls
PROPERTIES
  ImplementsRemoteCall

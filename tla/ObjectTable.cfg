CONSTANTS
  Addresses = {a1, a2}
  p1 = p1
  d1 = d1
  d2 = d2
  Platforms <- MCPlatforms
  Devices <- MCDevices
  NULL = NULL
  Kinds <- MCKinds
  MaxID = 5
  MaxRefs = 2
SPECIFICATION FairSpec
INVARIANTS TypeOK HandlesMeanObjects CountsAgree WrapperFound
PROPERTIES CallsEnd

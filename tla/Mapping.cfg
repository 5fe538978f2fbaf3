CONSTANTS
  Threads = {t1, t2}
  Nobody = Nobody
  Pointers = {p1, p2}
  Values = {v1, v2}
  MapFlags = {{"r"}, {"w"}}
  Pending = 2
SYMMETRY Symmetry
SPECIFICATION Spec
INVARIANTS  MappingsStay TransfersAreCurrent HandlerMemoryIsSafe

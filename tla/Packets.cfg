CONSTANTS
  Base = 3
  Seeds = {0, 1, 2}
  Counts = {0, 1, 2, 3}
  Lengths = {0, 1, 8, 9}
  SizeTs = {1, 2, 4}
  DataSizes = {0, 2, 3, 8, 9, 12, 80}
  PatternBytes = 5
  Threshold = 10
  Debug = TRUE
  MaxPackets = 2
SPECIFICATION Spec
INVARIANTS RoundTrip InStep
CHECK_DEADLOCK FALSE

CONSTANTS
  Threads = {t1}
  Callback = Callback
  Drivers = {d1, d2}
  Main = Main
  Nobody = Nobody
  Apps <- MCApps
  Codes <- MCCodes
  Capacity = 1
  Failures = {"cut", "noevents"}
SPECIFICATION FairSpec
INVARIANTS DeliveredInOrder StreamInStep
PROPERTIES CallsReturn SignalsArrive DriverReturns
CHECK_DEADLOCK FALSE

CONSTANTS
  Threads = {t1}
  Callback = Callback
  Drivers = {d1}
  Main = Main
  Nobody = Nobody
  Apps <- MCApps
  Codes <- MCCodes
  Capacity = 1
  Failures = {"cut"}
SPECIFICATION Spec
INVARIANTS LossIsReported

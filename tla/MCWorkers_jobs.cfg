SPECIFICATION FairSpec
CONSTANTS
  t1 = t1
  t2 = t2
  t3 = t3
  t4 = t4
  Charges = {t1, t2, t3, t4}
  ReaderOf <- MCReader
  Configured = {"d1"}
  Qr = {t4}
  MaxPerFile = 1
  CronRuns = {w1, w2}
  ManualRuns = {}
  SettleFaults = {"abort", "enqueue", "send", "die"}
  MaxFiles = 2
  MaxFaults = 1
  PrintJobs = {j1, j2, j3}
  Capacity = 2
  MaxTries = 2
  Transactions = {x1}
  Cameras = {k1, k2}
  JobFaults = {"db", "printer", "redis", "kill"}
  MaxJobFaults = 2
  Visits = {v1, v2}
  KeepDays = 2
  MaxDays = 6
INVARIANTS
  WorkersTypeOK
  OneFilePerCharge
  
  VerdictIsTheBanks
  
  
  SnapshotLinked
  
PROPERTIES
  EveryChargeSettled
CHECK_DEADLOCK FALSE

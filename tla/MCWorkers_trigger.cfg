SPECIFICATION Spec
CONSTANTS
  t1 = t1
  t2 = t2
  t3 = t3
  t4 = t4
  Charges = {t1}
  ReaderOf <- MCReader
  Configured = {"d1"}
  Qr = {}
  MaxPerFile = 1
  CronRuns = {w1}
  ManualRuns = {m1}
  SettleFaults = {}
  MaxFiles = 2
  MaxFaults = 0
  PrintJobs = {}
  Capacity = 2
  MaxTries = 1
  Transactions = {}
  Cameras = {}
  JobFaults = {}
  MaxJobFaults = 0
  Visits = {}
  KeepDays = 2
  MaxDays = 0
INVARIANTS
  OneFilePerCharge
CHECK_DEADLOCK FALSE

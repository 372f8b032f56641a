SPECIFICATION FairSpec
CONSTANTS
  t1 = t1
  t2 = t2
  t3 = t3
  t4 = t4
  Charges = {t1, t2}
  ReaderOf <- MCByApi
  Configured = {"d1"}
  Qr = {}
  MaxPerFile = 1
  CronRuns = {w1, w2}
  ManualRuns = {}
  SettleFaults = {}
  MaxFiles = 2
  MaxFaults = 1
  PrintJobs = {}
  Capacity = 2
  MaxTries = 2
  Transactions = {}
  Cameras = {k1, k2}
  JobFaults = {"db", "printer", "redis", "kill"}
  MaxJobFaults = 2
  Visits = {}
  KeepDays = 2
  MaxDays = 0
PROPERTIES
  SuccessIsSettled
CHECK_DEADLOCK FALSE

SPECIFICATION Spec
CONSTANTS
  Gates = {g1}
  Workers = {u1, u2}
  WithPin = {u1}
  Requests = {q1, q2}
  Shifts = {s1}
  MaxSessions = 3
  Browsers = {b1}
  AccessLife = 1
  RefreshLife = 3
  AuthRequests = {a1, a2}
  MaxClock = 4
  MaxTokens = 3
  Slots = {r1, r2}
  MaxRequests = 2
  Window = 2
  MaxTime = 3
  MaxAdmitted = 5
  Steps = {z1, z2}
  Codes = {c1}
  SetupSlots = {p1, p2}
  MaxMints = 2
  MaxCommands = 1
  InCodes = {"i1", "i2"}
  OutCodes = {"o1", "o2"}
  MaxRows = 2
  MaxEvents = 4
  LogLength = 3
  ReplayCount = 2
  MaxBreaks = 2
  Editors = {e1, e2}
  MaxEdits = 3
  Stays <- MCStays
  Arrivals = {1430}
  Amounts = {0, 3, 20}
  GracePeriod = 15
  DayHours = {0, 1, 2, 3}
  MaxShifts = 2
  ByteValues = {0, 1, 2, 239}
  MaxPayload = 4
INVARIANTS
  ServerTypeOK
  CoveredOrAlerted
  OneChainPerGate
  RevokedForGood
  
  
  
  StepsKept
  
  
  ColumnsKept
  
CHECK_DEADLOCK FALSE

SPECIFICATION FairSpec
CONSTANTS
  Clients = {p1, p2}
  MaxClients = 2
  Actions = {"open_gate", "emoney_check_balance", "emoney_deduct", "print_receipt"}
  Statuses = {"SUCCESS", "LOST_CONTACT"}
  BoothCards = {k1}
  GateRows <- MCRows
  BoothFaults = {"io", "reopen", "relay", "api", "unplug", "crash"}
  MaxInputs = 2
  None = None
INVARIANTS
  TypeOK
  OpensEarned
  OneExchange
  CycleWhole
PROPERTIES
  Answered
  
CHECK_DEADLOCK FALSE

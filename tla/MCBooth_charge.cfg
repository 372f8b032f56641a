SPECIFICATION Spec
CONSTANTS
  Clients = {p1}
  MaxClients = 1
  Actions = {"emoney_deduct"}
  Statuses = {"SUCCESS"}
  BoothCards = {k1}
  GateRows <- MCCharged
  BoothFaults = {}
  MaxInputs = 1
  None = None
INVARIANTS
  ChargesBooked
CHECK_DEADLOCK FALSE

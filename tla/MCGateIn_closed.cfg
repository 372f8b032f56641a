SPECIFICATION Spec
CONSTANTS
  CbThreshold = 2
  Faults = {}
  RelayMode = "DUAL"
  RelayAttempts = 2
  HasRfid = TRUE
  SerialRfid = FALSE
  HasPrinter = FALSE
  Signals = {"IN1ON", "IN1OFF"}
  CommandTypes = {"open_gate"}
  Cards = {c1}
  MaxCommands = 2
  MaxTimers = 2
  MaxChan = 0
INVARIANTS
  BelievedOpenIsOpen

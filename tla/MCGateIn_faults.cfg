SPECIFICATION Spec
CONSTANTS
  CbThreshold = 2
  Faults = {"send", "redis", "crash"}
  RelayMode = "TRIPLE"
  RelayAttempts = 2
  HasRfid = TRUE
  SerialRfid = TRUE
  HasPrinter = TRUE
  Signals = {"IN1ON", "IN1OFF", "IN2ON", "IN3ON", "IN4ON", "W"}
  CommandTypes = {"open_gate", "print_ticket_then_open", "close_gate", "brake_gate", "cosmetic", "reset_gate", "reject_card", "inject_rss", "ignored", "malformed"}
  Cards = {c1}
  MaxCommands = 2
  MaxTimers = 1
  MaxChan = 0
INVARIANTS
  TypeOK
  
  PendingUntilHandled

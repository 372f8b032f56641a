SPECIFICATION EntrySpec
CONSTANTS
  CbThreshold = 1
  Faults = {"crash"}
  RelayMode = "SINGLE"
  RelayAttempts = 1
  HasRfid = TRUE
  SerialRfid = FALSE
  HasPrinter = FALSE
  Signals = {"IN1ON", "IN1OFF", "IN2ON", "W"}
  CommandTypes = {"open_gate", "print_ticket_then_open", "reject_card", "cosmetic"}
  Cards = {c1}
  Membership <- MCExpiring
  ConsumerFaults = {"db", "redis", "crash", "listen"}
  MaxCommands = 4
  MaxTimers = 1
  MaxChan = 1
  MaxTx = 2
INVARIANTS
  HasExit
  
  
  

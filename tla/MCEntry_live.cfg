SPECIFICATION EntryFairSpec
CONSTANTS
  CbThreshold = 1
  Faults = {}
  RelayMode = "SINGLE"
  RelayAttempts = 1
  HasRfid = TRUE
  SerialRfid = FALSE
  HasPrinter = TRUE
  Signals = {"IN1ON", "IN1OFF", "IN2ON", "W"}
  CommandTypes = {"open_gate", "print_ticket_then_open", "reject_card", "cosmetic"}
  Cards = {c1}
  Membership <- MCValid
  ConsumerFaults = {}
  MaxCommands = 2
  MaxTimers = 2
  MaxChan = 1
  MaxTx = 2
PROPERTIES
  ProcessingEnds
  OpeningEnds
  ValidatingEnds

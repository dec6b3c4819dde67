\* Liveness of each component; nothing fails that the code does not retry.
SPECIFICATION MCSpec
CONSTANTS
  Event <- Events
  PageLimit = 4
  ShortPages = FALSE
  Retention = 0
  MaxLedger = 3
  Parts = {"keeper", "indexer", "live", "messages"}
  Invoice = {i1, i2}
  PolledInvoice = {i1}
  Modes = {"sweep", "event-driven"}
  Lookback = 2
  PageSize = 1
  MaxTtlBumps = 2
  SweepEvery = 1
  MaxFailures = 1
  MaxFaults = 0
  MaxCrashes = 0
  Job = {j1}
  Offer = {o1}
INVARIANTS TypesOK 
PROPERTIES
  
  CursorRecovers
  RowCatchesUp
  PortfolioKeepsUp
  MessagesArrive
CHECK_DEADLOCK FALSE

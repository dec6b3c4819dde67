\* A catch-up whose checkpoint RPC has forgotten.
SPECIFICATION MCSpec
CONSTANTS
  Event <- Events
  PageLimit = 2
  ShortPages = FALSE
  Retention = 0
  MaxLedger = 4
  Parts = {"keeper"}
  Invoice = {i1}
  PolledInvoice = {i1}
  Job = {j1}
  Offer = {o1}
  Modes = {"event-catchup"}
  Lookback = 2
  PageSize = 1
  MaxTtlBumps = 2
  SweepEvery = 2
  MaxFailures = 2
  MaxFaults = 0
  MaxCrashes = 0
PROPERTIES OverdueIsMarked

\* The smallest instance in which a second job overwrites the row.
SPECIFICATION MCSpec
CONSTANTS
  Event <- Events
  Bursts <- MoreBursts
  PageLimit = 2
  ShortPages = FALSE
  Retention = 9
  MaxLedger = 4
  LastRead = 4
  Readers = {"indexer"}
  Invoice = {i1}
  Job = {j1}
  Backfill = 5
  MaxWindow = 9
  ClampMargin = 1
  MaxPages = 4
  MaxAborts = 0
INVARIANTS CountsEveryDefault

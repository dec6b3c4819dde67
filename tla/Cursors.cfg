\* Jobs overlap and die, RPC cuts pages short and prunes; the keeper in every
\* mode, with failing calls and a killed process.
SPECIFICATION MCSpec
CONSTANTS
  Event <- Events
  Bursts <- FewBursts
  PageLimit = 2
  ShortPages = TRUE
  Retention = 1
  MaxLedger = 4
  LastRead = 3
  Job = {j1, j2}
  Backfill = 2
  MaxWindow = 1
  ClampMargin = 1
  MaxPages = 3
  MaxAborts = 1
  Readers = {"indexer", "keeper"}
  Invoice = {i1}
SYMMETRY JobSymmetry
INVARIANTS TypesOK NoEventSkipped NeverOvercounts
 

------------------------------ MODULE MCCursors ------------------------------
(***************************************************************************)
(* The two readers of the event log under faults, one at a time: two       *)
(* overlapping indexer jobs (extended), or the keeper in its three modes.  *)
(* They share the variables of the log.                                    *)
(***************************************************************************)
EXTENDS Indexer, TLC

CONSTANTS
  Readers,   \* which of the two may run
  Invoice,   \* the keeper's
  LastRead   \* bound: the ledgers closed under the indexer

VARIABLES reader, registry, status, pastDue, alive, mode, disk, run, handled, expired,
          first, faults, crashes

Acceptance(l) == [name |-> "off_acc", lender |-> l]
Default == [name |-> "off_def"]

KeeperEvents == [name : {"inv_reg", "off_acc"}, invoice : Invoice]
Events == {Acceptance("l1"), Acceptance("l2"), Default} \union KeeperEvents
FewBursts == {<<>>, <<Acceptance("l1"), Default>>}
MoreBursts ==
  {<<>>, <<Acceptance("l1")>>, <<Default>>, <<Acceptance("l1"), Default, Acceptance("l2")>>}
JobSymmetry == Permutations(Job)

AllModes == {"event-driven", "event-catchup", "sweep"}

K == INSTANCE Keeper WITH
  PageLimit <- 1, ShortPages <- FALSE,
  Modes <- AllModes, Lookback <- 2, PageSize <- 1, MaxTtlBumps <- 2, SweepEvery <- 2,
  MaxFailures <- 2, MaxFaults <- 2, MaxCrashes <- 1

keeperVars == <<registry, status, pastDue, alive, mode, disk, run, handled, expired, first,
                faults, crashes>>
indexerVars == <<row, job, covered, lost, base, aborts>>
all == <<reader, logVars, keeperVars, indexerVars>>

(* The mode matters to the keeper only.                                    *)
MCInit ==
  /\ reader \in Readers
  /\ Init /\ K!Init
  /\ reader = "indexer" => mode = "sweep"

MCNext ==
  /\ UNCHANGED reader
  /\ \/ reader = "indexer" /\ Next /\ latest' <= LastRead /\ UNCHANGED keeperVars
     \/ reader = "keeper" /\ K!Next /\ UNCHANGED indexerVars

MCSpec == MCInit /\ [][MCNext]_all

-----------------------------------------------------------------------------
(* NoEventSkipped and NeverOvercounts are the indexer's own; a row that    *)
(* was never written satisfies both.                                       *)

(* The type invariants of both readers. *)
TypesOK == IF reader = "indexer" THEN TypeOK ELSE K!TypeOK

(* The keeper's checkpoint and cursor never pass an event that was not     *)
(* handled, and the checkpoint is never taken back.                        *)
KeeperMissesNothing ==
  /\ [](reader = "keeper" => K!NoEventMissed)
  /\ K!CheckpointAdvances
=============================================================================

----------------------------- MODULE MCProgress ------------------------------
(***************************************************************************)
(* What must happen in the end, for the components that promise something  *)
(* of the kind, one at a time: the keeper (extended), which sweeps two     *)
(* pages or polls for one invoice, the indexer's schedule, the live        *)
(* portfolio and the messaging panel.  Keeper and indexer share the log.   *)
(***************************************************************************)
EXTENDS Keeper, TLC

CONSTANTS
  Parts,          \* the components behaviours are about
  PolledInvoice,  \* bound: the invoices registered while the keeper polls
  Job, Offer

VARIABLES
  part,
  row, job, covered, lost, base, aborts,                              \* Indexer
  repaid, mirror, relayUp, ws, polling, throttle, resync, page, restarts,  \* LivePortfolio
  rows, me, key, deriving, raced, fetch, list, send, marking, switches   \* Messages

Events == [name : {"inv_reg", "off_acc"}, invoice : Invoice]

Acceptance(l) == [name |-> "off_acc", lender |-> l]
Default == [name |-> "off_def"]
IndexerEvents == {Acceptance("l1"), Acceptance("l2"), Default}
IndexerBursts ==
  {<<>>, <<Acceptance("l1")>>, <<Default>>, <<Acceptance("l1"), Default, Acceptance("l2")>>}

I == INSTANCE Indexer WITH
  Event <- IndexerEvents, Bursts <- IndexerBursts, PageLimit <- 2, Retention <- 2,
  MaxLedger <- 4, Backfill <- 2, MaxWindow <- 9, ClampMargin <- 1, MaxPages <- 6,
  MaxAborts <- 1

L == INSTANCE LivePortfolio WITH
  Due <- 2, MaxInitial <- 2, MaxRelayFailures <- 3, MaxRestarts <- 1

M == INSTANCE Messages WITH
  Wallets <- {"w1", "w2"}, Peer <- "peer", Fetches <- {"f1", "f2"}, MaxRows <- 1,
  MaxSwitches <- 1, MaxFaults <- 1

keeperRest == <<registry, status, pastDue, alive, mode, disk, run, handled, expired, first,
                crashes>>
indexerRest == <<row, job, covered, lost, base, aborts>>
liveRest == <<repaid, mirror, relayUp, ws, polling, throttle, resync, page, restarts>>
messageRest == <<rows, me, key, deriving, raced, fetch, list, send, marking, switches>>
all == <<part, logVars, faults, keeperRest, indexerRest, liveRest, messageRest>>

MCInit ==
  /\ part \in Parts
  /\ Init /\ I!Init /\ L!Init /\ M!Init
  /\ part # "keeper" => mode = "sweep"
  /\ part # "live" => ~relayUp
  /\ part # "messages" => me = "w1"

KeeperQuiet == UNCHANGED <<indexerRest, liveRest, messageRest, part>>
IndexerQuiet == UNCHANGED <<keeperRest, faults, liveRest, messageRest, part>>
LiveQuiet == UNCHANGED <<logVars, keeperRest, faults, indexerRest, messageRest, part>>
MessagesQuiet == UNCHANGED <<logVars, keeperRest, indexerRest, liveRest, part>>

MCNext ==
  \/ /\ part = "keeper" /\ Next /\ KeeperQuiet
     /\ mode = "sweep" \/ ToSet(registry') \subseteq PolledInvoice
  \/ part = "indexer" /\ I!Next /\ IndexerQuiet
  \/ part = "live" /\ L!Next /\ LiveQuiet
  \/ part = "messages" /\ M!Next /\ MessagesQuiet

(* The fairness of each component, for the part it has.                    *)
Keeps == part = "keeper" /\ KeeperStep /\ KeeperQuiet
Indexes(j) == part = "indexer" /\ I!JobStep(j) /\ IndexerQuiet
Connects == part = "live" /\ L!Connect /\ LiveQuiet
Handshakes == part = "live" /\ L!HandshakeEnds /\ LiveQuiet
Resyncs == part = "live" /\ L!ResyncTimer /\ LiveQuiet
Answers == part = "live" /\ L!FetchAnswers /\ LiveQuiet
Reads == part = "live" /\ L!ReadsRows /\ LiveQuiet
Derives(w) == part = "messages" /\ M!KeyDerived(w) /\ MessagesQuiet
Starts(f) == part = "messages" /\ M!StartFetch(f) /\ MessagesQuiet
Queries(f) == part = "messages" /\ M!Query(f) /\ MessagesQuiet
Installs(f) == part = "messages" /\ M!Install(f) /\ MessagesQuiet
Appends == part = "messages" /\ M!AppendSent /\ MessagesQuiet

MCSpec ==
  /\ MCInit /\ [][MCNext]_all
  /\ WF_all(Keeps) /\ \A j \in Job : WF_all(Indexes(j))
  /\ WF_all(Connects) /\ WF_all(Handshakes) /\ WF_all(Resyncs) /\ WF_all(Answers)
  /\ SF_all(Reads)
  /\ \A w \in {"w1", "w2"} : WF_all(Derives(w))
  /\ \A f \in {"f1", "f2"} : WF_all(Starts(f)) /\ WF_all(Queries(f)) /\ WF_all(Installs(f))
  /\ WF_all(Appends)

-----------------------------------------------------------------------------
(* The type invariants of the portfolio and the messages (those of the     *)
(* keeper and the indexer are checked with their faults).                  *)
TypesOK == L!TypeOK /\ M!TypeOK

(* SweepsReachAll and CursorRecovers are the keeper's own: no other part   *)
(* registers an invoice or holds a cursor.                                 *)

(* The row moves forward and catches up with the log.                      *)
RowCatchesUp == I!RowNeverGoesBack /\ <>[](part = "indexer" => I!AllRead)

(* Streamed updates never mislead and are never left behind.               *)
UpdatesAreSound == L!UpdatesAreSound

(* A relay that keeps failing hands over to polling, and the page shows    *)
(* the mirror's rows again and again.                                      *)
PortfolioKeepsUp ==
  L!ReconnectsAtMostSoOften /\ []<>(part = "live" => L!UpToDate)

(* A message can be read by the one it is for, and the panel shows it.     *)
MessagesArrive ==
  [](part = "messages" => M!SentIsReadable) /\ <>[](part = "messages" => M!Shown \/ raced)
=============================================================================

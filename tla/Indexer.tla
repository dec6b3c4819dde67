------------------------------ MODULE Indexer -------------------------------
(***************************************************************************)
(* The protocol indexer (apps/indexer): jobs that replay the contract      *)
(* events from the ledger the protocol_stats row names and upsert the row. *)
(* A job awaits RPC and the database between its steps; the ledger moves   *)
(* on meanwhile, a job can die at any of them, and nothing keeps a         *)
(* scheduled job and a dispatched one apart.                               *)
(***************************************************************************)
EXTENDS EventLog, FiniteSets

CONSTANTS
  Bursts,      \* the sequences of events one ledger may hold
  Job,         \* the places jobs run
  Backfill,    \* BACKFILL_LEDGERS
  MaxWindow,   \* MAX_WINDOW_LEDGERS
  ClampMargin, \* ledgers a rejected query moves past the retention start
  MaxPages,    \* pages after which the guard trips
  MaxAborts    \* bound on the jobs that die

ASSUME IndexerAssumption ==
  /\ Bursts \subseteq Seq(Event)
  /\ Backfill \in Nat /\ MaxWindow \in Nat /\ ClampMargin \in Nat
  /\ MaxPages \in Nat /\ MaxAborts \in Nat
  /\ \A e \in Event : e.name \in STRING

VARIABLES
  row,        \* the protocol_stats row; last = 0 before the first upsert
  job,        \* the jobs' local variables
  covered,    \* history: entries folded by a job whose row was saved
  lost,       \* history: entries a capped or clamped window left out
  base,       \* history: the ledgers a job that found no row backfilled from
  aborts

history == <<covered, lost, base>>
vars == <<logVars, row, job, history, aborts>>

Max2(a, b) == IF a > b THEN a ELSE b
Min2(a, b) == IF a < b THEN a ELSE b

Named(S, name) == {i \in S : log[i].event.name = name}

emptyAggregates == [financed |-> 0, lenders |-> {}, defaulted |-> 0]

(* foldEvent over the entries of one page. *)
FoldPageOf(agg, page) ==
  [financed  |-> agg.financed + Cardinality(Named(page, "off_acc")),
   lenders   |-> agg.lenders \union {log[i].event.lender : i \in Named(page, "off_acc")},
   defaulted |-> agg.defaulted + Cardinality(Named(page, "off_def"))]

NoJob == [pc |-> "off", end |-> 0, volume |-> 0, prev |-> 0, from |-> 0, start |-> 0, cursor |-> 0,
          tail |-> 0, last |-> 0, pages |-> 0, agg |-> emptyAggregates, folded |-> {}]

Init ==
  /\ LogInit
  /\ row = [financed |-> 0, lenders |-> 0, defaulted |-> 0, volume |-> 0, last |-> 0]
  /\ job = [j \in Job |-> NoJob]
  /\ covered = {}
  /\ lost = {}
  /\ base = {}
  /\ aborts = 0

Unsaved == UNCHANGED <<logVars, row, history, aborts>>

(* main: getLatestLedger comes first. *)
StartJob(j) ==
  /\ job[j].pc = "off"
  /\ job' = [job EXCEPT ![j].pc = "totals", ![j].end = latest]
  /\ Unsaved

(* The registry's running total, here the number of offers accepted so far. *)
ReadTotals(j) ==
  /\ job[j].pc = "totals"
  /\ job' = [job EXCEPT ![j].pc = "checkpoint",
                        ![j].volume = Cardinality(Named(1..Len(log), "off_acc"))]
  /\ Unsaved

Checkpoint(end) ==
  IF row.last > 0 THEN row.last
  ELSE IF end > Backfill THEN Max2(1, end - Backfill) ELSE 1

(* Mutant: the last closed ledger is taken to have been read already. *)
LoadCheckpointLate(j) ==
  /\ job[j].pc = "checkpoint"
  /\ LET c == Checkpoint(job[j].end)
     IN  job' = [job EXCEPT ![j].prev = row.last,
                            ![j].from = c, ![j].last = c, ![j].start = c,
                            ![j].pc = IF c + 1 < job[j].end THEN "range" ELSE "save"]
  /\ Unsaved

LoadCheckpoint(j) ==
  /\ job[j].pc = "checkpoint"
  /\ LET c == Checkpoint(job[j].end)
     IN  job' = [job EXCEPT ![j].prev = row.last,
                            ![j].from = c, ![j].last = c, ![j].start = c,
                            ![j].pc = IF c < job[j].end THEN "range" ELSE "save"]
  /\ Unsaved

WindowStart(j) == Max2(1, job[j].end - Min2(job[j].end - job[j].from, MaxWindow))

(* The range query, moved past the retention start when RPC rejects it. *)
RangeStart(j) ==
  IF WindowStart(j) < oldest THEN oldest + ClampMargin ELSE WindowStart(j)

FetchRange(j) ==
  /\ job[j].pc = "range"
  /\ RangeStart(j) <= job[j].end
  /\ \E p \in Cursors : \E q \in PageEnds(p, job[j].end) :
       /\ StartsAt(p, RangeStart(j))
       /\ job' = [job EXCEPT ![j].pc = "fold", ![j].start = RangeStart(j),
                             ![j].cursor = p, ![j].tail = q]
  /\ Unsaved

(* No range is acceptable: fetchEventsFromRange throws and the job ends. *)
RangeRejected(j) ==
  /\ job[j].pc = "range"
  /\ RangeStart(j) > job[j].end
  /\ job' = [job EXCEPT ![j] = NoJob]
  /\ Unsaved

(* One turn of the loop; an empty page ends it. *)
FoldPage(j) ==
  LET page == job[j].cursor + 1 .. job[j].tail IN
  /\ job[j].pc = "fold"
  /\ job[j].pages < MaxPages
  /\ job' = [job EXCEPT ![j].pages = @ + 1,
                        ![j].agg = FoldPageOf(@, page),
                        ![j].folded = @ \union page,
                        ![j].last = LastLedger(job[j].cursor, job[j].tail, @),
                        ![j].pc = IF page = {} THEN "save" ELSE "next"]
  /\ Unsaved

(* The page after the last allowed one is folded, then the guard throws. *)
PaginationGuard(j) ==
  /\ job[j].pc = "fold"
  /\ job[j].pages = MaxPages
  /\ job' = [job EXCEPT ![j] = NoJob]
  /\ Unsaved

(* Mutant: the next query is made with the cursor of the page before. *)
FetchSame(j) ==
  /\ job[j].pc = "next"
  /\ \E q \in PageEnds(job[j].cursor, latest) :
       job' = [job EXCEPT ![j].pc = "fold", ![j].tail = q]
  /\ Unsaved

(* Mutant: a full page is expected, whatever there is to read. *)
FetchFull(j) ==
  /\ job[j].pc = "next"
  /\ job' = [job EXCEPT ![j].pc = "fold", ![j].cursor = job[j].tail,
                        ![j].tail = job[j].tail + PageLimit]
  /\ Unsaved

(* The cursor query names no end: it may return events past job.end. *)
FetchNext(j) ==
  /\ job[j].pc = "next"
  /\ \E q \in PageEnds(job[j].tail, latest) :
       job' = [job EXCEPT ![j].pc = "fold", ![j].cursor = job[j].tail, ![j].tail = q]
  /\ Unsaved

(* Mutant: the checkpoint is the last ledger asked for, not the last seen. *)
StatsToEnd(s) ==
  [financed |-> s.agg.financed, lenders |-> Cardinality(s.agg.lenders),
   defaulted |-> s.agg.defaulted, volume |-> s.volume, last |-> Max2(s.last, s.end)]

(* Mutant: the event-derived number wins over the total read on chain. *)
StatsFromEvents(s) ==
  [financed |-> s.agg.financed, lenders |-> Cardinality(s.agg.lenders),
   defaulted |-> s.agg.defaulted, volume |-> s.agg.financed, last |-> Max2(s.last, s.from)]

Stats(s) ==
  [financed |-> s.agg.financed, lenders |-> Cardinality(s.agg.lenders),
   defaulted |-> s.agg.defaulted, volume |-> s.volume, last |-> Max2(s.last, s.from)]

(* It found no row, and no other job has got as far meanwhile. *)
Backfilled(s) == s.prev = 0 /\ row.last < s.from

SaveStats(j) ==
  /\ job[j].pc = "save"
  /\ row' = Stats(job[j])
  /\ covered' = covered \union job[j].folded
  /\ lost' = lost \union {i \in 1..Len(log) : log[i].ledger \in job[j].from..job[j].start - 1}
  /\ base' = IF Backfilled(job[j]) THEN base \union {job[j].from} ELSE base
  /\ job' = [job EXCEPT ![j] = NoJob]
  /\ UNCHANGED <<logVars, aborts>>

(* Any await can reject, and the job can be killed: nothing is written. *)
AbortJob(j) ==
  /\ job[j].pc # "off"
  /\ aborts < MaxAborts
  /\ aborts' = aborts + 1
  /\ job' = [job EXCEPT ![j] = NoJob]
  /\ UNCHANGED <<logVars, row, history>>

JobStep(j) ==
  \/ StartJob(j) \/ ReadTotals(j) \/ LoadCheckpoint(j) \/ FetchRange(j)
  \/ RangeRejected(j) \/ FoldPage(j) \/ PaginationGuard(j) \/ FetchNext(j) \/ SaveStats(j)

ChainStep ==
  /\ Prune \/ \E events \in Bursts : CloseLedger(events)
  /\ UNCHANGED <<row, job, history, aborts>>

Next == ChainStep \/ \E j \in Job : JobStep(j) \/ AbortJob(j)

Spec == Init /\ [][Next]_vars

(* The schedule runs the jobs again and again. *)
FairSpec == Spec /\ \A j \in Job : WF_vars(JobStep(j))

-----------------------------------------------------------------------------
(* Properties                                                              *)

(* The log, the row, the jobs and the history hold values of their kinds. *)
TypeOK ==
  /\ LogTypeOK
  /\ row \in [financed : Nat, lenders : Nat, defaulted : Nat, volume : Nat, last : Nat]
  /\ \A j \in Job :
       /\ job[j].pc \in {"off", "totals", "checkpoint", "range", "fold", "next", "save"}
       /\ {job[j].cursor, job[j].tail} \subseteq Cursors
       /\ job[j].cursor <= job[j].tail
       /\ job[j].folded \subseteq 1..Len(log)
  /\ covered \union lost \subseteq 1..Len(log)
  /\ aborts \in 0..MaxAborts

(* The checkpoint never passes an event that no saved job folded, unless   *)
(* the window cap or RPC's retention left it out: main advances it only to *)
(* the ledger of an event it has seen, and reads that ledger again.        *)
NoEventSkipped ==
  row.last > 0 =>
    \A i \in 1..Len(log) :
      /\ log[i].ledger < row.last
      /\ \A b \in base : log[i].ledger >= b
      => i \in covered \union lost

(* The row never counts an event twice, though consecutive jobs read the   *)
(* boundary ledger twice: its counts are at most what the chain emitted.   *)
NeverOvercounts ==
  /\ row.financed <= Cardinality(Named(1..Len(log), "off_acc"))
  /\ row.defaulted <= Cardinality(Named(1..Len(log), "off_def"))
  /\ row.lenders <= row.financed

(* With one job at a time an upsert never takes the checkpoint or the      *)
(* chain totals of the row back to earlier values.                         *)
RowNeverGoesBack == [][row'.last >= row.last /\ row'.volume >= row.volume]_row

(* Every event is eventually folded by a saved job, or left out for good.  *)
AllRead ==
  \A i \in 1..Len(log) :
    i \in covered \union lost \/ \E b \in base : log[i].ledger < b

CatchesUp == <>[]AllRead

(* Both: the row moves forward and gets there.                             *)
RowCatchesUp == RowNeverGoesBack /\ CatchesUp

(* "Event replay (checkpointed, incremental)" gives the defaulted count:   *)
(* the row has counted every default the indexer ever folded.              *)
CountsEveryDefault == row.defaulted >= Cardinality(Named(covered, "off_def"))
=============================================================================

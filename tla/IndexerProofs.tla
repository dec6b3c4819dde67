---------------------------- MODULE IndexerProofs ----------------------------
(***************************************************************************)
(* Proofs about the indexer, for any number of overlapping jobs, any page  *)
(* size, backfill, window and retention: no event is skipped, none counted *)
(* twice.                                                                  *)
(***************************************************************************)
EXTENDS Indexer, FiniteSetTheorems, SequenceTheorems, TLAPS

(* The log only grows: no entry changes, and new ones are of a new ledger. *)
LogOK ==
  /\ LogTypeOK
  /\ \A i \in 1..Len(log) : log[i].ledger <= latest
  /\ \A i, k \in 1..Len(log) : i <= k => log[i].ledger <= log[k].ledger

LogGrows ==
  /\ latest' \in Nat /\ latest <= latest'
  /\ Len(log) <= Len(log')
  /\ \A i \in 1..Len(log) : log'[i] = log[i]
  /\ \A i \in 1..Len(log') : log'[i].ledger \in Nat /\ (i > Len(log) => log'[i].ledger > latest)

LEMMA LogFacts ==
  ASSUME LogOK
  PROVE  /\ Len(log) \in Nat /\ latest \in Nat
         /\ \A i \in 1..Len(log) :
              log[i] \in Entry /\ log[i].ledger \in Nat /\ log[i].event \in Event
<1>1. log \in Seq(Entry) /\ latest \in Nat
  BY DEF LogOK, LogTypeOK
<1>2. \A i \in 1..Len(log) : log[i] \in Entry
  BY <1>1
<1> QED
  BY <1>1, <1>2 DEF Entry

LEMMA CloseLedgerAppends ==
  ASSUME IndexerAssumption, LogAssumption, LogOK, NEW events \in Bursts, CloseLedger(events)
  PROVE  LogOK' /\ LogGrows
<1> DEFINE new == [i \in 1..Len(events) |-> [ledger |-> latest + 1, event |-> events[i]]]
<1>1. /\ events \in Seq(Event) /\ log \in Seq(Entry) /\ latest \in 1..MaxLedger
      /\ latest < MaxLedger /\ MaxLedger \in Nat
  BY DEF IndexerAssumption, LogAssumption, LogOK, LogTypeOK, CloseLedger
<1>2. new \in Seq(Entry) /\ Len(new) = Len(events) /\ Len(events) \in Nat
  <2>1. Len(events) \in Nat /\ \A i \in 1..Len(events) : events[i] \in Event
    BY <1>1
  <2>2. new \in [1..Len(events) -> Entry]
    BY <1>1, <2>1 DEF Entry
  <2>3. \A n \in Nat : \A f \in [1..n -> Entry] : f \in Seq(Entry) /\ Len(f) = n
    OBVIOUS
  <2> HIDE DEF new
  <2> QED
    BY <2>1, <2>2, <2>3
<1>3. log' = log \o new /\ latest' = latest + 1 /\ oldest' = oldest
  BY DEF CloseLedger
<1> HIDE DEF new
<1>4. /\ log' \in Seq(Entry) /\ Len(log') = Len(log) + Len(new)
      /\ \A i \in 1..Len(log) : log'[i] = log[i]
      /\ \A i \in 1..Len(log') : i > Len(log) => log'[i] = new[i - Len(log)]
  <2>1. Len(log) \in Nat /\ Len(new) \in Nat
    BY <1>1, <1>2
  <2>2. /\ log \o new \in Seq(Entry) /\ Len(log \o new) = Len(log) + Len(new)
        /\ \A i \in 1 .. Len(log) + Len(new) :
             (log \o new)[i] = IF i <= Len(log) THEN log[i] ELSE new[i - Len(log)]
    BY <1>1, <1>2, ConcatProperties
  <2> QED
    BY <1>3, <2>1, <2>2
<1>5. \A i \in 1..Len(log') : i > Len(log) => log'[i].ledger = latest + 1
  <2> SUFFICES ASSUME NEW i \in 1..Len(log'), i > Len(log)
               PROVE  log'[i].ledger = latest + 1
    OBVIOUS
  <2>1. i - Len(log) \in 1..Len(events)
    BY <1>1, <1>2, <1>4
  <2>2. new[i - Len(log)].ledger = latest + 1
    BY <2>1 DEF new
  <2> QED
    BY <1>4, <2>2
<1>6. \A i \in 1..Len(log) : log[i].ledger \in Nat /\ log[i].ledger <= latest
  BY LogFacts DEF LogOK
<1>7. LogGrows
  <2>1. \A i \in 1..Len(log') :
          log'[i].ledger \in Nat /\ (i > Len(log) => log'[i].ledger > latest)
    <3> TAKE i \in 1..Len(log')
    <3>1. i \in 1..Len(log) \/ i > Len(log)
      BY <1>1
    <3> QED
      BY <1>1, <1>4, <1>5, <1>6, <3>1
  <2> QED
    BY <1>1, <1>2, <1>3, <1>4, <2>1 DEF LogGrows
<1>8. \A i \in 1..Len(log') : log'[i].ledger <= latest'
  <2> TAKE i \in 1..Len(log')
  <2>1. CASE i > Len(log)
    BY <1>1, <1>3, <1>5, <2>1
  <2>2. CASE i \in 1..Len(log)
    BY <1>1, <1>3, <1>4, <1>6, <2>2
  <2> QED
    BY <1>1, <1>2, <1>4, <2>1, <2>2
<1>9. \A i, k \in 1..Len(log') : i <= k => log'[i].ledger <= log'[k].ledger
  <2> SUFFICES ASSUME NEW i \in 1..Len(log'), NEW k \in 1..Len(log'), i <= k
               PROVE  log'[i].ledger <= log'[k].ledger
    OBVIOUS
  <2>1. CASE k > Len(log)
    BY <1>1, <1>3, <1>5, <1>8, <2>1
  <2>2. CASE k \in 1..Len(log)
    <3>1. i \in 1..Len(log)
      BY <1>1, <2>2
    <3> QED
      BY <1>4, <2>2, <3>1 DEF LogOK
  <2> QED
    BY <1>1, <1>2, <1>4, <2>1, <2>2
<1>10. LogTypeOK'
  BY <1>1, <1>3, <1>4 DEF LogOK, LogTypeOK
<1> QED
  BY <1>7, <1>8, <1>9, <1>10 DEF LogOK

LEMMA LogKept ==
  ASSUME IndexerAssumption, LogAssumption, LogOK, [Next]_vars
  PROVE  LogOK' /\ LogGrows
<1>1. CASE Prune
  <2>1. log' = log /\ latest' = latest /\ oldest' = oldest + 1 /\ oldest' \in 1..MaxLedger
    BY <1>1 DEF Prune, LogOK, LogTypeOK, LogAssumption
  <2> QED
    BY <2>1, LogFacts DEF LogOK, LogTypeOK, LogGrows
<1>2. CASE \E events \in Bursts : CloseLedger(events)
  BY <1>2, CloseLedgerAppends
<1>3. CASE UNCHANGED logVars
  BY <1>3, LogFacts DEF LogOK, LogTypeOK, LogGrows, logVars
<1> QED
  BY <1>1, <1>2, <1>3
     DEF Next, ChainStep, JobStep, StartJob, ReadTotals, LoadCheckpoint, FetchRange, RangeRejected,
         FoldPage, PaginationGuard, FetchNext, SaveStats, AbortJob, Unsaved, vars

-----------------------------------------------------------------------------
(* Counting entries by name.                                               *)

LEMMA NamedKept ==
  ASSUME LogOK, LogGrows, NEW S \in SUBSET (1..Len(log)), NEW name
  PROVE  Named(S, name)' = Named(S, name)
BY DEF LogGrows, Named

LEMMA NamedFinite ==
  ASSUME LogOK, NEW S \in SUBSET (1..Len(log)), NEW name
  PROVE  /\ IsFiniteSet(Named(S, name)) /\ Cardinality(Named(S, name)) \in Nat
         /\ Cardinality(Named(S, name)) <= Cardinality(Named(1..Len(log), name))
<1>1. IsFiniteSet(1..Len(log))
  BY LogFacts, FS_Interval
<1>2. IsFiniteSet(Named(1..Len(log), name))
  BY <1>1, FS_Subset DEF Named
<1>3. Named(S, name) \in SUBSET Named(1..Len(log), name)
  BY DEF Named
<1> QED
  BY <1>2, <1>3, FS_Subset, FS_CardinalityType

LEMMA NamedGrows ==
  ASSUME LogOK, LogOK', LogGrows, NEW name
  PROVE  /\ Cardinality(Named(1..Len(log), name)) \in Nat
         /\ Cardinality(Named(1..Len(log), name))' \in Nat
         /\ Cardinality(Named(1..Len(log), name)) <= Cardinality(Named(1..Len(log), name))'
<1>1. IsFiniteSet(1..Len(log)')
  <2>1. Len(log)' \in Nat
    BY DEF LogOK, LogTypeOK
  <2> QED
    BY <2>1, FS_Interval
<1>2. IsFiniteSet(Named(1..Len(log), name)')
  BY <1>1, FS_Subset DEF Named
<1>3. Named(1..Len(log), name) \in SUBSET Named(1..Len(log), name)'
  BY LogFacts DEF Named, LogGrows
<1> QED
  BY <1>2, <1>3, FS_Subset, FS_CardinalityType

LEMMA NamedOfPage ==
  ASSUME LogOK, NEW S \in SUBSET (1..Len(log)), NEW page \in SUBSET (1..Len(log)),
         S \intersect page = {}, NEW name
  PROVE  /\ Named(S \union page, name) = Named(S, name) \union Named(page, name)
         /\ Cardinality(Named(S \union page, name))
              = Cardinality(Named(S, name)) + Cardinality(Named(page, name))
<1>1. Named(S \union page, name) = Named(S, name) \union Named(page, name)
  BY DEF Named
<1>2. Named(S, name) \intersect Named(page, name) = {}
  BY DEF Named
<1>3. Cardinality(Named(S, name) \intersect Named(page, name)) = 0
  BY <1>2, FS_EmptySet
<1>4. /\ IsFiniteSet(Named(S, name)) /\ IsFiniteSet(Named(page, name))
      /\ Cardinality(Named(S, name)) \in Nat /\ Cardinality(Named(page, name)) \in Nat
  BY NamedFinite
<1>5. Cardinality(Named(S, name) \union Named(page, name))
        = Cardinality(Named(S, name)) + Cardinality(Named(page, name)) - 0
  BY <1>3, <1>4, FS_Union
<1> DEFINE s == Cardinality(Named(S, name))
           p == Cardinality(Named(page, name))
<1>6. s + p - 0 = s + p
  <2> HIDE DEF s, p
  <2>1. s \in Nat /\ p \in Nat
    BY <1>4 DEF s, p
  <2> QED
    BY <2>1
<1> QED
  BY <1>1, <1>5, <1>6, Zenon

-----------------------------------------------------------------------------
(* What holds of every job, each alone: nothing a job does disturbs the    *)
(* others, though both write the row.                                      *)

Lenders == {e.lender : e \in Event}

Aggregates == [financed : Nat, lenders : SUBSET Lenders, defaulted : Nat]

JobState ==
  [pc : {"off", "totals", "checkpoint", "range", "fold", "next", "save"},
   end : Nat, volume : Nat, prev : Nat, from : Nat, start : Nat, cursor : Nat, tail : Nat,
   last : Nat, pages : Nat, agg : Aggregates, folded : SUBSET Nat]

HasLoaded(s) == s.pc \in {"range", "fold", "next", "save"}

(* The entries up to which a job has folded what its window asks for.      *)
FoldedTo(s) == IF s.pc \in {"next", "save"} THEN s.tail ELSE s.cursor

(* It has folded one run of entries: from its start ledger on, up to the   *)
(* last page.                                                              *)
ReadsInOrder(s) ==
  /\ s.end <= latest
  /\ s.cursor <= s.tail /\ s.tail <= Len(log)
  /\ s.pc \notin {"fold", "next", "save"} => s.cursor = 0 /\ s.tail = 0
  /\ s.folded = {i \in 1..FoldedTo(s) : log[i].ledger >= s.start}
  /\ s.pc \in {"fold", "next"} =>
       /\ s.start <= latest
       /\ \A i \in 1..Len(log) : i > s.cursor => log[i].ledger >= s.start

(* The ledger it will name is where it started, or that of an entry read.  *)
LastIsSeen(s) ==
  HasLoaded(s) =>
    /\ 0 < s.from /\ s.from <= s.last /\ s.last <= latest
    /\ s.last > s.from => \E k \in 1..FoldedTo(s) : log[k].ledger = s.last

(* Everything before ledger l is folded by a saved job or left out.        *)
Accounted(l) ==
  \A i \in 1..Len(log) :
    log[i].ledger < l /\ (\A b \in base : log[i].ledger >= b) => i \in covered \union lost

(* A job that found a row starts where everything before is accounted for. *)
FromIsSound(s) == HasLoaded(s) /\ s.prev > 0 => Accounted(s.from)

CountsItsFolds(s) ==
  /\ s.agg.financed = Cardinality(Named(s.folded, "off_acc"))
  /\ s.agg.defaulted = Cardinality(Named(s.folded, "off_def"))
  /\ s.agg.lenders = {log[i].event.lender : i \in Named(s.folded, "off_acc")}

JobSound(s) ==
  /\ ReadsInOrder(s) /\ LastIsSeen(s) /\ FromIsSound(s) /\ CountsItsFolds(s)
  /\ s.volume <= Cardinality(Named(1..Len(log), "off_acc"))

RowSound ==
  /\ row.last <= latest
  /\ row.volume <= Cardinality(Named(1..Len(log), "off_acc"))
  /\ row.last > 0 => Accounted(row.last)

StateOK ==
  /\ row \in [financed : Nat, lenders : Nat, defaulted : Nat, volume : Nat, last : Nat]
  /\ job \in [Job -> JobState]
  /\ covered \union lost \subseteq 1..Len(log)
  /\ aborts \in 0..MaxAborts

IndexerInv ==
  /\ LogOK /\ StateOK /\ RowSound /\ NeverOvercounts
  /\ \A j \in Job : JobSound(job[j])

HistoryGrows == covered \subseteq covered' /\ lost \subseteq lost' /\ base \subseteq base'

LEMMA JobTypes ==
  ASSUME NEW s \in JobState
  PROVE  /\ s.pc \in {"off", "totals", "checkpoint", "range", "fold", "next", "save"}
         /\ s.end \in Nat /\ s.volume \in Nat /\ s.prev \in Nat /\ s.from \in Nat
         /\ s.start \in Nat /\ s.cursor \in Nat /\ s.tail \in Nat /\ s.last \in Nat
         /\ s.pages \in Nat /\ s.folded \in SUBSET Nat
         /\ s.agg.financed \in Nat /\ s.agg.defaulted \in Nat
         /\ s.agg.lenders \in SUBSET Lenders
         /\ FoldedTo(s) \in {s.cursor, s.tail}
BY DEF JobState, Aggregates, FoldedTo

LEMMA FoldedIsLogged ==
  ASSUME LogOK, NEW s \in JobState, ReadsInOrder(s)
  PROVE  /\ FoldedTo(s) \in 0..Len(log)
         /\ s.folded \in SUBSET (1..Len(log))
BY JobTypes, LogFacts DEF ReadsInOrder, FoldedTo

LEMMA AccountedKept ==
  ASSUME LogOK, LogGrows, HistoryGrows, NEW l \in Nat, l <= latest, Accounted(l)
  PROVE  Accounted(l)'
<1> SUFFICES ASSUME NEW i \in 1..Len(log'), log'[i].ledger < l,
                    \A b \in base' : log'[i].ledger >= b
             PROVE  i \in covered' \union lost'
  BY DEF Accounted
<1>1. Len(log) \in Nat /\ Len(log') \in Nat /\ latest \in Nat
  BY LogFacts DEF LogGrows
<1>2. i \in 1..Len(log)
  BY <1>1 DEF LogGrows
<1>3. log[i].ledger < l /\ \A b \in base : log[i].ledger >= b
  BY <1>2 DEF LogGrows, HistoryGrows
<1> QED
  BY <1>2, <1>3 DEF HistoryGrows, Accounted

(* A job keeps its soundness while others write and the log grows.         *)
LEMMA SoundKept ==
  ASSUME LogOK, LogOK', LogGrows, HistoryGrows, NEW s \in JobState, JobSound(s)
  PROVE  JobSound(s)'
<1>1. /\ Len(log) \in Nat /\ Len(log') \in Nat /\ latest \in Nat /\ latest' \in Nat
      /\ latest <= latest' /\ Len(log) <= Len(log')
      /\ \A i \in 1..Len(log) : log'[i] = log[i] /\ log[i].ledger \in Nat
  BY LogFacts DEF LogGrows, LogOK, LogTypeOK
<1>2. FoldedTo(s) \in 0..Len(log) /\ s.folded \in SUBSET (1..Len(log))
  BY FoldedIsLogged DEF JobSound
<1>3. ReadsInOrder(s)'
  <2>1. s.folded = {i \in 1..FoldedTo(s) : log'[i].ledger >= s.start}
    BY <1>1, <1>2 DEF ReadsInOrder, JobSound
  <2>2. \A i \in 1..Len(log') :
          (s.pc \in {"fold", "next"} /\ i > s.cursor) => log'[i].ledger >= s.start
    <3> SUFFICES ASSUME NEW i \in 1..Len(log'), s.pc \in {"fold", "next"}, i > s.cursor
                 PROVE  log'[i].ledger >= s.start
      OBVIOUS
    <3>1. s.start \in Nat /\ s.start <= latest
      BY JobTypes DEF ReadsInOrder, JobSound
    <3>2. CASE i \in 1..Len(log)
      BY <1>1, <3>2 DEF ReadsInOrder, JobSound
    <3>3. CASE i > Len(log)
      BY <1>1, <3>1, <3>3 DEF LogGrows
    <3> QED
      BY <1>1, <3>2, <3>3
  <2>3. s.end <= latest' /\ s.tail <= Len(log') /\ s.start \in Nat
        /\ (s.pc \in {"fold", "next"} => s.start <= latest')
    BY <1>1, JobTypes DEF ReadsInOrder, JobSound
  <2>4. /\ s.cursor <= s.tail
        /\ s.pc \notin {"fold", "next", "save"} => s.cursor = 0 /\ s.tail = 0
    BY DEF ReadsInOrder, JobSound
  <2> QED
    BY <2>1, <2>2, <2>3, <2>4 DEF ReadsInOrder
<1>4. LastIsSeen(s)'
  BY <1>1, <1>2, JobTypes DEF LastIsSeen, JobSound
<1>5. FromIsSound(s)'
  <2> SUFFICES ASSUME HasLoaded(s), s.prev > 0
               PROVE  Accounted(s.from)'
    BY DEF FromIsSound
  <2>1. s.from \in Nat /\ s.from <= latest /\ Accounted(s.from)
    BY <1>1, JobTypes DEF FromIsSound, LastIsSeen, JobSound
  <2> QED
    BY <2>1, AccountedKept
<1>6. CountsItsFolds(s)'
  <2>1. \A name : Named(s.folded, name)' = Named(s.folded, name)
    BY <1>2, NamedKept
  <2>2. {log'[i].event.lender : i \in Named(s.folded, "off_acc")}
           = {log[i].event.lender : i \in Named(s.folded, "off_acc")}
    BY <1>1, <1>2 DEF Named
  <2> QED
    BY <2>1, <2>2 DEF CountsItsFolds, JobSound
<1>7. (s.volume <= Cardinality(Named(1..Len(log), "off_acc")))'
  <2> DEFINE n == Cardinality(Named(1..Len(log), "off_acc"))
  <2>1. n \in Nat /\ n' \in Nat /\ n <= n' /\ s.volume <= n /\ s.volume \in Nat
    BY NamedGrows, JobTypes DEF JobSound
  <2> HIDE DEF n
  <2>2. s.volume <= n'
    BY <2>1
  <2> QED
    BY <2>2 DEF n
<1> QED
  BY <1>3, <1>4, <1>5, <1>6, <1>7 DEF JobSound

-----------------------------------------------------------------------------
(* One lemma per step of a job: what it becomes is sound.                  *)

Assumptions == IndexerAssumption /\ LogAssumption

Becomes(j, s) == s \in JobState /\ JobSound(s) /\ job' = [job EXCEPT ![j] = s]

LEMMA NoJobIsSound ==
  ASSUME IndexerInv
  PROVE  NoJob \in JobState /\ JobSound(NoJob)
<1>1. NoJob \in JobState
  BY DEF NoJob, JobState, Aggregates, emptyAggregates
<1>2. Cardinality({}) = 0
  BY FS_EmptySet
<1>3. Named({}, "off_acc") = {} /\ Named({}, "off_def") = {}
  BY DEF Named
<1>4. Len(log) \in Nat /\ latest \in Nat
  BY LogFacts DEF IndexerInv
<1>5. 0 <= Cardinality(Named(1..Len(log), "off_acc"))
  BY NamedFinite DEF IndexerInv
<1>6. CountsItsFolds(NoJob)
  BY <1>2, <1>3 DEF CountsItsFolds, NoJob, emptyAggregates
<1>7. ReadsInOrder(NoJob)
  BY <1>4 DEF ReadsInOrder, FoldedTo, NoJob
<1> QED
  BY <1>1, <1>5, <1>6, <1>7 DEF JobSound, LastIsSeen, FromIsSound, HasLoaded, NoJob

LEMMA StartJobSound ==
  ASSUME IndexerInv, NEW j \in Job, StartJob(j)
  PROVE  \E s : Becomes(j, s)
<1> DEFINE r == job[j]
           s == [r EXCEPT !.pc = "totals", !.end = latest]
<1>1. r \in JobState /\ JobSound(r) /\ r.pc = "off" /\ latest \in Nat /\ LogOK
  BY LogFacts DEF IndexerInv, StateOK, StartJob
<1>2. job' = [job EXCEPT ![j] = s]
  BY <1>1 DEF StartJob, IndexerInv, StateOK, JobState
<1>3. s \in JobState /\ s.end = latest /\ s.pc = "totals"
  BY <1>1 DEF JobState
<1>4. /\ s.prev = r.prev /\ s.volume = r.volume /\ s.from = r.from /\ s.start = r.start
      /\ s.cursor = r.cursor /\ s.tail = r.tail /\ s.last = r.last /\ s.agg = r.agg
      /\ s.folded = r.folded
  BY <1>1 DEF JobState
<1> HIDE DEF r, s
<1>5. ReadsInOrder(s)
  BY <1>1, <1>3, <1>4 DEF ReadsInOrder, FoldedTo, JobSound
<1>6. CountsItsFolds(s) /\ s.volume <= Cardinality(Named(1..Len(log), "off_acc"))
  BY <1>1, <1>4 DEF CountsItsFolds, JobSound
<1>7. LastIsSeen(s) /\ FromIsSound(s)
  BY <1>3 DEF LastIsSeen, FromIsSound, HasLoaded
<1> QED
  BY <1>2, <1>3, <1>5, <1>6, <1>7 DEF Becomes, JobSound

(* The total read on chain is at most what the chain will ever say after.  *)
LEMMA ReadTotalsSound ==
  ASSUME IndexerInv, NEW j \in Job, ReadTotals(j)
  PROVE  \E s : Becomes(j, s)
<1> DEFINE r == job[j]
           n == Cardinality(Named(1..Len(log), "off_acc"))
           s == [r EXCEPT !.pc = "checkpoint", !.volume = n]
<1>1. r \in JobState /\ JobSound(r) /\ r.pc = "totals" /\ n \in Nat
  BY NamedFinite DEF IndexerInv, StateOK, ReadTotals
<1>2. job' = [job EXCEPT ![j] = s]
  BY <1>1 DEF ReadTotals, IndexerInv, StateOK, JobState
<1> HIDE DEF n
<1>3. s \in JobState /\ s.volume = n /\ s.pc = "checkpoint"
  BY <1>1 DEF JobState
<1>4. /\ s.end = r.end /\ s.prev = r.prev /\ s.from = r.from /\ s.start = r.start
      /\ s.cursor = r.cursor /\ s.tail = r.tail /\ s.last = r.last /\ s.agg = r.agg
      /\ s.folded = r.folded
  BY <1>1 DEF JobState
<1> HIDE DEF r, s
<1>5. ReadsInOrder(s)
  BY <1>1, <1>3, <1>4 DEF ReadsInOrder, FoldedTo, JobSound
<1>6. CountsItsFolds(s)
  BY <1>1, <1>4 DEF CountsItsFolds, JobSound
<1>7. s.volume <= Cardinality(Named(1..Len(log), "off_acc"))
  <2>1. s.volume <= n
    BY <1>1, <1>3
  <2> QED
    BY <2>1 DEF n
<1>8. LastIsSeen(s) /\ FromIsSound(s)
  BY <1>3 DEF LastIsSeen, FromIsSound, HasLoaded
<1> QED
  BY <1>2, <1>3, <1>5, <1>6, <1>7, <1>8 DEF Becomes, JobSound

(* The checkpoint is the row's, everything before it accounted for, or the *)
(* backfill's.                                                             *)
LEMMA LoadCheckpointSound ==
  ASSUME Assumptions, IndexerInv, NEW j \in Job, LoadCheckpoint(j)
  PROVE  \E s : Becomes(j, s)
<1> DEFINE r == job[j]
           c == Checkpoint(r.end)
           p == IF c < r.end THEN "range" ELSE "save"
           s == [r EXCEPT !.prev = row.last, !.from = c, !.last = c, !.start = c, !.pc = p]
<1>1. /\ r \in JobState /\ JobSound(r) /\ r.pc = "checkpoint" /\ LogOK /\ latest \in Nat
      /\ row.last \in Nat /\ row.last <= latest /\ 0 < latest
      /\ row.last > 0 => Accounted(row.last)
  BY LogFacts DEF IndexerInv, StateOK, LoadCheckpoint, RowSound, LogOK, LogTypeOK
<1>2. c \in Nat /\ 0 < c /\ c <= latest /\ (row.last > 0 => c = row.last)
  <2>1. r.end \in Nat /\ r.end <= latest /\ Backfill \in Nat
    BY <1>1, JobTypes DEF JobSound, ReadsInOrder, Assumptions, IndexerAssumption
  <2> QED
    BY <1>1, <2>1 DEF Checkpoint, Max2
<1>3. p \in {"range", "save"}
  OBVIOUS
<1>4. job' = [job EXCEPT ![j] = s]
  <2>1. job' = [job EXCEPT ![j].prev = row.last, ![j].from = c, ![j].last = c, ![j].start = c,
                           ![j].pc = p]
    BY DEF LoadCheckpoint
  <2> HIDE DEF c, p
  <2> QED
    BY <1>1, <2>1 DEF IndexerInv, StateOK, JobState
<1> HIDE DEF c, p
<1>5. /\ s \in JobState /\ s.pc = p /\ s.prev = row.last /\ s.from = c /\ s.last = c
      /\ s.start = c
  BY <1>1, <1>2, <1>3 DEF JobState
<1>6. /\ s.end = r.end /\ s.volume = r.volume /\ s.cursor = r.cursor /\ s.tail = r.tail
      /\ s.agg = r.agg /\ s.folded = r.folded
  BY <1>1 DEF JobState
<1> HIDE DEF r, s
<1>7. ReadsInOrder(s)
  <2>1. r.folded = {} /\ r.cursor = 0 /\ r.tail = 0
    BY <1>1 DEF ReadsInOrder, FoldedTo, JobSound
  <2>2. FoldedTo(s) = 0
    BY <1>6, <2>1 DEF FoldedTo
  <2> QED
    BY <1>1, <1>3, <1>5, <1>6, <2>1, <2>2 DEF ReadsInOrder, JobSound
<1>8. CountsItsFolds(s) /\ s.volume <= Cardinality(Named(1..Len(log), "off_acc"))
  BY <1>1, <1>6 DEF CountsItsFolds, JobSound
<1>9. LastIsSeen(s)
  BY <1>2, <1>5 DEF LastIsSeen
<1>10. FromIsSound(s)
  BY <1>1, <1>2, <1>5 DEF FromIsSound
<1> QED
  BY <1>4, <1>5, <1>7, <1>8, <1>9, <1>10 DEF Becomes, JobSound

(* The first page starts where no entry of the window is passed.           *)
LEMMA FetchRangeSound ==
  ASSUME Assumptions, IndexerInv, NEW j \in Job, FetchRange(j)
  PROVE  \E s : Becomes(j, s)
<1> DEFINE r == job[j]
           l == RangeStart(j)
<1>1. PICK p \in Cursors : \E q \in PageEnds(p, r.end) :
        /\ StartsAt(p, l)
        /\ job' = [job EXCEPT ![j].pc = "fold", ![j].start = l, ![j].cursor = p, ![j].tail = q]
  BY DEF FetchRange
<1>2. PICK q \in PageEnds(p, r.end) :
        /\ StartsAt(p, l)
        /\ job' = [job EXCEPT ![j].pc = "fold", ![j].start = l, ![j].cursor = p, ![j].tail = q]
  BY <1>1
<1> DEFINE s == [r EXCEPT !.pc = "fold", !.start = l, !.cursor = p, !.tail = q]
<1>3. /\ r \in JobState /\ JobSound(r) /\ r.pc = "range" /\ l <= r.end
      /\ latest \in Nat /\ Len(log) \in Nat /\ \A i \in 1..Len(log) : log[i].ledger \in Nat
  BY LogFacts DEF IndexerInv, StateOK, FetchRange
<1>4. l \in Nat /\ l <= latest
  <2>1. /\ r.end \in Nat /\ r.from \in Nat /\ r.end <= latest
        /\ MaxWindow \in Nat /\ ClampMargin \in Nat /\ oldest \in Nat
    BY <1>3, JobTypes
       DEF JobSound, ReadsInOrder, Assumptions, IndexerAssumption, IndexerInv, LogOK, LogTypeOK
  <2> QED
    BY <1>3, <2>1 DEF RangeStart, WindowStart, Max2, Min2
<1>5. p \in 0..Len(log) /\ q \in p..Len(log) /\ p \in Nat /\ q \in Nat
  BY <1>3 DEF Cursors, PageEnds
<1>6. job' = [job EXCEPT ![j] = s]
  <2> HIDE DEF l
  <2> QED
    BY <1>2, <1>3 DEF IndexerInv, StateOK, JobState
<1>7. \A i \in 1..Len(log) : i <= p <=> log[i].ledger < l
  BY <1>2 DEF StartsAt
<1> HIDE DEF l
<1>8. /\ s \in JobState /\ s.pc = "fold" /\ s.start = l /\ s.cursor = p /\ s.tail = q
      /\ s.end = r.end /\ s.volume = r.volume /\ s.prev = r.prev /\ s.from = r.from
      /\ s.last = r.last /\ s.agg = r.agg /\ s.folded = r.folded
  BY <1>3, <1>4, <1>5 DEF JobState
<1> HIDE DEF r, s
<1>9. r.folded = {} /\ FoldedTo(r) = 0
  BY <1>3 DEF ReadsInOrder, FoldedTo, JobSound
<1>10. ReadsInOrder(s)
  <2>1. s.folded = {i \in 1..FoldedTo(s) : log[i].ledger >= s.start}
    BY <1>3, <1>4, <1>5, <1>7, <1>8, <1>9 DEF FoldedTo
  <2>2. \A i \in 1..Len(log) : i > s.cursor => log[i].ledger >= s.start
    BY <1>3, <1>4, <1>5, <1>7, <1>8
  <2> QED
    BY <1>3, <1>4, <1>5, <1>8, <2>1, <2>2 DEF ReadsInOrder, JobSound
<1>11. CountsItsFolds(s) /\ s.volume <= Cardinality(Named(1..Len(log), "off_acc"))
  BY <1>3, <1>8 DEF CountsItsFolds, JobSound
<1>12. LastIsSeen(s)
  <2>1. 0 < r.from /\ r.from <= r.last /\ r.last <= latest /\ ~(r.last > r.from)
    BY <1>3, <1>9 DEF LastIsSeen, HasLoaded, JobSound
  <2> QED
    BY <1>8, <2>1 DEF LastIsSeen
<1>13. FromIsSound(s)
  BY <1>3, <1>8 DEF FromIsSound, HasLoaded, JobSound
<1> QED
  BY <1>6, <1>8, <1>10, <1>11, <1>12, <1>13 DEF Becomes, JobSound

LEMMA FetchNextSound ==
  ASSUME Assumptions, IndexerInv, NEW j \in Job, FetchNext(j)
  PROVE  \E s : Becomes(j, s)
<1> DEFINE r == job[j]
<1>1. PICK q \in PageEnds(r.tail, latest) :
        job' = [job EXCEPT ![j].pc = "fold", ![j].cursor = r.tail, ![j].tail = q]
  BY DEF FetchNext
<1> DEFINE s == [r EXCEPT !.pc = "fold", !.cursor = r.tail, !.tail = q]
<1>2. /\ r \in JobState /\ JobSound(r) /\ r.pc = "next"
      /\ latest \in Nat /\ Len(log) \in Nat /\ \A i \in 1..Len(log) : log[i].ledger \in Nat
  BY LogFacts DEF IndexerInv, StateOK, FetchNext
<1>3. /\ q \in r.tail..Len(log) /\ q \in Nat
      /\ r.tail \in Nat /\ r.cursor \in Nat /\ r.cursor <= r.tail
  BY <1>2, JobTypes DEF PageEnds, JobSound, ReadsInOrder
<1>4. job' = [job EXCEPT ![j] = s]
  BY <1>1, <1>2 DEF IndexerInv, StateOK, JobState
<1>5. /\ s \in JobState /\ s.pc = "fold" /\ s.cursor = r.tail /\ s.tail = q
      /\ s.end = r.end /\ s.volume = r.volume /\ s.prev = r.prev /\ s.from = r.from
      /\ s.start = r.start /\ s.last = r.last /\ s.agg = r.agg /\ s.folded = r.folded
  BY <1>2, <1>3 DEF JobState
<1> HIDE DEF r, s
<1>6. FoldedTo(s) = FoldedTo(r)
  BY <1>2, <1>5 DEF FoldedTo
<1>7. ReadsInOrder(s)
  <2>1. \A i \in 1..Len(log) : i > s.cursor => log[i].ledger >= s.start
    BY <1>2, <1>3, <1>5 DEF ReadsInOrder, JobSound
  <2> QED
    BY <1>2, <1>3, <1>5, <1>6, <2>1 DEF ReadsInOrder, JobSound
<1>8. CountsItsFolds(s) /\ s.volume <= Cardinality(Named(1..Len(log), "off_acc"))
  BY <1>2, <1>5 DEF CountsItsFolds, JobSound
<1>9. LastIsSeen(s) /\ FromIsSound(s)
  BY <1>2, <1>5, <1>6 DEF LastIsSeen, FromIsSound, HasLoaded, JobSound
<1> QED
  BY <1>4, <1>5, <1>7, <1>8, <1>9 DEF Becomes, JobSound

(* A page is the next run of entries: none is folded twice, none left out. *)
LEMMA FoldPageSound ==
  ASSUME Assumptions, IndexerInv, NEW j \in Job, FoldPage(j)
  PROVE  \E s : Becomes(j, s)
<1> DEFINE r == job[j]
           page == r.cursor + 1 .. r.tail
           agg == FoldPageOf(r.agg, page)
           last == LastLedger(r.cursor, r.tail, r.last)
           pc == IF page = {} THEN "save" ELSE "next"
           s == [r EXCEPT !.pages = r.pages + 1, !.agg = agg, !.folded = r.folded \union page,
                          !.last = last, !.pc = pc]
<1>1. /\ r \in JobState /\ JobSound(r) /\ r.pc = "fold" /\ LogOK
      /\ latest \in Nat /\ Len(log) \in Nat
      /\ \A i \in 1..Len(log) : log[i].ledger \in Nat /\ log[i].ledger <= latest
                                /\ log[i].event \in Event
  BY LogFacts DEF IndexerInv, StateOK, FoldPage, LogOK
<1>2. /\ r.cursor \in Nat /\ r.tail \in Nat /\ r.cursor <= r.tail /\ r.tail <= Len(log)
      /\ r.last \in Nat /\ r.from \in Nat /\ r.start \in Nat /\ r.pages \in Nat
      /\ r.folded \in SUBSET (1..r.cursor)
      /\ r.agg.financed \in Nat /\ r.agg.defaulted \in Nat /\ r.agg.lenders \in SUBSET Lenders
  BY <1>1, JobTypes DEF JobSound, ReadsInOrder, FoldedTo
<1>3. /\ page \in SUBSET (1..Len(log)) /\ r.folded \in SUBSET (1..Len(log))
      /\ r.folded \intersect page = {} /\ r.folded \union page \in SUBSET Nat
  BY <1>1, <1>2
<1>4. job' = [job EXCEPT ![j] = s]
  <2>1. job' = [job EXCEPT ![j].pages = r.pages + 1, ![j].agg = agg,
                           ![j].folded = r.folded \union page, ![j].last = last, ![j].pc = pc]
    BY DEF FoldPage
  <2> HIDE DEF page, agg, last, pc
  <2> QED
    BY <1>1, <2>1 DEF IndexerInv, StateOK, JobState
<1>5. pc \in {"save", "next"}
  OBVIOUS
<1>6. /\ last \in Nat /\ r.last <= last
      /\ last = r.last \/ (r.tail > r.cursor /\ last = log[r.tail].ledger)
  <2>1. r.tail > r.cursor => log[r.tail].ledger \in Nat
    BY <1>1, <1>2
  <2> HIDE DEF r
  <2> QED
    BY <1>2, <2>1 DEF LastLedger
<1> DEFINE acc == Named(page, "off_acc")
           dflt == Named(page, "off_def")
<1>7. /\ agg.financed = r.agg.financed + Cardinality(acc)
      /\ agg.lenders = r.agg.lenders \union {log[i].event.lender : i \in acc}
      /\ agg.defaulted = r.agg.defaulted + Cardinality(dflt)
      /\ agg \in Aggregates
  <2>1. Cardinality(acc) \in Nat /\ Cardinality(dflt) \in Nat
    BY <1>1, <1>3, NamedFinite
  <2>2. {log[i].event.lender : i \in acc} \subseteq Lenders
    BY <1>1, <1>3 DEF Named, Lenders
  <2>3. /\ agg.financed = r.agg.financed + Cardinality(acc)
        /\ agg.lenders = r.agg.lenders \union {log[i].event.lender : i \in acc}
        /\ agg.defaulted = r.agg.defaulted + Cardinality(dflt)
        /\ agg = [financed |-> agg.financed, lenders |-> agg.lenders,
                  defaulted |-> agg.defaulted]
    BY DEF FoldPageOf
  <2> HIDE DEF acc, dflt, page, r, agg
  <2>4. agg.financed \in Nat /\ agg.defaulted \in Nat
    <3> DEFINE a == Cardinality(acc)
               d == Cardinality(dflt)
    <3>1. a \in Nat /\ d \in Nat /\ agg.financed = r.agg.financed + a
          /\ agg.defaulted = r.agg.defaulted + d
      BY <2>1, <2>3
    <3>2. r.agg.financed \in Nat /\ r.agg.defaulted \in Nat
      BY <1>2
    <3> HIDE DEF a, d
    <3> QED
      BY <3>1, <3>2
  <2>5. agg.lenders \in SUBSET Lenders
    BY <1>2, <2>2, <2>3, Zenon
  <2> QED
    BY <2>3, <2>4, <2>5 DEF Aggregates
<1> HIDE DEF page, agg, last, pc, acc, dflt
<1>8. /\ s \in JobState /\ s.pc = pc /\ s.agg = agg /\ s.folded = r.folded \union page
      /\ s.last = last /\ s.cursor = r.cursor /\ s.tail = r.tail /\ s.end = r.end
      /\ s.volume = r.volume /\ s.prev = r.prev /\ s.from = r.from /\ s.start = r.start
  <2>1. pc \in {"off", "totals", "checkpoint", "range", "fold", "next", "save"}
    BY <1>5
  <2>2. r.pages + 1 \in Nat
    BY <1>2
  <2> HIDE DEF r
  <2> QED
    BY <1>1, <1>3, <1>6, <1>7, <2>1, <2>2 DEF JobState
<1> HIDE DEF r, s
<1>9. FoldedTo(s) = r.tail /\ FoldedTo(r) = r.cursor
  BY <1>1, <1>5, <1>8 DEF FoldedTo
<1>10. ReadsInOrder(s)
  <2>1. \A i \in 1..Len(log) : i > r.cursor => log[i].ledger >= r.start
    BY <1>1 DEF ReadsInOrder, JobSound
  <2>2. r.folded = {i \in 1..r.cursor : log[i].ledger >= r.start}
    BY <1>1, <1>9 DEF ReadsInOrder, JobSound
  <2>3. r.folded \union page = {i \in 1..r.tail : log[i].ledger >= r.start}
    <3>1. \A i : i \in r.folded \union page <=> i \in 1..r.tail /\ log[i].ledger >= r.start
      <4> TAKE i
      <4>1. CASE i \in 1..r.cursor
        BY <1>2, <2>2, <4>1 DEF page
      <4>2. CASE i \in r.cursor + 1 .. r.tail
        BY <1>1, <1>2, <2>1, <2>2, <4>2 DEF page
      <4>3. CASE i \notin 1..r.cursor /\ i \notin r.cursor + 1 .. r.tail
        BY <1>2, <2>2, <4>3 DEF page
      <4> QED
        BY <4>1, <4>2, <4>3
    <3> QED
      BY <3>1, Zenon
  <2> QED
    BY <1>1, <1>2, <1>5, <1>8, <1>9, <2>1, <2>3 DEF ReadsInOrder, JobSound
<1>11. CountsItsFolds(s)
  <2>1. \A name :
          /\ Named(r.folded \union page, name) = Named(r.folded, name) \union Named(page, name)
          /\ Cardinality(Named(r.folded \union page, name))
               = Cardinality(Named(r.folded, name)) + Cardinality(Named(page, name))
    BY <1>1, <1>3, NamedOfPage
  <2>2. /\ r.agg.financed = Cardinality(Named(r.folded, "off_acc"))
        /\ r.agg.defaulted = Cardinality(Named(r.folded, "off_def"))
        /\ r.agg.lenders = {log[i].event.lender : i \in Named(r.folded, "off_acc")}
    BY <1>1 DEF CountsItsFolds, JobSound
  <2>3. /\ agg.financed = Cardinality(Named(s.folded, "off_acc"))
        /\ agg.defaulted = Cardinality(Named(s.folded, "off_def"))
    BY <1>7, <1>8, <2>1, <2>2 DEF acc, dflt
  <2>4. agg.lenders = {log[i].event.lender : i \in Named(s.folded, "off_acc")}
    BY <1>7, <1>8, <2>1, <2>2 DEF acc
  <2> QED
    BY <1>8, <2>3, <2>4 DEF CountsItsFolds
<1>12. LastIsSeen(s)
  <2>1. /\ 0 < r.from /\ r.from <= r.last /\ r.last <= latest
        /\ r.last > r.from => \E k \in 1..r.cursor : log[k].ledger = r.last
    BY <1>1, <1>9 DEF LastIsSeen, HasLoaded, JobSound
  <2>2. last <= latest /\ (last > r.from => \E k \in 1..r.tail : log[k].ledger = last)
    BY <1>1, <1>2, <1>6, <2>1
  <2> QED
    BY <1>2, <1>6, <1>8, <1>9, <2>1, <2>2 DEF LastIsSeen
<1>13. FromIsSound(s) /\ s.volume <= Cardinality(Named(1..Len(log), "off_acc"))
  BY <1>1, <1>8 DEF FromIsSound, HasLoaded, JobSound
<1> QED
  BY <1>4, <1>8, <1>10, <1>11, <1>12, <1>13 DEF Becomes, JobSound

-----------------------------------------------------------------------------
(* The row: what a save makes of it.                                       *)

(* Every lender is one of an accepted offer.                               *)
LEMMA FewerLenders ==
  ASSUME LogOK, NEW s \in JobState, ReadsInOrder(s), CountsItsFolds(s)
  PROVE  /\ IsFiniteSet(s.agg.lenders) /\ Cardinality(s.agg.lenders) \in Nat
         /\ Cardinality(s.agg.lenders) <= s.agg.financed
<1> DEFINE S == Named(s.folded, "off_acc")
           f == [i \in S |-> log[i].event.lender]
<1>1. IsFiniteSet(S)
  BY FoldedIsLogged, NamedFinite
<1>2. f \in Surjection(S, s.agg.lenders)
  BY DEF CountsItsFolds, Surjection
<1> HIDE DEF S, f
<1>3. /\ IsFiniteSet(s.agg.lenders)
      /\ Cardinality(s.agg.lenders) <= Cardinality(S)
  BY <1>1, <1>2, FS_Surjection
<1> QED
  BY <1>3, FS_CardinalityType DEF S, CountsItsFolds

(* What a saved job leaves accounted for: what was before where it began,  *)
(* by the row it found or by the one it overwrites; what its window left   *)
(* out; and what it folded.                                                *)
LEMMA SaveAccounts ==
  ASSUME Assumptions, IndexerInv, NEW j \in Job, SaveStats(j)
  PROVE  /\ row'.last = job[j].last /\ HistoryGrows
         /\ covered' \union lost' \subseteq 1..Len(log)
         /\ Accounted(row.last)'
<1> DEFINE r == job[j]
<1>1. /\ r \in JobState /\ JobSound(r) /\ r.pc = "save" /\ LogOK
      /\ Len(log) \in Nat /\ \A i \in 1..Len(log) : log[i].ledger \in Nat
  BY LogFacts DEF IndexerInv, StateOK, SaveStats
<1>2. /\ r.last \in Nat /\ r.from \in Nat /\ r.start \in Nat /\ r.prev \in Nat
      /\ 0 < r.from /\ r.from <= r.last
      /\ r.last > r.from => \E k \in 1..r.tail : log[k].ledger = r.last
      /\ r.tail \in Nat /\ r.tail <= Len(log)
      /\ r.folded = {i \in 1..r.tail : log[i].ledger >= r.start}
      /\ r.prev > 0 => Accounted(r.from)
  BY <1>1, JobTypes DEF JobSound, ReadsInOrder, LastIsSeen, FromIsSound, HasLoaded, FoldedTo
<1>3. row'.last = r.last
  BY <1>2 DEF SaveStats, Stats, Max2
<1>4. /\ log' = log /\ covered' = covered \union r.folded
      /\ lost' = lost \union {i \in 1..Len(log) : log[i].ledger \in r.from..r.start - 1}
      /\ base' = IF Backfilled(r) THEN base \union {r.from} ELSE base
  BY DEF SaveStats, logVars
<1>5. HistoryGrows
  BY <1>4 DEF HistoryGrows
<1>6. covered' \union lost' \subseteq 1..Len(log)
  BY <1>1, <1>2, <1>4 DEF IndexerInv, StateOK
<1>7. \A i \in 1..Len(log) :
        log[i].ledger < r.last /\ (\A b \in base' : log[i].ledger >= b)
          => i \in covered' \union lost'
  <2> SUFFICES ASSUME NEW i \in 1..Len(log), log[i].ledger < r.last,
                      \A b \in base' : log[i].ledger >= b
               PROVE  i \in covered' \union lost'
    OBVIOUS
  <2>1. CASE log[i].ledger < r.from
    <3>1. \A b \in base : log[i].ledger >= b
      BY <1>4
    <3>2. CASE r.prev > 0
      BY <1>2, <1>4, <2>1, <3>1, <3>2 DEF Accounted
    <3>3. CASE r.prev = 0
      <4>1. ~Backfilled(r)
        <5> SUFFICES ASSUME Backfilled(r) PROVE FALSE
          OBVIOUS
        <5>1. r.from \in base'
          BY <1>4
        <5> QED
          BY <1>1, <1>2, <2>1, <5>1
      <4>2. row.last \in Nat /\ r.from <= row.last /\ (row.last > 0 => Accounted(row.last))
        BY <1>2, <3>3, <4>1 DEF Backfilled, IndexerInv, StateOK, RowSound
      <4>3. log[i].ledger < row.last /\ row.last > 0
        BY <1>1, <1>2, <2>1, <4>2
      <4> QED
        BY <1>4, <3>1, <4>2, <4>3 DEF Accounted
    <3> QED
      BY <1>2, <3>2, <3>3
  <2>2. CASE log[i].ledger >= r.from /\ log[i].ledger < r.start
    BY <1>1, <1>2, <1>4, <2>2
  <2>3. CASE log[i].ledger >= r.from /\ log[i].ledger >= r.start
    <3>1. PICK k \in 1..r.tail : log[k].ledger = r.last
      BY <1>1, <1>2, <2>3
    <3>2. k \in 1..Len(log) /\ log[i].ledger < log[k].ledger
      BY <1>1, <1>2, <3>1
    <3>3. i < k
      BY <1>1, <3>2 DEF LogOK
    <3>4. i \in r.folded
      BY <1>1, <1>2, <2>3, <3>3
    <3> QED
      BY <1>4, <3>4
  <2> QED
    BY <1>1, <1>2, <2>1, <2>2, <2>3
<1>8. Accounted(row.last)'
  BY <1>3, <1>4, <1>7 DEF Accounted
<1> QED
  BY <1>3, <1>5, <1>6, <1>8

LEMMA RowKept ==
  ASSUME IndexerInv, LogOK', LogGrows, HistoryGrows, UNCHANGED row
  PROVE  RowSound' /\ NeverOvercounts'
<1> DEFINE n == Cardinality(Named(1..Len(log), "off_acc"))
           d == Cardinality(Named(1..Len(log), "off_def"))
<1>1. /\ n \in Nat /\ n' \in Nat /\ n <= n' /\ d \in Nat /\ d' \in Nat /\ d <= d'
      /\ latest \in Nat /\ latest' \in Nat /\ latest <= latest'
  BY NamedGrows, LogFacts DEF LogGrows, IndexerInv
<1>2. /\ row.financed \in Nat /\ row.lenders \in Nat /\ row.defaulted \in Nat
      /\ row.volume \in Nat /\ row.last \in Nat
      /\ row.last <= latest /\ row.volume <= n /\ (row.last > 0 => Accounted(row.last))
      /\ row.financed <= n /\ row.defaulted <= d /\ row.lenders <= row.financed
  BY DEF IndexerInv, StateOK, RowSound, NeverOvercounts
<1>3. row.last > 0 => Accounted(row.last)'
  BY <1>2, AccountedKept DEF IndexerInv
<1>4. RowSound'
  <2>1. row.last <= latest' /\ row.volume <= n' /\ (row.last > 0 => Accounted(row.last)')
    <3> HIDE DEF n
    <3> QED
      BY <1>1, <1>2, <1>3
  <2> QED
    BY <2>1 DEF RowSound
<1>5. NeverOvercounts'
  <2>1. row.financed <= n' /\ row.defaulted <= d' /\ row.lenders <= row.financed
    <3> HIDE DEF n, d
    <3> QED
      BY <1>1, <1>2
  <2> QED
    BY <2>1 DEF NeverOvercounts
<1> QED
  BY <1>4, <1>5


-----------------------------------------------------------------------------
(* Every step keeps the invariant.                                         *)

LEMMA JobsKept ==
  ASSUME IndexerInv, LogOK', LogGrows, HistoryGrows, NEW j \in Job, \E s : Becomes(j, s)
  PROVE  job' \in [Job -> JobState] /\ \A k \in Job : JobSound(job[k])'
<1>1. PICK s : Becomes(j, s)
  OBVIOUS
<1>2. /\ job \in [Job -> JobState] /\ s \in JobState /\ JobSound(s)
      /\ job' = [job EXCEPT ![j] = s] /\ LogOK
  BY <1>1 DEF Becomes, IndexerInv, StateOK
<1>3. job' \in [Job -> JobState]
  BY <1>2
<1>4. ASSUME NEW k \in Job PROVE JobSound(job[k])'
  <2>1. ASSUME NEW q \in JobState, JobSound(q), q = job'[k] PROVE JobSound(job[k])'
    <3>1. JobSound(q)'
      BY <1>2, <2>1, SoundKept
    <3> QED
      BY <2>1, <3>1
  <2>2. job'[k] = s \/ job'[k] = job[k]
    BY <1>2
  <2>3. job'[k] \in JobState /\ JobSound(job'[k])
    BY <1>2, <2>2 DEF IndexerInv
  <2> QED
    BY <2>1, <2>3
<1> QED
  BY <1>3, <1>4

(* The steps before the save leave the row and the history alone.          *)
LEMMA UnsavedKept ==
  ASSUME Assumptions, IndexerInv, NEW j \in Job, Unsaved, \E s : Becomes(j, s)
  PROVE  IndexerInv'
<1>1. LogOK' /\ LogGrows /\ HistoryGrows
  BY LogFacts DEF Unsaved, IndexerInv, LogOK, LogTypeOK, LogGrows, HistoryGrows, logVars, history
<1>2. job' \in [Job -> JobState] /\ \A k \in Job : JobSound(job[k])'
  BY <1>1, JobsKept
<1>3. RowSound' /\ NeverOvercounts'
  BY <1>1, RowKept DEF Unsaved
<1>4. StateOK'
  BY <1>2 DEF Unsaved, IndexerInv, StateOK, logVars, history
<1> QED
  BY <1>1, <1>2, <1>3, <1>4 DEF IndexerInv

(* A job that dies leaves no trace.                                        *)
LEMMA DeathKept ==
  ASSUME Assumptions, IndexerInv, NEW j \in Job,
         job' = [job EXCEPT ![j] = NoJob], UNCHANGED <<logVars, row, history>>,
         aborts' \in 0..MaxAborts
  PROVE  IndexerInv'
<1>1. LogOK' /\ LogGrows /\ HistoryGrows
  BY LogFacts DEF IndexerInv, LogOK, LogTypeOK, LogGrows, HistoryGrows, logVars, history
<1>2. \E s : Becomes(j, s)
  BY NoJobIsSound DEF Becomes
<1>3. job' \in [Job -> JobState] /\ \A k \in Job : JobSound(job[k])'
  BY <1>1, <1>2, JobsKept
<1>4. RowSound' /\ NeverOvercounts'
  BY <1>1, RowKept
<1>5. StateOK'
  BY <1>3 DEF IndexerInv, StateOK, logVars, history
<1> QED
  BY <1>1, <1>3, <1>4, <1>5 DEF IndexerInv

LEMMA ChainKept ==
  ASSUME Assumptions, IndexerInv, ChainStep
  PROVE  IndexerInv'
<1>1. LogOK' /\ LogGrows
  BY LogKept DEF Assumptions, IndexerInv, Next
<1>2. HistoryGrows
  BY DEF ChainStep, HistoryGrows, history
<1>3. ASSUME NEW k \in Job PROVE JobSound(job[k])'
  <2>1. ASSUME NEW q \in JobState, JobSound(q), q = job'[k] PROVE JobSound(job[k])'
    <3>1. JobSound(q)'
      BY <1>1, <1>2, <2>1, SoundKept DEF IndexerInv
    <3> QED
      BY <2>1, <3>1
  <2>2. job'[k] \in JobState /\ JobSound(job'[k])
    BY DEF ChainStep, IndexerInv, StateOK
  <2> QED
    BY <2>1, <2>2
<1>4. RowSound' /\ NeverOvercounts'
  BY <1>1, <1>2, RowKept DEF ChainStep
<1>5. StateOK'
  <2>1. 1..Len(log) \subseteq 1..Len(log')
    BY <1>1, LogFacts DEF LogGrows, IndexerInv
  <2> QED
    BY <2>1 DEF IndexerInv, StateOK, ChainStep, history
<1> QED
  BY <1>1, <1>3, <1>4, <1>5 DEF IndexerInv

LEMMA SaveKept ==
  ASSUME Assumptions, IndexerInv, NEW j \in Job, SaveStats(j)
  PROVE  IndexerInv'
<1> DEFINE r == job[j]
           n == Cardinality(Named(1..Len(log), "off_acc"))
           d == Cardinality(Named(1..Len(log), "off_def"))
<1>1. LogOK' /\ LogGrows /\ UNCHANGED logVars /\ latest' = latest
  BY LogFacts DEF SaveStats, IndexerInv, LogOK, LogTypeOK, LogGrows, logVars
<1>2. /\ row'.last = r.last /\ HistoryGrows /\ covered' \union lost' \subseteq 1..Len(log)
      /\ Accounted(row.last)'
  BY SaveAccounts
<1>3. \E s : Becomes(j, s)
  BY NoJobIsSound DEF Becomes, SaveStats
<1>4. job' \in [Job -> JobState] /\ \A k \in Job : JobSound(job[k])'
  BY <1>1, <1>2, <1>3, JobsKept
<1>5. /\ r \in JobState /\ JobSound(r) /\ LogOK /\ r.last \in Nat /\ r.volume \in Nat
      /\ r.agg.financed \in Nat /\ r.agg.defaulted \in Nat /\ r.from \in Nat
      /\ r.last <= latest /\ r.volume <= n
  BY JobTypes DEF IndexerInv, StateOK, SaveStats, JobSound, LastIsSeen, HasLoaded
<1>6. /\ Cardinality(r.agg.lenders) \in Nat /\ Cardinality(r.agg.lenders) <= r.agg.financed
      /\ r.agg.financed <= n /\ r.agg.defaulted <= d
  <2>1. r.folded \in SUBSET (1..Len(log))
    BY <1>5, FoldedIsLogged DEF JobSound
  <2>2. /\ r.agg.financed = Cardinality(Named(r.folded, "off_acc"))
        /\ r.agg.defaulted = Cardinality(Named(r.folded, "off_def"))
    BY <1>5 DEF JobSound, CountsItsFolds
  <2>3. /\ Cardinality(Named(r.folded, "off_acc")) <= n
        /\ Cardinality(Named(r.folded, "off_def")) <= d
    BY <1>5, <2>1, NamedFinite
  <2>4. Cardinality(r.agg.lenders) \in Nat /\ Cardinality(r.agg.lenders) <= r.agg.financed
    BY <1>5, FewerLenders DEF JobSound
  <2> QED
    BY <2>2, <2>3, <2>4
<1>7. /\ row' = [financed |-> r.agg.financed, lenders |-> Cardinality(r.agg.lenders),
                defaulted |-> r.agg.defaulted, volume |-> r.volume, last |-> row'.last]
      /\ row'.last \in Nat
  BY <1>2, <1>5 DEF SaveStats, Stats
<1>8. n' = n /\ d' = d
  BY <1>1 DEF logVars, Named
<1>9. /\ row' \in [financed : Nat, lenders : Nat, defaulted : Nat, volume : Nat, last : Nat]
      /\ row'.financed <= n /\ row'.defaulted <= d /\ row'.lenders <= row'.financed
      /\ row'.volume <= n
  <2> HIDE DEF r, n, d
  <2> QED
    BY <1>5, <1>6, <1>7
<1>10. RowSound'
  BY <1>1, <1>2, <1>5, <1>8, <1>9 DEF RowSound
<1>11. NeverOvercounts'
  BY <1>8, <1>9 DEF NeverOvercounts
<1>12. StateOK'
  BY <1>1, <1>2, <1>4, <1>9 DEF StateOK, IndexerInv, SaveStats, logVars
<1> QED
  BY <1>1, <1>4, <1>10, <1>11, <1>12 DEF IndexerInv

LEMMA IndexerInvInit ==
  ASSUME Assumptions, Init
  PROVE  IndexerInv
<1>1. LogOK /\ Len(log) = 0
  BY DEF Assumptions, LogAssumption, Init, LogInit, LogOK, LogTypeOK
<1>2. Named(1..Len(log), "off_acc") = {} /\ Named(1..Len(log), "off_def") = {}
  BY <1>1 DEF Named
<1>3. Cardinality(Named(1..Len(log), "off_acc")) = 0
      /\ Cardinality(Named(1..Len(log), "off_def")) = 0
  BY <1>2, FS_EmptySet
<1>4. NoJob \in JobState
  BY DEF NoJob, JobState, Aggregates, emptyAggregates
<1>5. StateOK
  BY <1>4 DEF Init, StateOK, Assumptions, IndexerAssumption
<1>6. RowSound /\ NeverOvercounts
  BY <1>1, <1>3 DEF Init, LogInit, RowSound, NeverOvercounts
<1>7. JobSound(NoJob)
  <2>1. Named({}, "off_acc") = {} /\ Named({}, "off_def") = {} /\ Cardinality({}) = 0
    BY FS_EmptySet DEF Named
  <2> QED
    BY <1>1, <1>3, <2>1
       DEF Init, LogInit, JobSound, ReadsInOrder, LastIsSeen, FromIsSound, CountsItsFolds,
           HasLoaded, FoldedTo, NoJob, emptyAggregates
<1> QED
  BY <1>1, <1>5, <1>6, <1>7 DEF Init, IndexerInv

LEMMA IndexerInvStep ==
  ASSUME Assumptions, IndexerInv, [Next]_vars
  PROVE  IndexerInv'
<1>1. ASSUME NEW j \in Job, StartJob(j) PROVE IndexerInv'
  BY <1>1, StartJobSound, UnsavedKept DEF StartJob
<1>2. ASSUME NEW j \in Job, ReadTotals(j) PROVE IndexerInv'
  BY <1>2, ReadTotalsSound, UnsavedKept DEF ReadTotals
<1>3. ASSUME NEW j \in Job, LoadCheckpoint(j) PROVE IndexerInv'
  BY <1>3, LoadCheckpointSound, UnsavedKept DEF LoadCheckpoint
<1>4. ASSUME NEW j \in Job, FetchRange(j) PROVE IndexerInv'
  BY <1>4, FetchRangeSound, UnsavedKept DEF FetchRange
<1>5. ASSUME NEW j \in Job, FoldPage(j) PROVE IndexerInv'
  BY <1>5, FoldPageSound, UnsavedKept DEF FoldPage
<1>6. ASSUME NEW j \in Job, FetchNext(j) PROVE IndexerInv'
  BY <1>6, FetchNextSound, UnsavedKept DEF FetchNext
<1>7. ASSUME NEW j \in Job, RangeRejected(j) \/ PaginationGuard(j) PROVE IndexerInv'
  BY <1>7, DeathKept DEF RangeRejected, PaginationGuard, Unsaved, IndexerInv, StateOK
<1>8. ASSUME NEW j \in Job, AbortJob(j) PROVE IndexerInv'
  <2>1. aborts' \in 0..MaxAborts
    BY <1>8 DEF AbortJob, IndexerInv, StateOK, Assumptions, IndexerAssumption
  <2> QED
    BY <1>8, <2>1, DeathKept DEF AbortJob
<1>9. ASSUME NEW j \in Job, SaveStats(j) PROVE IndexerInv'
  BY <1>9, SaveKept
<1>10. CASE ChainStep
  BY <1>10, ChainKept
<1>11. CASE UNCHANGED vars
  <2>1. LogOK' /\ LogGrows /\ HistoryGrows
    BY <1>11, LogFacts
       DEF vars, IndexerInv, LogOK, LogTypeOK, LogGrows, HistoryGrows, logVars, history
  <2>2. RowSound' /\ NeverOvercounts'
    BY <1>11, <2>1, RowKept DEF vars
  <2>3. StateOK'
    BY <1>11 DEF vars, IndexerInv, StateOK, logVars, history
  <2>4. ASSUME NEW k \in Job PROVE JobSound(job[k])'
    <3>1. ASSUME NEW q \in JobState, JobSound(q), q = job'[k] PROVE JobSound(job[k])'
      <4>1. JobSound(q)'
        BY <2>1, <3>1, SoundKept DEF IndexerInv
      <4> QED
        BY <3>1, <4>1
    <3>2. job'[k] \in JobState /\ JobSound(job'[k])
      BY <1>11 DEF vars, IndexerInv, StateOK
    <3> QED
      BY <3>1, <3>2
  <2> QED
    BY <2>1, <2>2, <2>3, <2>4 DEF IndexerInv
<1> QED
  BY <1>1, <1>2, <1>3, <1>4, <1>5, <1>6, <1>7, <1>8, <1>9, <1>10, <1>11 DEF Next, JobStep

LEMMA IndexerInvHolds ==
  ASSUME Assumptions
  PROVE  Spec => []IndexerInv
<1>1. Init => IndexerInv
  BY IndexerInvInit
<1>2. IndexerInv /\ [Next]_vars => IndexerInv'
  BY IndexerInvStep
<1> QED
  BY <1>1, <1>2, PTL DEF Spec

-----------------------------------------------------------------------------
(* The checkpoint passes an event only if a saved job folded it, or the    *)
(* window or RPC's retention left it out (index.ts: "never skips           *)
(* unprocessed events"), with any number of jobs that overlap and die.     *)
THEOREM NothingIsSkipped == Spec => []NoEventSkipped
<1>1. Assumptions
  BY IndexerAssumption, LogAssumption DEF Assumptions
<1>2. IndexerInv => NoEventSkipped
  BY DEF IndexerInv, RowSound, Accounted, NoEventSkipped
<1>3. Spec => []IndexerInv
  BY <1>1, IndexerInvHolds
<1> QED
  BY <1>2, <1>3, PTL

(* No page and no boundary ledger is counted twice into a row, and every   *)
(* lender of the row is one of an accepted offer.                          *)
THEOREM NothingIsCountedTwice == Spec => []NeverOvercounts
<1>1. Assumptions
  BY IndexerAssumption, LogAssumption DEF Assumptions
<1>2. IndexerInv => NeverOvercounts
  BY DEF IndexerInv
<1>3. Spec => []IndexerInv
  BY <1>1, IndexerInvHolds
<1> QED
  BY <1>2, <1>3, PTL

(* The kinds of the log, the row, the jobs and the history.                *)
THEOREM TypesHold == Spec => []TypeOK
<1>1. Assumptions
  BY IndexerAssumption, LogAssumption DEF Assumptions
<1>2. IndexerInv => TypeOK
  <2> SUFFICES ASSUME IndexerInv PROVE TypeOK
    OBVIOUS
  <2>1. LogTypeOK /\ Len(log) \in Nat
    BY LogFacts DEF IndexerInv, LogOK
  <2>2. ASSUME NEW j \in Job
        PROVE  /\ job[j].pc \in {"off", "totals", "checkpoint", "range", "fold", "next", "save"}
               /\ {job[j].cursor, job[j].tail} \subseteq Cursors
               /\ job[j].cursor <= job[j].tail
               /\ job[j].folded \subseteq 1..Len(log)
    <3>1. job[j] \in JobState /\ ReadsInOrder(job[j]) /\ LogOK
      BY DEF IndexerInv, StateOK, JobSound
    <3>2. job[j].folded \subseteq 1..Len(log)
      BY <3>1, FoldedIsLogged
    <3>3. /\ job[j].cursor \in Nat /\ job[j].tail \in Nat
          /\ job[j].pc \in {"off", "totals", "checkpoint", "range", "fold", "next", "save"}
      BY <3>1, JobTypes
    <3> QED
      BY <2>1, <3>1, <3>2, <3>3 DEF ReadsInOrder, Cursors
  <2> QED
    BY <2>1, <2>2 DEF TypeOK, IndexerInv, StateOK
<1>3. Spec => []IndexerInv
  BY <1>1, IndexerInvHolds
<1> QED
  BY <1>2, <1>3, PTL

-----------------------------------------------------------------------------
(* With jobs that do not overlap, the row is behind what the job will save. *)
BehindTheJob ==
  \A j \in Job :
    /\ HasLoaded(job[j]) => row.last <= job[j].from
    /\ job[j].pc \notin {"off", "totals"} => row.volume <= job[j].volume

LEMMA BehindKept ==
  ASSUME Assumptions, \A j, k \in Job : j = k, IndexerInv, BehindTheJob, [Next]_vars
  PROVE  BehindTheJob' /\ [row'.last >= row.last /\ row'.volume >= row.volume]_row
<1>1. job \in [Job -> JobState] /\ row.last \in Nat /\ row.volume \in Nat
  BY DEF IndexerInv, StateOK
<1>2. ASSUME NEW j \in Job, StartJob(j) \/ RangeRejected(j) \/ PaginationGuard(j) \/ AbortJob(j)
      PROVE  BehindTheJob' /\ UNCHANGED row
  BY <1>1, <1>2
     DEF StartJob, RangeRejected, PaginationGuard, AbortJob, Unsaved, BehindTheJob, HasLoaded, NoJob,
         JobState
<1>3. ASSUME NEW j \in Job, FetchRange(j) \/ FoldPage(j) \/ FetchNext(j)
      PROVE  BehindTheJob' /\ UNCHANGED row
  <2>1. /\ job'[j].from = job[j].from /\ job'[j].volume = job[j].volume
        /\ HasLoaded(job[j]) /\ UNCHANGED row
    <3>1. CASE FetchRange(j)
      BY <1>1, <3>1 DEF FetchRange, Unsaved, HasLoaded, JobState
    <3>2. CASE FoldPage(j)
      <4>1. \A a, f, l, p, n :
              job' = [job EXCEPT ![j].pages = n, ![j].agg = a, ![j].folded = f, ![j].last = l,
                                 ![j].pc = p]
              => job'[j].from = job[j].from /\ job'[j].volume = job[j].volume
        BY <1>1 DEF JobState
      <4> QED
        BY <3>2, <4>1 DEF FoldPage, Unsaved, HasLoaded
    <3>3. CASE FetchNext(j)
      BY <1>1, <3>3 DEF FetchNext, Unsaved, HasLoaded, JobState
    <3> QED
      BY <1>3, <3>1, <3>2, <3>3
  <2>2. \A k \in Job : k = j
    OBVIOUS
  <2> QED
    BY <2>1, <2>2 DEF BehindTheJob, HasLoaded
<1>4. ASSUME NEW j \in Job, ReadTotals(j) PROVE BehindTheJob' /\ UNCHANGED row
  <2>1. /\ job'[j].pc = "checkpoint" /\ UNCHANGED row
        /\ job'[j].volume = Cardinality(Named(1..Len(log), "off_acc"))
    BY <1>1, <1>4 DEF ReadTotals, Unsaved, JobState
  <2>2. \A k \in Job : k = j
    OBVIOUS
  <2> QED
    BY <2>1, <2>2 DEF BehindTheJob, HasLoaded, IndexerInv, RowSound
<1>5. ASSUME NEW j \in Job, LoadCheckpoint(j) PROVE BehindTheJob' /\ UNCHANGED row
  <2>1. /\ job'[j].from = Checkpoint(job[j].end) /\ job'[j].volume = job[j].volume
        /\ UNCHANGED row
    BY <1>1, <1>5 DEF LoadCheckpoint, Unsaved, JobState
  <2>2. row.last <= Checkpoint(job[j].end)
    <3>1. job[j].end \in Nat /\ Backfill \in Nat
      BY <1>1, JobTypes DEF Assumptions, IndexerAssumption
    <3> QED
      BY <1>1, <3>1 DEF Checkpoint, Max2
  <2>3. row.volume <= job[j].volume
    BY <1>5 DEF LoadCheckpoint, BehindTheJob
  <2>4. \A k \in Job : k = j
    OBVIOUS
  <2> QED
    BY <2>1, <2>2, <2>3, <2>4 DEF BehindTheJob
<1>6. ASSUME NEW j \in Job, SaveStats(j)
      PROVE  BehindTheJob' /\ row'.last >= row.last /\ row'.volume >= row.volume
  <2>1. /\ job[j].from \in Nat /\ job[j].last \in Nat /\ job[j].volume \in Nat
        /\ job[j].pc = "save" /\ job'[j] = NoJob /\ row' = Stats(job[j])
    BY <1>1, <1>6, JobTypes DEF SaveStats
  <2>2. row.last <= job[j].from /\ row.volume <= job[j].volume
    BY <2>1 DEF BehindTheJob, HasLoaded
  <2>3. row'.last >= row.last /\ row'.volume >= row.volume
    BY <1>1, <2>1, <2>2 DEF Stats, Max2
  <2>4. \A k \in Job : k = j
    OBVIOUS
  <2> QED
    BY <2>1, <2>3, <2>4 DEF BehindTheJob, HasLoaded, NoJob
<1>7. CASE ChainStep \/ UNCHANGED vars
  BY <1>7 DEF ChainStep, vars, BehindTheJob
<1> QED
  BY <1>2, <1>3, <1>4, <1>5, <1>6, <1>7 DEF Next, JobStep

(* Only overlapping jobs can take the checkpoint or the chain totals of    *)
(* the row back (index.ts: the row is upserted whole).                     *)
THEOREM OneJobGoesForward ==
  ASSUME \A j, k \in Job : j = k
  PROVE  Spec => RowNeverGoesBack
<1>1. Assumptions
  BY IndexerAssumption, LogAssumption DEF Assumptions
<1>2. Spec => []IndexerInv
  BY <1>1, IndexerInvHolds
<1>3. Init => BehindTheJob
  BY DEF Init, BehindTheJob, HasLoaded, NoJob
<1>4. IndexerInv /\ BehindTheJob /\ [Next]_vars
        => BehindTheJob' /\ [row'.last >= row.last /\ row'.volume >= row.volume]_row
  BY <1>1, BehindKept
<1> QED
  BY <1>2, <1>3, <1>4, PTL DEF Spec, RowNeverGoesBack
=============================================================================

------------------------------- MODULE Keeper -------------------------------
(***************************************************************************)
(* The keeper (scripts/keeper.ts): marks past-due invoices overdue and     *)
(* keeps their storage alive, from contract events read off a checkpointed *)
(* ledger cursor and from full sweeps of the registry.  Its calls fail at  *)
(* any await, the process dies and is started again, RPC forgets ledgers.  *)
(***************************************************************************)
EXTENDS EventLog, FiniteSets, SequencesExt

CONSTANTS
  Invoice,
  Modes,       \* the KEEPER_MODEs to consider
  Lookback,    \* ledgers a catch-up without a checkpoint goes back
  PageSize,    \* PAGE_SIZE, invoices per sweep page
  MaxTtlBumps, \* MAX_TTL_BUMPS per sweep
  SweepEvery,  \* polls per FALLBACK_SWEEP_INTERVAL_MS
  MaxFailures, \* consecutive failed polls before recovery
  MaxFaults,   \* bound on failed calls
  MaxCrashes   \* bound on killed processes

ASSUME KeeperAssumption ==
  /\ Modes \subseteq {"event-driven", "event-catchup", "sweep"}
  /\ {Lookback, MaxTtlBumps, MaxFaults, MaxCrashes} \subseteq Nat
  /\ {PageSize, SweepEvery, MaxFailures} \subseteq Nat \ {0}

VARIABLES
  registry,   \* the registered invoices, in the order of the registry's list
  status,     \* their status
  pastDue,    \* invoices whose due date has passed
  alive,      \* invoices whose storage has been extended lately
  mode,
  disk,       \* the checkpoint file; 0 when there is none
  run,        \* the process: its place in the code and local variables
  handled,    \* history: log entries the keeper has handled
  expired,    \* history: entries a recovery has given up
  first,      \* history: the ledgers it started from without a checkpoint
  faults, crashes

chainVars == <<logVars, registry, status, pastDue>>
history == <<handled, expired, first>>
vars == <<chainVars, alive, mode, disk, run, history, faults, crashes>>

Max2(a, b) == IF a > b THEN a ELSE b
Min2(a, b) == IF a < b THEN a ELSE b

InvReg(i) == [name |-> "inv_reg", invoice |-> i]
OffAcc(i) == [name |-> "off_acc", invoice |-> i]

Down == [pc |-> "down", current |-> 0, seen |-> 0, cursor |-> 0, tail |-> 0,
         answered |-> 0, due |-> {}, failures |-> 0, polls |-> 0,
         initial |-> FALSE, offset |-> 0, page |-> <<>>, bumped |-> 0]

Init ==
  /\ LogInit
  /\ registry = <<>>
  /\ status = [i \in Invoice |-> "None"]
  /\ pastDue = {}
  /\ alive = {}
  /\ mode \in Modes
  /\ disk = 0
  /\ run = Down
  /\ handled = {} /\ expired = {} /\ first = {}
  /\ faults = 0 /\ crashes = 0

-----------------------------------------------------------------------------
(* The chain                                                               *)

With(S) == {i \in Invoice : status[i] \in S}
Active == With({"Pending", "Financed"})

EventsOf(S, Event1(_)) == [n \in 1..Cardinality(S) |-> Event1(SetToSeq(S)[n])]

(* A ledger registers, finances and settles some invoices.                 *)
LedgerCloses ==
  \E R \in SUBSET With({"None"}), S \in SUBSET With({"Financed"}) :
  \E A \in SUBSET (R \union With({"Pending"})) :
    /\ CloseLedger(EventsOf(R, InvReg) \o EventsOf(A, OffAcc))
    /\ registry' = registry \o SetToSeq(R)
    /\ status' = [i \in Invoice |->
         CASE i \in A -> "Financed" [] i \in S -> "Repaid"
           [] i \in R \ A -> "Pending" [] OTHER -> status[i]]
    /\ alive' = alive \union R
    /\ UNCHANGED <<pastDue, mode, disk, run, history, faults, crashes>>

RpcForgets ==
  /\ Prune
  /\ UNCHANGED <<registry, status, pastDue, alive, mode, disk, run, history, faults, crashes>>

DateDue(i) ==
  /\ i \in Active \ pastDue
  /\ pastDue' = pastDue \union {i}
  /\ UNCHANGED <<logVars, registry, status, alive, mode, disk, run, history, faults, crashes>>

StorageAges(i) ==
  /\ i \in alive \intersect Active
  /\ alive' = alive \ {i}
  /\ UNCHANGED <<chainVars, mode, disk, run, history, faults, crashes>>

-----------------------------------------------------------------------------
(* The calls of the keeper and how they fail                               *)

Fault == faults < MaxFaults /\ faults' = faults + 1

(* bumpTtl: true when the extension is confirmed. *)
BumpTtl(i, ok) ==
  \/ ok /\ alive' = alive \union {i} /\ UNCHANGED faults
  \/ ~ok /\ Fault /\ alive' \in {alive, alive \union {i}}

(* markOverdue: the contract accepts it of a financed past-due invoice and *)
(* of no other; an unconfirmed transaction may have landed.                *)
Marked(i) ==
  IF status[i] = "Financed" /\ i \in pastDue
  THEN [status EXCEPT ![i] = "Overdue"] ELSE status
MarkOverdue(i) ==
  \/ status' = Marked(i) /\ UNCHANGED faults
  \/ Fault /\ status' \in {status, Marked(i)}

SaveCheckpoint(ledger) ==
  \/ disk' = ledger /\ UNCHANGED faults
  \/ Fault /\ UNCHANGED disk

-----------------------------------------------------------------------------
(* Starting and stopping                                                   *)

Go(pc) == run' = [run EXCEPT !.pc = pc]

(* Between polls and sweeps the daemon keeps these variables only.         *)
Daemon(pc, failures, polls) ==
  [Down EXCEPT !.pc = pc, !.current = run.current, !.failures = failures, !.polls = polls]

FirstLedger ==
  IF mode = "event-driven" THEN latest ELSE Max2(1, latest - Min2(latest, Lookback))

StartSweep(r, initial) ==
  [r EXCEPT !.pc = "page", !.offset = 0, !.bumped = 0, !.polls = 0, !.initial = initial]

(* main: the mode decides whether the sweep or the poll comes first.       *)
Boot ==
  /\ run.pc = "down"
  /\ LET ledger == IF disk > 0 THEN disk ELSE FirstLedger
         begun == [Down EXCEPT !.current = ledger]
     IN  CASE mode = "sweep" ->
                run' = StartSweep(Down, TRUE) /\ UNCHANGED <<disk, first, faults>>
           [] mode = "event-catchup" ->
                /\ run' = [begun EXCEPT !.pc = "poll"]
                /\ first' = IF disk > 0 THEN first ELSE first \union {ledger}
                /\ UNCHANGED <<disk, faults>>
           [] OTHER ->
                /\ run' = StartSweep(begun, TRUE)
                /\ first' = IF disk > 0 THEN first ELSE first \union {ledger}
                /\ IF disk > 0 THEN UNCHANGED <<disk, faults>> ELSE SaveCheckpoint(ledger)
  /\ UNCHANGED <<chainVars, alive, mode, handled, expired, crashes>>

Crash ==
  /\ run.pc # "down"
  /\ crashes < MaxCrashes
  /\ crashes' = crashes + 1
  /\ run' = Down
  /\ UNCHANGED <<chainVars, alive, mode, disk, history, faults>>

-----------------------------------------------------------------------------
(* pollEventsOnce                                                          *)

Quiet == UNCHANGED <<chainVars, alive, mode, disk, history, crashes>>

(* Mutant: the poll catches the error itself and goes on as if it had ended. *)
AfterThrowGoesOn ==
  IF mode # "event-driven" THEN Down
  ELSE [run EXCEPT !.seen = Max2(@, latest), !.pc = "commit"]

(* Mutant: failed polls are not counted.                                   *)
AfterThrowUncounted ==
  IF mode # "event-driven" THEN Down ELSE Daemon("pause", run.failures, run.polls)

(* A throw reaches the daemon's loop, or ends a single-pass process.       *)
AfterThrow ==
  IF mode # "event-driven" THEN Down
  ELSE Daemon(IF run.failures + 1 >= MaxFailures THEN "recover" ELSE "pause",
              run.failures + 1, run.polls)

PollStart ==
  /\ run.pc = "poll"
  /\ run' = [run EXCEPT !.seen = run.current, !.cursor = 0,
                        !.pc = IF latest < run.current THEN "polled" ELSE "range"]
  /\ UNCHANGED faults /\ Quiet

(* An empty page ends the poll at the latestLedger of the response.        *)
Fetched(p, q) ==
  run' = IF p = q THEN [run EXCEPT !.seen = Max2(@, latest), !.pc = "commit"]
         ELSE [run EXCEPT !.cursor = p, !.tail = q, !.answered = latest,
                          !.due = pastDue, !.pc = "handle"]

FetchRange ==
  /\ run.pc = "range"
  /\ run.current >= oldest
  /\ \E p \in Cursors : \E q \in PageEnds(p, latest) :
       StartsAt(p, run.current) /\ Fetched(p, q)
  /\ UNCHANGED faults /\ Quiet

(* RPC rejects a start ledger it has forgotten.                            *)
RangeExpired ==
  /\ run.pc = "range"
  /\ run.current < oldest
  /\ run' = AfterThrow
  /\ UNCHANGED faults /\ Quiet

FetchNext ==
  /\ run.pc = "next"
  /\ \E q \in PageEnds(run.cursor, latest) : Fetched(run.cursor, q)
  /\ UNCHANGED faults /\ Quiet

CallRejects ==
  /\ run.pc \in {"poll", "range", "next"}
  /\ Fault
  /\ run' = AfterThrow
  /\ Quiet

Current == log[run.cursor + 1]

(* Mutant: the end of the page is tested before the cursor has moved.      *)
NextEventLate ==
  /\ run' = [run EXCEPT !.cursor = @ + 1,
                        !.seen = Max2(@, Current.ledger),
                        !.pc = IF run.cursor = run.tail THEN "pageEnd" ELSE "handle"]
  /\ handled' = handled \union {run.cursor + 1}

(* Past the event; the end of the page sends the loop for the next one.    *)
NextEvent ==
  /\ run' = [run EXCEPT !.cursor = @ + 1,
                        !.seen = Max2(@, Current.ledger),
                        !.pc = IF run.cursor + 1 = run.tail THEN "pageEnd" ELSE "handle"]
  /\ handled' = handled \union {run.cursor + 1}

HandleEvent ==
  /\ run.pc = "handle"
  /\ \E ok \in BOOLEAN : BumpTtl(Current.event.invoice, ok)
  /\ IF Current.event.name = "inv_reg" THEN NextEvent
     ELSE Go("check") /\ UNCHANGED handled
  /\ UNCHANGED <<chainVars, mode, disk, expired, first, crashes>>

(* off_acc: read the invoice and mark it overdue; the time it is compared  *)
(* with is that of the page, and an unreadable invoice is passed over.     *)
DueNow(i) == status[i] = "Financed" /\ i \in run.due

CheckOverdue ==
  /\ run.pc = "check"
  /\ IF DueNow(Current.event.invoice) THEN MarkOverdue(Current.event.invoice)
     ELSE UNCHANGED <<status, faults>>
  /\ NextEvent
  /\ UNCHANGED <<logVars, registry, pastDue, alive, mode, disk, expired, first, crashes>>

(* markOverdue has no catch: its throw abandons the poll.                  *)
CheckThrows ==
  /\ run.pc = "check"
  /\ DueNow(Current.event.invoice)
  /\ Fault
  /\ status' \in {status, Marked(Current.event.invoice)}
  /\ run' = AfterThrow
  /\ UNCHANGED <<logVars, registry, pastDue, alive, mode, disk, history, crashes>>

PageDone ==
  /\ run.pc = "pageEnd"
  /\ run' = [run EXCEPT !.seen = Max2(@, run.answered), !.pc = "next",
                        !.answered = 0, !.due = {}]
  /\ UNCHANGED faults /\ Quiet

(* The next poll begins after the last ledger that is known to be read.    *)
Commit ==
  LET nextLedger == run.seen + 1 IN
  /\ run.pc = "commit"
  /\ run' = [Daemon("polled", run.failures, run.polls) EXCEPT !.current = nextLedger]
  /\ SaveCheckpoint(nextLedger)
  /\ UNCHANGED <<chainVars, alive, mode, history, crashes>>

Polled ==
  /\ run.pc = "polled"
  /\ run' = IF mode = "event-catchup" THEN StartSweep(run, TRUE)
            ELSE Daemon("pause", 0, run.polls)
  /\ UNCHANGED faults /\ Quiet

-----------------------------------------------------------------------------
(* The daemon's loop                                                       *)

(* Mutant: recovery moves to the oldest ledger without comparing.          *)
RecoverBackwards ==
  /\ run.pc = "recover"
  /\ run' = [run EXCEPT !.current = oldest, !.failures = 0, !.pc = "pause"]
  /\ expired' = expired \union
       {n \in 1..Len(log) : log[n].ledger \in run.current..oldest - 1}
  /\ SaveCheckpoint(oldest)
  /\ UNCHANGED <<chainVars, alive, mode, handled, first, crashes>>

(* After three failed polls the cursor moves up to what RPC still has.     *)
Recover ==
  /\ run.pc = "recover"
  /\ IF oldest > run.current
     THEN /\ run' = [run EXCEPT !.current = oldest, !.failures = 0, !.pc = "pause"]
          /\ expired' = expired \union
               {n \in 1..Len(log) : log[n].ledger \in run.current..oldest - 1}
          /\ SaveCheckpoint(oldest)
     ELSE /\ run' = [run EXCEPT !.failures = 0, !.pc = "pause"]
          /\ UNCHANGED <<expired, disk, faults>>
  /\ UNCHANGED <<chainVars, alive, mode, handled, first, crashes>>

HealthCheckFails ==
  /\ run.pc = "recover"
  /\ Fault
  /\ Go("pause")
  /\ Quiet

(* Mutant: there is no fallback sweep after the first one.                 *)
PauseOnly ==
  /\ run.pc = "pause"
  /\ Go("poll")
  /\ UNCHANGED faults /\ Quiet

(* The fallback sweep is due once the interval has passed.                 *)
Pause ==
  /\ run.pc = "pause"
  /\ run' = IF run.polls + 1 >= SweepEvery THEN StartSweep(run, FALSE)
            ELSE [run EXCEPT !.polls = @ + 1, !.pc = "poll"]
  /\ UNCHANGED faults /\ Quiet

-----------------------------------------------------------------------------
(* runFullSweep                                                            *)

(* What the registry answers for the page: a copy of status and due date.  *)
PageAt(offset) ==
  [n \in 1..Min2(PageSize, Len(registry) - offset) |->
     LET i == registry[offset + n]
     IN  [id |-> i, status |-> status[i], due |-> i \in pastDue]]

EndSweep ==
  IF mode = "event-driven" THEN Daemon("poll", run.failures, 0) ELSE Down

ReadPage ==
  /\ run.pc = "page"
  /\ run' = IF PageAt(run.offset) = <<>> THEN EndSweep
            ELSE [run EXCEPT !.page = PageAt(run.offset), !.cursor = 1, !.pc = "mark"]
  /\ UNCHANGED faults /\ Quiet

Item == run.page[run.cursor]

SweepMark ==
  /\ run.pc = "mark"
  /\ IF Item.status = "Financed" /\ Item.due THEN MarkOverdue(Item.id)
     ELSE UNCHANGED <<status, faults>>
  /\ Go("bump")
  /\ UNCHANGED <<logVars, registry, pastDue, alive, mode, disk, history, crashes>>

(* Mutant: the sweep ends after the page it has read.                      *)
NextItemOnePage(bumped) ==
  IF run.cursor < Len(run.page)
  THEN [run EXCEPT !.cursor = @ + 1, !.pc = "mark", !.bumped = bumped]
  ELSE EndSweep

(* On to the next invoice, the next page or, after a short page, the end.  *)
NextItem(bumped) ==
  IF run.cursor < Len(run.page)
  THEN [run EXCEPT !.cursor = @ + 1, !.pc = "mark", !.bumped = bumped]
  ELSE IF Len(run.page) < PageSize THEN EndSweep
  ELSE [run EXCEPT !.offset = @ + Len(run.page), !.pc = "page", !.bumped = bumped]

SweepBump ==
  /\ run.pc = "bump"
  /\ IF Item.status \in {"Pending", "Financed"} /\ run.bumped < MaxTtlBumps
     THEN \E ok \in BOOLEAN :
            BumpTtl(Item.id, ok) /\ run' = NextItem(run.bumped + IF ok THEN 1 ELSE 0)
     ELSE run' = NextItem(run.bumped) /\ UNCHANGED <<alive, faults>>
  /\ UNCHANGED <<chainVars, mode, disk, history, crashes>>

(* Only the daemon's periodic sweep is inside a try.                       *)
SweepThrows ==
  /\ \/ run.pc = "page" /\ UNCHANGED status
     \/ /\ run.pc = "mark" /\ Item.status = "Financed" /\ Item.due
        /\ status' \in {status, Marked(Item.id)}
  /\ Fault
  /\ run' = IF mode = "event-driven" /\ ~run.initial THEN EndSweep ELSE Down
  /\ UNCHANGED <<logVars, registry, pastDue, alive, mode, disk, history, crashes>>

-----------------------------------------------------------------------------
KeeperStep ==
  \/ Boot
  \/ PollStart \/ FetchRange \/ RangeExpired \/ FetchNext \/ CallRejects
  \/ HandleEvent \/ CheckOverdue \/ CheckThrows \/ PageDone \/ Commit \/ Polled
  \/ Recover \/ HealthCheckFails \/ Pause
  \/ ReadPage \/ SweepMark \/ SweepBump \/ SweepThrows

ChainStep ==
  LedgerCloses \/ RpcForgets \/ \E i \in Invoice : DateDue(i) \/ StorageAges(i)

Next == KeeperStep \/ Crash \/ ChainStep

Spec == Init /\ [][Next]_vars

(* The process keeps running, and is started again when it has ended.      *)
FairSpec == Spec /\ WF_vars(KeeperStep)

-----------------------------------------------------------------------------
(* Properties                                                              *)

(* The process' cursors stay within the log and the page it holds.         *)
TypeOK ==
  /\ LogTypeOK
  /\ registry \in Seq(Invoice) /\ Len(registry) = Cardinality(ToSet(registry))
  /\ status \in [Invoice -> {"None", "Pending", "Financed", "Repaid", "Overdue"}]
  /\ ToSet(registry) = Invoice \ With({"None"})
  /\ pastDue \union alive \subseteq Invoice
  /\ disk \in 0..MaxLedger + 1
  /\ run.pc \in {"handle", "check"} => run.cursor < run.tail /\ run.tail <= Len(log)
  /\ run.pc \in {"mark", "bump"} => run.cursor \in DOMAIN run.page
  /\ handled \union expired \subseteq 1..Len(log)

(* "Seamless catch-up after restarts without missed events": whatever      *)
(* fails or dies, the checkpoint and the daemon's own cursor stand beyond  *)
(* no event, from its last start without a checkpoint on, that the keeper  *)
(* has not handled, those given up to RPC's retention apart.               *)
NoEventMissed ==
  \A ledger \in {disk, run.current} \ {0} : \A n \in 1..Len(log) :
    /\ log[n].ledger < ledger
    /\ \A f \in first : f <= log[n].ledger
    => n \in handled \union expired

(* A restart, a failed poll or a recovery never takes the file back.       *)
CheckpointAdvances == [][disk' >= disk]_disk

(* Both: no event is lost, from one file to the next.                      *)
KeeperMissesNothing == []NoEventMissed /\ CheckpointAdvances

(* "marks Financed invoices overdue once their due_date passes": events    *)
(* and failed calls apart, the sweep gets to every one of them.            *)
OverdueIsMarked ==
  \A i \in Invoice : []<>~(status[i] = "Financed" /\ i \in pastDue)

(* "so contract state never expires": the storage of an active invoice is  *)
(* always extended again.                                                  *)
StorageIsKeptAlive == \A i \in Invoice : []<>(i \notin Active \ alive)

(* Both: the sweeps reach every invoice.                                   *)
SweepsReachAll == OverdueIsMarked /\ StorageIsKeptAlive

(* A daemon whose cursor RPC has forgotten gets back to a readable ledger. *)
CursorRecovers ==
  []<>~(mode = "event-driven" /\ run.current \in 1..oldest - 1)
=============================================================================

-------------------------------- MODULE Health --------------------------------
(***************************************************************************)
(* The hourly health collector (scripts/health-collector.ts and            *)
(* lib/health/collector.ts).  A run reads the events of the last hour of   *)
(* ledgers from each contract, folds them into one health_metrics row keyed *)
(* by the start of the previous clock hour, snapshots the contract state   *)
(* from the indexer's row, evaluates the alert rules and writes the three. *)
(* Runs are scheduled and dispatched by hand; nothing keeps them apart.    *)
(***************************************************************************)
EXTENDS Naturals, FiniteSets

CONSTANTS Contracts,
          Known,          \* contracts whose event names are in SUCCESS_EVENTS
          Runs,
          Hour,           \* ticks of an hour
          MaxTime, MaxEvents, MaxFaults   \* bounds

VARIABLES now,
          events,         \* what the contracts emitted: [at, contract]
          run,            \* run[r]: [pc, start, window, left, missed, breach]
          metrics,        \* health_metrics: bucket -> the row stored
          snapshots,      \* contract_state_snapshots: the runs that wrote one
          audit,          \* audit_log: the breaches recorded, by run
          stored,         \* history: the runs that ever stored a row
          faults

vars == <<now, events, run, metrics, snapshots, audit, stored, faults>>

NewRun == [pc |-> "idle", start |-> 0, window |-> {}, left |-> {}, missed |-> FALSE, rules |-> FALSE]

Init == /\ now = Hour /\ events = {} /\ run = [r \in Runs |-> NewRun]
        /\ metrics = [b \in {} |-> 0] /\ snapshots = {} /\ audit = {} /\ stored = {} /\ faults = 0

-----------------------------------------------------------------------------
HourOf(t) == t \div Hour
(* bucketStart: the hour before the one the run starts in.                 *)
Bucket(t) == HourOf(t) - 1
(* startLedger: the latest ledger less an hour of ledgers.                 *)
LastHour(t) == t - Hour
\* Mutant: the hour the run starts in.
ThisHour(t) == HourOf(t) * Hour
StartLedger(t) == LastHour(t)

Tick == /\ now < MaxTime /\ now' = now + 1
        /\ UNCHANGED <<events, run, metrics, snapshots, audit, stored, faults>>
Emit(c) == /\ Cardinality(events) < MaxEvents
           /\ events' = events \cup {[at |-> now, contract |-> c]}
           /\ UNCHANGED <<now, run, metrics, snapshots, audit, stored, faults>>

-----------------------------------------------------------------------------
At(r, pc) == run[r].pc = pc
Fault == faults < MaxFaults /\ faults' = faults + 1

Start(r) == /\ At(r, "idle")
            /\ run' = [run EXCEPT ![r].pc = "collect", ![r].start = now, ![r].left = Contracts]
            /\ UNCHANGED <<now, events, metrics, snapshots, audit, stored, faults>>

(* collectEvents: one getEvents per contract; an error is only logged.     *)
Collect(r, c) ==
  /\ At(r, "collect") /\ c \in run[r].left
  /\ LET found == {e \in events : e.contract = c /\ e.at >= StartLedger(run[r].start)}
     IN  \/ run' = [run EXCEPT ![r].left = @ \ {c}, ![r].window = @ \cup found] /\ UNCHANGED faults
         \/ Fault /\ run' = [run EXCEPT ![r].left = @ \ {c}, ![r].missed = TRUE]
  /\ UNCHANGED <<now, events, metrics, snapshots, audit, stored>>

(* foldEvent: a name that is not known as a success counts as a failure.   *)
Failures(window) == {e \in window : e.contract \notin Known}

(* snapshotContractState and loadAlertConfigs: failing reads give zeros and *)
(* no rules; evaluateAlerts works on what was read.                        *)
Evaluate(r) ==
  /\ At(r, "collect") /\ run[r].left = {}
  /\ \/ run' = [run EXCEPT ![r].pc = "metric", ![r].rules = TRUE] /\ UNCHANGED faults
     \/ run' = [run EXCEPT ![r].pc = "metric"] /\ Fault
  /\ UNCHANGED <<now, events, metrics, snapshots, audit, stored>>

(* The rule: tx_failure_rate above zero.                                   *)
Breached(r) == run[r].rules /\ Failures(run[r].window) /= {}

Ends(r) == run' = [run EXCEPT ![r].pc = "done"]

(* writeMetric: an upsert on bucket_start; its error ends the run.         *)
WriteMetric(r) ==
  /\ At(r, "metric")
  /\ \/ LET b == Bucket(run[r].start) IN
        /\ metrics' = [h \in DOMAIN metrics \cup {b} |->
                         IF h = b THEN [run |-> r, window |-> run[r].window] ELSE metrics[h]]
        /\ stored' = stored \cup {r}
        /\ run' = [run EXCEPT ![r].pc = "snapshot"] /\ UNCHANGED faults
     \/ Fault /\ Ends(r) /\ UNCHANGED <<metrics, stored>>
  /\ UNCHANGED <<now, events, snapshots, audit>>

(* writeSnapshot: an insert; its error ends the run.  Mutant: it is logged. *)
SnapshotStops(r) ==
  /\ At(r, "snapshot")
  /\ \/ snapshots' = snapshots \cup {r} /\ run' = [run EXCEPT ![r].pc = "audit"] /\ UNCHANGED faults
     \/ Fault /\ Ends(r) /\ UNCHANGED snapshots
  /\ UNCHANGED <<now, events, metrics, audit, stored>>
SnapshotGoesOn(r) ==
  /\ At(r, "snapshot")
  /\ \/ snapshots' = snapshots \cup {r} /\ run' = [run EXCEPT ![r].pc = "audit"] /\ UNCHANGED faults
     \/ Fault /\ run' = [run EXCEPT ![r].pc = "audit"] /\ UNCHANGED snapshots
  /\ UNCHANGED <<now, events, metrics, audit, stored>>
WriteSnapshot(r) == SnapshotStops(r)

(* writeAuditBreaches: an insert whose error is only logged.               *)
WriteAudit(r) ==
  /\ At(r, "audit") /\ Ends(r)
  /\ \/ audit' = (IF Breached(r) THEN audit \cup {r} ELSE audit) /\ UNCHANGED faults
     \/ Fault /\ UNCHANGED audit
  /\ UNCHANGED <<now, events, metrics, snapshots, stored>>

Next == \/ Tick \/ \E c \in Contracts : Emit(c)
        \/ \E r \in Runs : \/ Start(r) \/ \E c \in Contracts : Collect(r, c)
                           \/ Evaluate(r) \/ WriteMetric(r) \/ WriteSnapshot(r) \/ WriteAudit(r)
Spec == Init /\ [][Next]_vars

-----------------------------------------------------------------------------
TypeOK == /\ now \in Hour..MaxTime /\ faults \in 0..MaxFaults
          /\ \A r \in Runs : run[r].window \subseteq events /\ run[r].start \in 0..MaxTime
          /\ stored \subseteq Runs /\ snapshots \subseteq Runs /\ audit \subseteq Runs

(* Runs at most an hour apart leave no gap: an event between the starts of *)
(* two runs that both read every contract is in the later run's row, as    *)
(* long as no run of the same hour has replaced it.                        *)
TimelyRunsMissNothing ==
  \A b \in DOMAIN metrics :
    LET later == run[metrics[b].run] IN
    ~later.missed => \A r \in stored : \A e \in events :
      /\ run[r].start < later.start /\ later.start <= run[r].start + Hour
      /\ run[r].start < e.at /\ e.at < later.start
      => e \in metrics[b].window

(* A breach in the audit log has its evidence: the run that logged it has  *)
(* stored its row and its snapshot, and an hour's row holds a failure      *)
(* unless another run has replaced it.                                     *)
BreachHasItsRows ==
  \A r \in audit : /\ r \in stored \cap snapshots
                   /\ LET b == Bucket(run[r].start) IN
                      metrics[b].run = r => Failures(metrics[b].window) /= {}

(* Both: a stored row is complete and a recorded breach is backed by one.  *)
MetricsAreComplete == TimelyRunsMissNothing /\ BreachHasItsRows

(* Why: a run that has read a contract holds what it emitted in the hour   *)
(* before the run; a row is that of the run that stored it.                *)
Event == [at : Nat, contract : Contracts]
Run == [pc : {"idle", "collect", "metric", "snapshot", "audit", "done"}, start : Nat,
        window : SUBSET Event, left : SUBSET Contracts, missed : BOOLEAN, rules : BOOLEAN]

StateOK == /\ now \in Nat /\ Hour <= now /\ events \subseteq Event
           /\ run \in [Runs -> Run] /\ stored \subseteq Runs /\ audit \subseteq Runs

RunIsThorough(r) ==
  run[r].pc /= "idle" =>
    /\ Hour <= run[r].start /\ run[r].start <= now
    /\ run[r].pc /= "collect" => run[r].left = {}
    /\ ~run[r].missed => \A e \in events :
         e.contract \notin run[r].left /\ StartLedger(run[r].start) <= e.at /\ e.at < run[r].start
         => e \in run[r].window

RunIsRecorded(r) ==
  /\ r \in stored => run[r].pc \in {"snapshot", "audit", "done"}
                    /\ Bucket(run[r].start) \in DOMAIN metrics
  /\ run[r].pc \in {"snapshot", "audit"} => r \in stored
  /\ run[r].pc = "audit" => r \in snapshots
  /\ r \in audit => /\ r \in stored \cap snapshots /\ run[r].pc = "done"
                   /\ Failures(run[r].window) /= {}

RowsAreRuns == \A b \in DOMAIN metrics :
  metrics[b].run \in stored /\ metrics[b].window = run[metrics[b].run].window

HealthInv == StateOK /\ RowsAreRuns /\ \A r \in Runs : RunIsThorough(r) /\ RunIsRecorded(r)
=============================================================================

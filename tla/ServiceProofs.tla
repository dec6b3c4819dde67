----------------------------- MODULE ServiceProofs -----------------------------
(***************************************************************************)
(* What is proved of the components around services beside the ledger: the *)
(* scheduled jobs over the database, the versions of contracts and the     *)
(* escrow rail.  As in PartsProofs the proofs are about the behaviours of  *)
(* MCParts, for any actors, and taken over the variables they have there.  *)
(***************************************************************************)
EXTENDS MCParts, TLAPS

(* A behaviour stays about the part it is about, and takes its steps.      *)
LEMMA ServiceStarts ==
  ASSUME MCInit
  PROVE  /\ part = "health" => Collector!Init
         /\ part = "reminders" => Reminder!Init
         /\ part = "versions" => Version!Init
         /\ part = "escrow" => Escrow!Init
         /\ part = "resolve" => Resolve!Init
BY DEF MCInit, PartInit

LEMMA ServiceGoesOn ==
  ASSUME [MCNext]_all
  PROVE  /\ part' = part
         /\ part = "health" => Collector!Next \/ UNCHANGED pool
         /\ part = "reminders" => Reminder!Next \/ UNCHANGED pool
         /\ part = "versions" => Version!Next \/ UNCHANGED pool
         /\ part = "escrow" => Escrow!Next \/ UNCHANGED pool
         /\ part = "resolve" => Resolve!Next \/ UNCHANGED pool
BY DEF MCNext, PoolStep, all

-----------------------------------------------------------------------------
(* The collector: the time is v1, the events v2, its runs v3, its three    *)
(* tables v4, v5 and v6, the runs that stored a row v7.                    *)

LEMMA HealthStarts == Collector!Init => Collector!HealthInv
<1> SUFFICES ASSUME Collector!Init PROVE Collector!HealthInv
  OBVIOUS
<1>1. Collector!NewRun \in Collector!Run /\ Collector!NewRun.pc = "idle"
  BY DEF Collector!NewRun, Collector!Run
<1>2. Collector!StateOK /\ \A r \in Actor : v3[r].pc = "idle"
  BY <1>1 DEF Collector!Init, Collector!StateOK
<1> QED
  BY <1>2 DEF Collector!Init, Collector!HealthInv, Collector!RunIsThorough,
    Collector!RunIsRecorded, Collector!RowsAreRuns

(* A step of one run that stores no row.                                   *)
LEMMA RunKeeps ==
  ASSUME Collector!HealthInv, NEW r \in Actor, NEW new \in Collector!Run,
         v3' = [v3 EXCEPT ![r] = new],
         UNCHANGED <<v1, v2, v4, v7>>,
         v6 \subseteq v6', v6' \subseteq v6 \cup {r},
         v5 \subseteq v5',
         Collector!RunIsThorough(r)', Collector!RunIsRecorded(r)',
         r \in v7 => new.window = v3[r].window
  PROVE  Collector!HealthInv'
<1>1. Collector!StateOK /\ Collector!RowsAreRuns /\ v3 \in [Actor -> Collector!Run]
  BY DEF Collector!HealthInv, Collector!StateOK
<1>2. v3'[r] = new /\ (\A s \in Actor \ {r} : v3'[s] = v3[s]) /\ v3' \in [Actor -> Collector!Run]
  BY <1>1
<1>3. Collector!StateOK'
  BY <1>1, <1>2 DEF Collector!StateOK
<1>4. Collector!RowsAreRuns'
  BY <1>1, <1>2 DEF Collector!RowsAreRuns, Collector!StateOK
<1>5. ASSUME NEW s \in Actor \ {r}
      PROVE  Collector!RunIsThorough(s)' /\ Collector!RunIsRecorded(s)'
  <2>1. /\ v3'[s] = v3[s] /\ Collector!RunIsThorough(s) /\ Collector!RunIsRecorded(s)
        /\ v3[s].start \in Nat /\ v1 \in Nat
    BY <1>1, <1>2 DEF Collector!HealthInv, Collector!StateOK, Collector!Run
  <2> QED
    BY <2>1 DEF Collector!RunIsThorough, Collector!RunIsRecorded
<1> QED
  BY <1>3, <1>4, <1>5 DEF Collector!HealthInv

LEMMA HealthStep ==
  ASSUME Collector!HealthInv, Collector!Next
  PROVE  Collector!HealthInv'
<1>1. /\ v1 \in Nat /\ 2 <= v1 /\ v2 \subseteq Collector!Event /\ v3 \in [Actor -> Collector!Run]
      /\ v7 \subseteq Actor /\ v6 \subseteq Actor /\ Collector!RowsAreRuns
  BY DEF Collector!HealthInv, Collector!StateOK
<1>2. \A r \in Actor : Collector!RunIsThorough(r) /\ Collector!RunIsRecorded(r)
  BY DEF Collector!HealthInv
<1>3. CASE Collector!Tick
  <2>1. v1' = v1 + 1 /\ UNCHANGED <<v2, v3, v4, v5, v6, v7>>
    BY <1>3 DEF Collector!Tick
  <2>2. /\ Collector!StateOK' /\ Collector!RowsAreRuns'
        /\ \A r \in Actor : Collector!RunIsRecorded(r)'
    BY <1>1, <1>2, <2>1 DEF Collector!StateOK, Collector!RowsAreRuns, Collector!RunIsRecorded
  <2>3. ASSUME NEW r \in Actor
        PROVE  Collector!RunIsThorough(r)'
    <3>1. v3[r].start \in Nat /\ Collector!RunIsThorough(r)
      BY <1>1, <1>2 DEF Collector!Run
    <3> QED
      BY <1>1, <2>1, <3>1 DEF Collector!RunIsThorough
  <2> QED
    BY <2>2, <2>3 DEF Collector!HealthInv
<1>4. ASSUME NEW c \in {"registry", "insurance"}, Collector!Emit(c)
      PROVE  Collector!HealthInv'
  <2> DEFINE new == [at |-> v1, contract |-> c]
  <2>1. v2' = v2 \cup {new} /\ UNCHANGED <<v1, v3, v4, v5, v6, v7>>
    BY <1>4 DEF Collector!Emit
  <2>2. new \in Collector!Event /\ new.at = v1
    BY <1>1 DEF Collector!Event
  <2> HIDE DEF new
  <2>3. /\ Collector!StateOK' /\ Collector!RowsAreRuns'
        /\ \A r \in Actor : Collector!RunIsRecorded(r)'
    BY <1>1, <1>2, <2>1, <2>2 DEF Collector!StateOK, Collector!RowsAreRuns,
      Collector!RunIsRecorded
  <2>4. ASSUME NEW r \in Actor
        PROVE  Collector!RunIsThorough(r)'
    <3>1. v3[r].start \in Nat /\ Collector!RunIsThorough(r)
      BY <1>1, <1>2 DEF Collector!Run
    <3> QED
      BY <1>1, <2>1, <2>2, <3>1 DEF Collector!RunIsThorough
  <2> QED
    BY <2>3, <2>4 DEF Collector!HealthInv
<1>5. ASSUME NEW r \in Actor, Collector!Start(r)
      PROVE  Collector!HealthInv'
  <2> DEFINE old == v3[r]
             new == [old EXCEPT !.pc = "collect", !.start = v1,
                                !.left = {"registry", "insurance"}]
  <2>1. /\ old.pc = "idle" /\ v3' = [v3 EXCEPT ![r] = new]
        /\ UNCHANGED <<v1, v2, v4, v5, v6, v7>>
    BY <1>5 DEF Collector!Start, Collector!At
  <2>2. old \in Collector!Run /\ r \notin v7 /\ r \notin v6
    BY <1>1, <1>2, <2>1 DEF Collector!RunIsRecorded
  <2> HIDE DEF old
  <2>3. /\ new \in Collector!Run /\ new.pc = "collect" /\ new.start = v1
        /\ new.left = {"registry", "insurance"}
    BY <1>1, <2>2 DEF Collector!Run
  <2> HIDE DEF new
  <2>4. v3'[r] = new
    BY <1>1, <2>1
  <2>5. \A e \in v2 : e.contract \in {"registry", "insurance"}
    BY <1>1 DEF Collector!Event
  <2>6. Collector!RunIsThorough(r)' /\ Collector!RunIsRecorded(r)'
    BY <1>1, <2>1, <2>2, <2>3, <2>4, <2>5 DEF Collector!RunIsThorough, Collector!RunIsRecorded
  <2> QED
    BY <1>1, <2>1, <2>2, <2>3, <2>6, RunKeeps
<1>6. ASSUME NEW r \in Actor, NEW c \in {"registry", "insurance"}, Collector!Collect(r, c)
      PROVE  Collector!HealthInv'
  <2> DEFINE old == v3[r]
             found == {e \in v2 : e.contract = c /\ e.at >= Collector!StartLedger(old.start)}
             window == old.window \cup found
             left == old.left \ {c}
             reads == [old EXCEPT !.left = left, !.window = window]
             misses == [old EXCEPT !.left = left, !.missed = TRUE]
  <2>1. /\ old.pc = "collect" /\ UNCHANGED <<v1, v2, v4, v5, v6, v7>>
        /\ v3' = [v3 EXCEPT ![r] = reads] \/ v3' = [v3 EXCEPT ![r] = misses]
    BY <1>6 DEF Collector!Collect, Collector!At
  <2>2. old \in Collector!Run /\ r \notin v7 /\ r \notin v6 /\ Collector!RunIsThorough(r)
    BY <1>1, <1>2, <2>1 DEF Collector!RunIsRecorded
  <2>3. window \in SUBSET Collector!Event /\ left \in SUBSET {"registry", "insurance"}
    BY <1>1, <2>2 DEF Collector!Run
  <2>4. \A e \in v2 : (e.contract \notin left => e.contract \notin old.left \/ e.contract = c)
    OBVIOUS
  <2>5. \A e \in v2 : e.contract = c /\ Collector!StartLedger(old.start) <= e.at => e \in found
    <3>1. \A e \in v2 : e.at \in Nat
      BY <1>1 DEF Collector!Event
    <3>2. Collector!StartLedger(old.start) \in Nat
      <4>1. old.start \in Nat /\ 2 <= old.start
        BY <2>1, <2>2 DEF Collector!RunIsThorough, Collector!Run
      <4> QED
        BY <4>1 DEF Collector!StartLedger, Collector!LastHour
    <3> QED
      BY <3>1, <3>2
  <2>6. found \subseteq window /\ old.window \subseteq window
    OBVIOUS
  <2> HIDE DEF old, found, window, left
  <2>7. /\ reads \in Collector!Run /\ reads.pc = old.pc /\ reads.start = old.start
        /\ reads.left = left
        /\ reads.window = window /\ reads.missed = old.missed
        /\ misses \in Collector!Run /\ misses.pc = old.pc /\ misses.start = old.start
        /\ misses.missed
    BY <2>2, <2>3 DEF Collector!Run
  <2> HIDE DEF reads, misses
  <2>8. PICK new \in {reads, misses} : v3' = [v3 EXCEPT ![r] = new]
    BY <2>1
  <2>9. v3'[r] = new /\ new \in Collector!Run
    BY <1>1, <2>7, <2>8
  <2>10. Collector!RunIsThorough(r)'
    BY <2>1, <2>2, <2>4, <2>5, <2>6, <2>7, <2>8, <2>9 DEF Collector!RunIsThorough, old
  <2>11. Collector!RunIsRecorded(r)'
    BY <2>1, <2>2, <2>7, <2>8, <2>9 DEF Collector!RunIsRecorded
  <2> QED
    BY <1>1, <2>1, <2>2, <2>8, <2>9, <2>10, <2>11, RunKeeps
<1>7. ASSUME NEW r \in Actor, Collector!Evaluate(r)
      PROVE  Collector!HealthInv'
  <2> DEFINE old == v3[r]
             ruled == [old EXCEPT !.pc = "metric", !.rules = TRUE]
             blind == [old EXCEPT !.pc = "metric"]
  <2>1. /\ old.pc = "collect" /\ old.left = {}
        /\ UNCHANGED <<v1, v2, v4, v5, v6, v7>>
        /\ v3' = [v3 EXCEPT ![r] = ruled] \/ v3' = [v3 EXCEPT ![r] = blind]
    BY <1>7 DEF Collector!Evaluate, Collector!At
  <2>2. old \in Collector!Run /\ r \notin v7 /\ r \notin v6 /\ Collector!RunIsThorough(r)
    BY <1>1, <1>2, <2>1 DEF Collector!RunIsRecorded
  <2> HIDE DEF old
  <2>3. \A new \in {ruled, blind} :
          /\ new \in Collector!Run /\ new.pc = "metric" /\ new.start = old.start
          /\ new.left = old.left
          /\ new.window = old.window /\ new.missed = old.missed
    BY <2>2 DEF Collector!Run
  <2> HIDE DEF ruled, blind
  <2>4. PICK new \in {ruled, blind} : v3' = [v3 EXCEPT ![r] = new]
    BY <2>1
  <2>5. v3'[r] = new /\ new \in Collector!Run
    BY <1>1, <2>3, <2>4
  <2>6. Collector!RunIsThorough(r)' /\ Collector!RunIsRecorded(r)'
    BY <2>1, <2>2, <2>3, <2>4, <2>5 DEF Collector!RunIsThorough, Collector!RunIsRecorded, old
  <2> QED
    BY <1>1, <2>1, <2>2, <2>4, <2>5, <2>6, RunKeeps
<1>8. ASSUME NEW r \in Actor, Collector!WriteMetric(r)
      PROVE  Collector!HealthInv'
  <2> DEFINE old == v3[r]
             b == Collector!Bucket(old.start)
             new == [old EXCEPT !.pc = "snapshot"]
             fails == [old EXCEPT !.pc = "done"]
             put == [run |-> r, window |-> old.window]
  <2>1. /\ old \in Collector!Run /\ old.pc = "metric" /\ Collector!RunIsThorough(r)
        /\ Collector!RunIsRecorded(r)
    BY <1>1, <1>2, <1>8 DEF Collector!WriteMetric, Collector!At
  <2>2. r \notin v7 /\ r \notin v6
    BY <2>1 DEF Collector!RunIsRecorded
  <2>3. /\ new \in Collector!Run /\ new.pc = "snapshot" /\ new.start = old.start
        /\ new.left = old.left
        /\ new.window = old.window /\ new.missed = old.missed
        /\ fails \in Collector!Run /\ fails.pc = "done" /\ fails.start = old.start
        /\ fails.left = old.left /\ fails.window = old.window /\ fails.missed = old.missed
    <3> HIDE DEF old
    <3> QED
      BY <2>1 DEF Collector!Run
  <2>4. CASE /\ v7' = v7 /\ v4' = v4 /\ v3' = [v3 EXCEPT ![r] = fails]
             /\ UNCHANGED <<v1, v2, v5, v6>>
    <3> HIDE DEF new, fails
    <3>1. v3'[r] = fails
      BY <1>1, <2>4
    <3>2. Collector!RunIsThorough(r)' /\ Collector!RunIsRecorded(r)'
      BY <2>1, <2>2, <2>3, <2>4, <3>1 DEF Collector!RunIsThorough, Collector!RunIsRecorded
    <3> QED
      BY <1>1, <2>2, <2>3, <2>4, <3>2, RunKeeps
  <2>5. CASE /\ v7' = v7 \cup {r} /\ v3' = [v3 EXCEPT ![r] = new]
             /\ v4' = [h \in DOMAIN v4 \cup {b} |-> IF h = b THEN put ELSE v4[h]]
             /\ UNCHANGED <<v1, v2, v5, v6>>
    <3>1. put.run = r /\ put.window = new.window
      BY <2>3
    <3> HIDE DEF new, b, put
    <3>2. /\ v3'[r] = new /\ (\A s \in Actor \ {r} : v3'[s] = v3[s])
          /\ v3' \in [Actor -> Collector!Run]
      BY <1>1, <2>3, <2>5
    <3>3. Collector!StateOK'
      BY <1>1, <2>5, <3>2 DEF Collector!StateOK
    <3>4. /\ DOMAIN v4' = DOMAIN v4 \cup {b} /\ v4'[b] = put
          /\ \A h \in DOMAIN v4 : h = b \/ v4'[h] = v4[h]
      BY <2>5
    <3>5. Collector!RowsAreRuns'
      <4> SUFFICES ASSUME NEW h \in DOMAIN v4'
                   PROVE  /\ v4'[h].run \in v7'
                          /\ v4'[h].window = v3'[v4'[h].run].window
        BY DEF Collector!RowsAreRuns
      <4>1. CASE h = b
        BY <2>5, <3>1, <3>2, <3>4, <4>1
      <4>2. CASE h # b
        <5>1. /\ v4'[h] = v4[h] /\ v4[h].run \in v7
              /\ v4[h].window = v3[v4[h].run].window
          BY <1>1, <3>4, <4>2 DEF Collector!RowsAreRuns
        <5> QED
          BY <1>1, <2>2, <2>5, <3>2, <5>1
      <4> QED
        BY <4>1, <4>2
    <3>6. Collector!RunIsThorough(r)'
      BY <2>1, <2>3, <2>5, <3>2 DEF Collector!RunIsThorough
    <3>7. Collector!RunIsRecorded(r)'
      BY <2>1, <2>2, <2>3, <2>5, <3>2, <3>4 DEF Collector!RunIsRecorded, b
    <3>8. ASSUME NEW s \in Actor \ {r}
          PROVE  Collector!RunIsThorough(s)' /\ Collector!RunIsRecorded(s)'
      <4>1. v3'[s] = v3[s] /\ Collector!RunIsThorough(s) /\ Collector!RunIsRecorded(s)
        BY <1>2, <3>2
      <4> QED
        BY <1>1, <2>5, <3>4, <4>1 DEF Collector!RunIsThorough, Collector!RunIsRecorded
    <3> QED
      BY <3>3, <3>5, <3>6, <3>7, <3>8 DEF Collector!HealthInv
  <2> QED
    BY <1>8, <2>4, <2>5 DEF Collector!WriteMetric, Collector!Ends
<1>9. ASSUME NEW r \in Actor, Collector!WriteSnapshot(r) \/ Collector!WriteAudit(r)
      PROVE  Collector!HealthInv'
  <2> DEFINE old == v3[r]
  <2>1. /\ old \in Collector!Run /\ old.pc \in {"snapshot", "audit"} /\ r \in v7 /\ r \notin v6
        /\ Collector!RunIsThorough(r) /\ Collector!RunIsRecorded(r)
    BY <1>1, <1>2, <1>9 DEF Collector!WriteSnapshot, Collector!SnapshotStops, Collector!WriteAudit,
      Collector!At, Collector!RunIsRecorded
  <2>2. PICK pc \in {"audit", "done"} :
          /\ v3' = [v3 EXCEPT ![r] = [old EXCEPT !.pc = pc]]
          /\ pc = "audit" => r \in v5'
          /\ v5 \subseteq v5' /\ v6 \subseteq v6'
          /\ UNCHANGED <<v1, v2, v4, v7>>
          /\ \/ v6' = v6
             \/ /\ v6' = v6 \cup {r} /\ old.pc = "audit" /\ pc = "done"
                /\ Collector!Failures(old.window) # {}
    BY <1>9 DEF Collector!WriteSnapshot, Collector!SnapshotStops, Collector!WriteAudit,
      Collector!At, Collector!Ends, Collector!Breached
  <2>3. PICK new \in Collector!Run : /\ new = [old EXCEPT !.pc = pc] /\ new.pc = pc
                                     /\ new.start = old.start
                                     /\ new.left = old.left /\ new.window = old.window
                                     /\ new.missed = old.missed
    <3> DEFINE goes == [old EXCEPT !.pc = pc]
    <3> HIDE DEF old
    <3>1. /\ goes \in Collector!Run /\ goes.pc = pc /\ goes.start = old.start
          /\ goes.left = old.left
          /\ goes.window = old.window /\ goes.missed = old.missed
      BY <2>1, <2>2 DEF Collector!Run
    <3> QED
      BY <3>1
  <2>4. v3'[r] = new /\ v3' = [v3 EXCEPT ![r] = new]
    BY <1>1, <2>2, <2>3
  <2>5. Collector!RunIsThorough(r)'
    BY <2>1, <2>2, <2>3, <2>4 DEF Collector!RunIsThorough
  <2>6. Collector!RunIsRecorded(r)'
    BY <2>1, <2>2, <2>3, <2>4 DEF Collector!RunIsRecorded
  <2> QED
    BY <1>1, <2>1, <2>2, <2>3, <2>4, <2>5, <2>6, RunKeeps
<1> QED
  BY <1>3, <1>4, <1>5, <1>6, <1>7, <1>8, <1>9 DEF Collector!Next

LEMMA RunsAreComplete ==
  ASSUME Collector!HealthInv
  PROVE  Collector!MetricsAreComplete
<1>1. /\ v2 \subseteq Collector!Event /\ v3 \in [Actor -> Collector!Run] /\ v7 \subseteq Actor
      /\ Collector!RowsAreRuns
  BY DEF Collector!HealthInv, Collector!StateOK
<1>2. Collector!TimelyRunsMissNothing
  <2> SUFFICES ASSUME NEW b \in DOMAIN v4, NEW later, later = v3[v4[b].run],
                      ~later.missed, NEW r \in v7, NEW e \in v2,
                      v3[r].start < later.start, later.start <= v3[r].start + 2,
                      v3[r].start < e.at, e.at < later.start
               PROVE  e \in v4[b].window
    BY DEF Collector!TimelyRunsMissNothing
  <2>1. PICK s \in v7 : s = v4[b].run /\ v4[b].window = v3[s].window
    BY <1>1 DEF Collector!RowsAreRuns
  <2>2. /\ Collector!RunIsThorough(s) /\ Collector!RunIsThorough(r)
        /\ Collector!RunIsRecorded(s) /\ Collector!RunIsRecorded(r)
        /\ v3[s] \in Collector!Run /\ v3[r] \in Collector!Run
    BY <1>1 DEF Collector!HealthInv
  <2>3. v3[s].pc \in {"snapshot", "audit", "done"} /\ v3[s].left = {} /\ 2 <= v3[s].start
    BY <2>2 DEF Collector!RunIsRecorded, Collector!RunIsThorough
  <2>4. Collector!StartLedger(v3[s].start) <= e.at
    <3>1. v3[s].start \in Nat /\ v3[r].start \in Nat /\ e.at \in Nat
      BY <1>1, <2>2 DEF Collector!Run, Collector!Event
    <3> QED
      BY <2>1, <2>3, <3>1 DEF Collector!StartLedger, Collector!LastHour
  <2> QED
    BY <2>1, <2>2, <2>3, <2>4 DEF Collector!RunIsThorough
<1>3. Collector!BreachHasItsRows
  <2> SUFFICES ASSUME NEW r \in v6, NEW b, b = Collector!Bucket(v3[r].start), v4[b].run = r
               PROVE  Collector!Failures(v4[b].window) # {}
    BY DEF Collector!BreachHasItsRows, Collector!HealthInv, Collector!RunIsRecorded,
      Collector!StateOK
  <2>1. Collector!RunIsRecorded(r)
    BY DEF Collector!HealthInv, Collector!StateOK
  <2>2. b \in DOMAIN v4 /\ Collector!Failures(v3[r].window) # {}
    BY <2>1 DEF Collector!RunIsRecorded
  <2> QED
    BY <1>1, <2>2 DEF Collector!RowsAreRuns
<1> QED
  BY <1>2, <1>3 DEF Collector!MetricsAreComplete

(* Timely runs of the collector miss no event, and a breach in the audit   *)
(* log has its metric row and its snapshot.                                *)
THEOREM MetricsStayComplete == MCSpec => []MetricsAreComplete
<1> DEFINE PartInv == part = "health" => Collector!HealthInv
<1>1. MCInit => PartInv
  BY ServiceStarts, HealthStarts
<1>2. PartInv /\ [MCNext]_all => PartInv'
  <2>1. Collector!HealthInv /\ UNCHANGED pool => Collector!HealthInv'
    BY DEF pool, Collector!HealthInv, Collector!StateOK, Collector!RunIsThorough,
      Collector!RunIsRecorded, Collector!RowsAreRuns
  <2> QED
    BY <2>1, ServiceGoesOn, HealthStep
<1>3. PartInv => MetricsAreComplete
  BY RunsAreComplete DEF MetricsAreComplete
<1> QED
  BY <1>1, <1>2, <1>3, PTL DEF MCSpec

-----------------------------------------------------------------------------
(* Reminders: the day is v1, open invoices v3, the configuration v5, the   *)
(* log v6, the runs v7, what was delivered v8, the faults v9 and whether   *)
(* runs overlapped v10.                                                    *)

LEMMA EntriesAreKeys ==
  /\ \A d \in Reminder!Decision, ch \in Reminder!Channels : Reminder!Entry(d,
     ch) \in Reminder!Keys
  /\ \A d, e \in Reminder!Decision, ch, by \in Reminder!Channels :
       Reminder!Entry(d, ch) = Reminder!Entry(e, by) => d = e /\ ch = by
  /\ \A k \in Reminder!Keys : \E d \in Reminder!Decision,
     ch \in Reminder!Channels : k = Reminder!Entry(d, ch)
<1>1. \A d \in Reminder!Decision, ch \in Reminder!Channels : Reminder!Entry(d,
      ch) \in Reminder!Keys
  BY DEF Reminder!Entry, Reminder!Decision, Reminder!Keys
<1>2. \A d, e \in Reminder!Decision, ch, by \in Reminder!Channels :
        Reminder!Entry(d, ch) = Reminder!Entry(e, by) => d = e /\ ch = by
  BY DEF Reminder!Entry, Reminder!Decision
<1>3. ASSUME NEW k \in Reminder!Keys
      PROVE  \E d \in Reminder!Decision, ch \in Reminder!Channels : k = Reminder!Entry(d, ch)
  <2> DEFINE d == <<k[1], k[2]>>
  <2>1. d \in Reminder!Decision /\ k[3] \in Reminder!Channels /\ k = <<k[1], k[2], k[3]>>
    BY DEF Reminder!Keys, Reminder!Decision
  <2>2. k = Reminder!Entry(d, k[3])
    BY <2>1 DEF Reminder!Entry
  <2> QED
    BY <2>1, <2>2
<1> QED
  BY <1>1, <1>2, <1>3

LEMMA IdleIsOK ==
  /\ Reminder!Idle \in Reminder!JobRecord /\ Reminder!Idle.pc = "idle"
  /\ Reminder!Idle.todo = {} /\ Reminder!Idle.decided = {} /\ Reminder!Idle.existing = {}
BY DEF Reminder!Idle, Reminder!JobRecord, Reminder!ConfigRecord, Reminder!Finished,
  Reminder!Outcomes

LEMMA RemindersStart == Reminder!Init => Reminder!RemindersInv
<1> SUFFICES ASSUME Reminder!Init PROVE Reminder!RemindersInv
  OBVIOUS
<1>1. /\ Reminder!Idle \in Reminder!JobRecord /\ Reminder!Idle.pc = "idle"
      /\ Reminder!Idle.todo = {} /\ Reminder!Idle.decided = {} /\ Reminder!Idle.existing = {}
  BY IdleIsOK
<1>2. /\ v6 \in [Reminder!Keys -> Reminder!Outcomes] /\ v8 \in [Reminder!Keys -> Nat]
      /\ \A k \in Reminder!Keys : v8[k] = 0
      /\ v7 \in [Actor -> Reminder!JobRecord] /\ \A j \in Actor : v7[j] = Reminder!Idle
      /\ v5 \in Reminder!ConfigRecord /\ v1 = 0 /\ v9 = 0 /\ v3 = {"i1"}
      /\ v10 = FALSE
  BY <1>1 DEF Reminder!Init, Reminder!Outcomes, Reminder!ConfigRecord
<1>3. Reminder!StateOK
  BY <1>1, <1>2 DEF Reminder!StateOK, Reminder!Handling
<1>4. \A j \in Actor : Reminder!RunIsThorough(v7[j]) /\ Reminder!RunIsCareful(v7[j])
  BY <1>1, <1>2 DEF Reminder!RunIsThorough, Reminder!RunIsCareful, Reminder!Ahead,
    Reminder!Handling, Reminder!Channels
<1>5. Reminder!RunsAreAlone
  <2>1. Reminder!Active = {}
    BY <1>1, <1>2 DEF Reminder!Active, Reminder!Finished
  <2>2. \A d \in Reminder!Decision, ch \in Reminder!Channels : v8[Reminder!Entry(d, ch)] = 0
    BY <1>2, EntriesAreKeys
  <2> QED
    BY <1>4, <2>1, <2>2 DEF Reminder!RunsAreAlone
<1> QED
  BY <1>3, <1>4, <1>5 DEF Reminder!RemindersInv

(* Rows are never taken back, so what a run has found stays found.         *)
LEMMA RowsStay ==
  ASSUME NEW r \in Reminder!JobRecord, r.pc \in Reminder!Handling => r.at \in Reminder!Decision,
         Reminder!RunIsThorough(r),
         \A k \in Reminder!Keys : v6[k] # "none" => v6'[k] # "none"
  PROVE  Reminder!RunIsThorough(r)'
<1>1. r.decided \subseteq Reminder!Decision /\ r.existing \subseteq Reminder!Keys
  BY DEF Reminder!JobRecord
<1>2. \A d \in Reminder!Decision, ch \in Reminder!Channels : Reminder!OnRecord(d, ch) =>
      Reminder!OnRecord(d, ch)'
  BY EntriesAreKeys DEF Reminder!OnRecord
<1> QED
  BY <1>1, <1>2 DEF Reminder!RunIsThorough, Reminder!Handling, Reminder!Channels

(* One run takes a step.                                                   *)
LEMMA RunMoves ==
  ASSUME Reminder!RemindersInv, NEW j \in Actor, NEW new \in Reminder!JobRecord,
         v7' = [v7 EXCEPT ![j] = new], new.pc \in Reminder!Handling =>
         new.at \in Reminder!Decision,
         UNCHANGED <<v1, v3, v5>>, v10' \in BOOLEAN,
         v6' \in [Reminder!Keys -> Reminder!Outcomes], v8' \in [Reminder!Keys -> Nat],
         v9' \in {v9, v9 + 1},
         v9 = 0 /\ v9' = 0 =>
           /\ \A k \in Reminder!Keys : v6[k] # "none" => v6'[k] # "none"
           /\ Reminder!RunIsThorough(new)',
         v9 = 0 /\ v9' = 0 /\ ~v10' =>
           /\ \A i \in Actor \ {j} : v7[i].pc \in Reminder!Finished
           /\ Reminder!RunIsCareful(new)'
           /\ \A d \in Reminder!Decision,
              ch \in Reminder!Channels : v8'[Reminder!Entry(d, ch)] > 0 =>
                /\ v8'[Reminder!Entry(d, ch)] = 1
                /\ Reminder!OnRecord(d, ch)' \/ Reminder!Unlogged(new, d, ch)
  PROVE  Reminder!RemindersInv'
<1>1. /\ v7 \in [Actor -> Reminder!JobRecord] /\ v9 \in Nat
      /\ \A i \in Actor : v7[i].pc \in Reminder!Handling => v7[i].at \in Reminder!Decision
      /\ v9 = 0 => \A i \in Actor : Reminder!RunIsThorough(v7[i])
  BY DEF Reminder!RemindersInv, Reminder!StateOK
<1>2. /\ v7' \in [Actor -> Reminder!JobRecord] /\ v7'[j] = new
      /\ \A i \in Actor \ {j} : v7'[i] = v7[i]
  BY <1>1
<1>3. Reminder!StateOK'
  BY <1>1, <1>2 DEF Reminder!RemindersInv, Reminder!StateOK
<1>4. v9' = 0 => v9 = 0
  BY <1>1
<1>5. ASSUME v9' = 0, NEW i \in Actor
      PROVE  Reminder!RunIsThorough(v7[i])'
  <2>1. CASE i = j
    BY <1>2, <1>4, <1>5, <2>1 DEF Reminder!RunIsThorough, Reminder!OnRecord
  <2>2. CASE i # j
    <3>1. PICK r \in Reminder!JobRecord : r = v7[i]
      BY <1>1
    <3>2. Reminder!RunIsThorough(r)'
      BY <1>1, <1>4, <1>5, <3>1, RowsStay
    <3> QED
      BY <1>2, <2>2, <3>1, <3>2 DEF Reminder!RunIsThorough, Reminder!OnRecord
  <2> QED
    BY <2>1, <2>2
<1>6. ASSUME v9' = 0, ~v10'
      PROVE  Reminder!RunsAreAlone'
  <2>1. \A i \in Actor \ {j} : v7'[i].pc \in Reminder!Finished
    BY <1>2, <1>4, <1>6
  <2>2. \A i, k \in Reminder!Active' : i = k
    BY <2>1 DEF Reminder!Active
  <2>3. ASSUME NEW i \in Actor
        PROVE  Reminder!RunIsCareful(v7[i])'
    <3>1. CASE i = j
      BY <1>2, <1>4, <1>6, <3>1 DEF Reminder!RunIsCareful, Reminder!OnRecord, Reminder!Ahead
    <3>2. CASE i # j
      BY <2>1, <3>2 DEF Reminder!RunIsCareful, Reminder!Ahead, Reminder!Finished,
        Reminder!Handling, Reminder!Channels
    <3> QED
      BY <3>1, <3>2
  <2>4. \A d \in Reminder!Decision, ch \in Reminder!Channels : Reminder!Unlogged(new, d, ch) =>
        Reminder!Unlogged(v7'[j], d, ch)
    BY <1>2
  <2> QED
    BY <1>4, <1>6, <2>2, <2>3, <2>4 DEF Reminder!RunsAreAlone, Reminder!Unlogged
<1> QED
  BY <1>3, <1>5, <1>6 DEF Reminder!RemindersInv

(* A step of a run that is alone, and sends and writes nothing.            *)
LEMMA RunMovesQuietly ==
  ASSUME Reminder!RemindersInv, NEW j \in Actor, NEW old \in Reminder!JobRecord, old = v7[j],
         NEW new \in Reminder!JobRecord, v7' = [v7 EXCEPT ![j] = new],
         new.pc \in Reminder!Handling => new.at \in Reminder!Decision,
         UNCHANGED <<v1, v3, v5, v6, v8>>,
         v10' \in BOOLEAN,
         \/ v9' = v9 + 1
         \/ /\ v9' = v9
            /\ v9 = 0 => Reminder!RunIsThorough(new)
            /\ old.pc \notin {"emailLog", "webhookLog"}
            /\ \/ v10' = v10 /\ old.pc \notin Reminder!Finished
               \/ v10' = (v10 \/ Reminder!Active # {})
            /\ v9 = 0 /\ Reminder!RunsAreAlone => Reminder!RunIsCareful(new)
  PROVE  Reminder!RemindersInv'
<1>1. /\ v6 \in [Reminder!Keys -> Reminder!Outcomes] /\ v8 \in [Reminder!Keys -> Nat]
      /\ v9 \in Nat
      /\ v10 \in BOOLEAN /\ (v9 = 0 /\ ~v10 => Reminder!RunsAreAlone)
  BY DEF Reminder!RemindersInv, Reminder!StateOK
<1>2. v9 = 0 /\ v9' = 0 =>
        /\ \A k \in Reminder!Keys : v6[k] # "none" => v6'[k] # "none"
        /\ Reminder!RunIsThorough(new)'
  BY <1>1 DEF Reminder!RunIsThorough, Reminder!OnRecord
<1>3. ASSUME v9 = 0, v9' = 0, ~v10'
      PROVE  /\ \A i \in Actor \ {j} : v7[i].pc \in Reminder!Finished
             /\ Reminder!RunIsCareful(new)'
             /\ \A d \in Reminder!Decision,
                ch \in Reminder!Channels : v8'[Reminder!Entry(d, ch)] > 0 =>
                  /\ v8'[Reminder!Entry(d, ch)] = 1
                  /\ Reminder!OnRecord(d, ch)' \/ Reminder!Unlogged(new, d, ch)
  <2>1. Reminder!RunsAreAlone /\ ~v10 /\ v9' # v9 + 1
    BY <1>1, <1>3
  <2>2. \A i \in Actor \ {j} : v7[i].pc \in Reminder!Finished
    BY <1>3, <2>1 DEF Reminder!RunsAreAlone, Reminder!Active
  <2>3. Reminder!RunIsCareful(new)'
    BY <1>3, <2>1 DEF Reminder!RunIsCareful, Reminder!OnRecord
  <2>4. ASSUME NEW d \in Reminder!Decision, NEW ch \in Reminder!Channels,
               v8'[Reminder!Entry(d, ch)] > 0
        PROVE  v8'[Reminder!Entry(d, ch)] = 1 /\ Reminder!OnRecord(d, ch)'
    <3>1. v8[Reminder!Entry(d, ch)] = 1
          /\ (Reminder!OnRecord(d, ch) \/ \E i \in Actor : Reminder!Unlogged(v7[i], d, ch))
      BY <2>1, <2>4 DEF Reminder!RunsAreAlone
    <3>2. \A i \in Actor : ~Reminder!Unlogged(v7[i], d, ch)
      BY <2>1, <2>2 DEF Reminder!Unlogged, Reminder!Finished
    <3> QED
      BY <3>1, <3>2 DEF Reminder!OnRecord
  <2> QED
    BY <2>2, <2>3, <2>4
<1> QED
  BY <1>1, <1>2, <1>3, RunMoves

LEMMA RunStartStep ==
  ASSUME Reminder!RemindersInv, NEW j \in Actor, Reminder!Start(j)
  PROVE  Reminder!RemindersInv'
<1> DEFINE new == [Reminder!Idle EXCEPT !.pc = "config", !.day = v1]
<1>1. PICK old \in Reminder!JobRecord : old = v7[j]
  BY DEF Reminder!RemindersInv, Reminder!StateOK
<1>2. /\ v7' = [v7 EXCEPT ![j] = new] /\ old.pc = "idle"
      /\ UNCHANGED <<v1, v3, v5, v6, v8, v9>>
      /\ v10' = (v10 \/ Reminder!Active # {})
  BY <1>1 DEF Reminder!Start, Reminder!Read, Reminder!NoFault
<1>3. /\ new \in Reminder!JobRecord /\ new.pc = "config" /\ new.todo = {} /\ new.decided = {}
      /\ new.existing = {}
  <2>1. PICK idle \in Reminder!JobRecord : idle = Reminder!Idle
    BY IdleIsOK
  <2>2. v1 \in Int
    BY DEF Reminder!RemindersInv, Reminder!StateOK
  <2>3. new = [idle EXCEPT !.pc = "config", !.day = v1]
    BY <2>1
  <2>4. /\ [idle EXCEPT !.pc = "config", !.day = v1] \in Reminder!JobRecord
        /\ [idle EXCEPT !.pc = "config", !.day = v1].pc = "config"
        /\ [idle EXCEPT !.pc = "config", !.day = v1].todo = idle.todo
        /\ [idle EXCEPT !.pc = "config", !.day = v1].decided = idle.decided
        /\ [idle EXCEPT !.pc = "config", !.day = v1].existing = idle.existing
    BY <2>2 DEF Reminder!JobRecord, Reminder!Reading
  <2> QED
    BY <2>1, <2>3, <2>4, IdleIsOK
<1> HIDE DEF new
<1>4. Reminder!RunIsThorough(new) /\ Reminder!RunIsCareful(new)
  BY <1>3 DEF Reminder!RunIsThorough, Reminder!RunIsCareful, Reminder!Ahead, Reminder!Handling,
    Reminder!Channels
<1>5. v10' \in BOOLEAN
  BY <1>2 DEF Reminder!RemindersInv, Reminder!StateOK
<1> QED
  BY <1>1, <1>2, <1>3, <1>4, <1>5, RunMovesQuietly DEF Reminder!Handling

(* Up to the decisions a run has nothing ahead.                            *)
LEMMA RunLoadStep ==
  ASSUME Reminder!RemindersInv, NEW j \in Actor,
         \/ Reminder!LoadConfig(j) \/ Reminder!LoadInvoices(j)
         \/ Reminder!LoadOptOuts(j) \/ Reminder!LoadExisting(j) \/ Reminder!Crash(j)
  PROVE  Reminder!RemindersInv'
<1>1. PICK old \in Reminder!JobRecord : old = v7[j]
  BY DEF Reminder!RemindersInv, Reminder!StateOK
<1>2. /\ v5 \in Reminder!ConfigRecord /\ v3 \subseteq {"i1"} /\ v10 \in BOOLEAN
      /\ (v9 = 0 => Reminder!RunIsThorough(old))
  BY <1>1 DEF Reminder!RemindersInv, Reminder!StateOK
<1>3. UNCHANGED <<v1, v3, v5, v6, v8, v10>>
  BY DEF Reminder!LoadConfig, Reminder!LoadInvoices, Reminder!LoadOptOuts, Reminder!LoadExisting,
    Reminder!Crash, Reminder!Read
<1>4. CASE Reminder!LoadConfig(j)
  <2>1. PICK c : /\ c \in {v5, [enabled |-> TRUE, stages |-> Reminder!Stages, webhook |-> FALSE]}
                 /\ \/ c = v5 /\ Reminder!NoFault
                    \/ c # v5 /\ Reminder!Fault
                 /\ v7' = [v7 EXCEPT ![j] = [old EXCEPT
                      !.pc = IF c.enabled THEN "invoices" ELSE "done", !.config = c]]
    BY <1>1, <1>4 DEF Reminder!LoadConfig
  <2> DEFINE new == [old EXCEPT !.pc = IF c.enabled THEN "invoices" ELSE "done", !.config = c]
  <2>2. c \in Reminder!ConfigRecord
    <3>1. [enabled |-> TRUE, stages |-> Reminder!Stages,
          webhook |-> FALSE] \in Reminder!ConfigRecord
      BY DEF Reminder!ConfigRecord
    <3> QED
      BY <1>2, <2>1, <3>1
  <2>3. /\ new \in Reminder!JobRecord /\ new.pc \in {"invoices", "done"}
        /\ new.todo = old.todo /\ new.decided = old.decided /\ new.existing = old.existing
    BY <2>2 DEF Reminder!JobRecord, Reminder!Reading, Reminder!Finished
  <2>4. old.pc = "config" /\ v7' = [v7 EXCEPT ![j] = new]
    BY <1>1, <1>4, <2>1 DEF Reminder!LoadConfig
  <2> HIDE DEF new
  <2>5. /\ v9 = 0 => Reminder!RunIsThorough(new)
        /\ Reminder!RunIsCareful(new) /\ new.pc \notin Reminder!Handling
    BY <1>2, <2>3, <2>4 DEF Reminder!RunIsThorough, Reminder!RunIsCareful, Reminder!Ahead,
      Reminder!Handling, Reminder!Channels
  <2> QED
    BY <1>1, <1>2, <1>3, <2>1, <2>3, <2>4, <2>5, RunMovesQuietly DEF Reminder!Fault,
      Reminder!NoFault, Reminder!Finished
<1>5. CASE Reminder!LoadInvoices(j)
  <2> DEFINE new == [old EXCEPT !.pc = "optOuts", !.found = v3]
             dead == [old EXCEPT !.pc = "failed"]
  <2>1. /\ old.pc = "invoices"
        /\ \/ v7' = [v7 EXCEPT ![j] = new] /\ v9' = v9
           \/ v7' = [v7 EXCEPT ![j] = dead] /\ v9' = v9 + 1
    BY <1>1, <1>5 DEF Reminder!LoadInvoices, Reminder!Fault, Reminder!NoFault
  <2>2. /\ new \in Reminder!JobRecord /\ new.pc = "optOuts"
        /\ new.todo = old.todo /\ new.decided = old.decided /\ new.existing = old.existing
        /\ dead \in Reminder!JobRecord /\ dead.pc = "failed"
    BY <1>2 DEF Reminder!JobRecord, Reminder!Reading, Reminder!Finished
  <2> HIDE DEF new, dead
  <2>3. /\ v9 = 0 => Reminder!RunIsThorough(new)
        /\ Reminder!RunIsCareful(new) /\ new.pc \notin Reminder!Handling
        /\ dead.pc \notin Reminder!Handling
    BY <1>2, <2>1, <2>2 DEF Reminder!RunIsThorough, Reminder!RunIsCareful, Reminder!Ahead,
      Reminder!Handling, Reminder!Channels
  <2> QED
    BY <1>1, <1>2, <1>3, <2>1, <2>2, <2>3, RunMovesQuietly DEF Reminder!Finished
<1>6. CASE Reminder!LoadOptOuts(j)
  <2>1. PICK out \in {v4, {}} :
          /\ \/ out = v4 /\ Reminder!NoFault
             \/ out # v4 /\ Reminder!Fault
          /\ v7' = [v7 EXCEPT
               ![j].pc = IF Reminder!Decisions(v7[j].found, out, v7[j].config, v7[j].day) = {}
                           THEN "done" ELSE "existing",
               ![j].todo = Reminder!Decisions(v7[j].found, out, v7[j].config, v7[j].day),
               ![j].decided = Reminder!Decisions(v7[j].found, out, v7[j].config, v7[j].day)]
    BY <1>6 DEF Reminder!LoadOptOuts
  <2>6. PICK ds \in SUBSET Reminder!Decision : ds = Reminder!Decisions(old.found, out, old.config,
                                               old.day)
    BY DEF Reminder!Decisions, Reminder!Decision, Reminder!JobRecord, Reminder!ConfigRecord
  <2> DEFINE new == [old EXCEPT
               !.pc = IF ds = {} THEN "done" ELSE "existing", !.todo = ds, !.decided = ds]
  <2>2. /\ new \in Reminder!JobRecord /\ new.pc = (IF ds = {} THEN "done" ELSE "existing")
        /\ new.todo = ds /\ new.decided = ds /\ new.existing = old.existing
    BY DEF Reminder!JobRecord, Reminder!Reading, Reminder!Finished
  <2>3. /\ old.pc = "optOuts" /\ v7' = [v7 EXCEPT ![j] = new]
        /\ v9' \in {v9, v9 + 1}
    <3>1. v7' = [v7 EXCEPT ![j].pc = IF ds = {} THEN "done" ELSE "existing",
                             ![j].todo = ds, ![j].decided = ds]
      BY <1>1, <2>1, <2>6
    <3>2. v7' = [v7 EXCEPT ![j] = new]
      BY <1>1, <3>1
    <3> QED
      BY <1>1, <1>6, <2>1, <3>2 DEF Reminder!LoadOptOuts, Reminder!Fault, Reminder!NoFault
  <2> HIDE DEF new
  <2>4. /\ v9 = 0 => Reminder!RunIsThorough(new)
        /\ Reminder!RunIsCareful(new) /\ new.pc \notin Reminder!Handling
    BY <1>2, <2>2, <2>3 DEF Reminder!RunIsThorough, Reminder!RunIsCareful, Reminder!Ahead,
      Reminder!Handling, Reminder!Channels
  <2> QED
    BY <1>1, <1>2, <1>3, <2>1, <2>2, <2>3, <2>4, RunMovesQuietly DEF Reminder!Finished
<1>7. CASE Reminder!LoadExisting(j)
  <2> DEFINE there == {k \in Reminder!Keys : v6[k] # "none"}
  <2>1. PICK rows \in {there, {}} :
          /\ \/ rows = there /\ v9' = v9
             \/ v9' = v9 + 1
          /\ v7' = [v7 EXCEPT ![j] = [old EXCEPT !.pc = "next", !.existing = rows]]
    BY <1>1, <1>7 DEF Reminder!LoadExisting, Reminder!Fault, Reminder!NoFault
  <2> DEFINE new == [old EXCEPT !.pc = "next", !.existing = rows]
  <2>2. /\ new \in Reminder!JobRecord /\ new.pc = "next" /\ new.existing = rows
        /\ new.todo = old.todo /\ new.decided = old.decided
    BY DEF Reminder!JobRecord
  <2>3. old.pc = "existing" /\ v7' = [v7 EXCEPT ![j] = new]
    BY <1>1, <1>7, <2>1 DEF Reminder!LoadExisting
  <2> HIDE DEF new
  <2>4. /\ v9 = 0 /\ v9' = v9 => Reminder!RunIsThorough(new)
        /\ new.pc \notin Reminder!Handling
    BY <1>2, <2>1, <2>2, <2>3 DEF Reminder!RunIsThorough, Reminder!Handling
  <2>5. rows = there => Reminder!RunIsCareful(new)
    BY <2>2, EntriesAreKeys DEF Reminder!RunIsCareful, Reminder!Ahead, Reminder!OnRecord,
      Reminder!Handling, Reminder!Channels
  <2>6. old.pc \notin {"emailLog", "webhookLog"} \cup Reminder!Finished
    BY <2>3 DEF Reminder!Finished
  <2>7. CASE v9' = v9 + 1
    BY <1>1, <1>2, <1>3, <2>2, <2>3, <2>4, <2>7, RunMovesQuietly
  <2>8. CASE rows = there /\ v9' = v9
    BY <1>1, <1>2, <1>3, <2>2, <2>3, <2>4, <2>5, <2>6, <2>8, RunMovesQuietly
  <2> QED
    BY <2>1, <2>7, <2>8
<1>8. CASE Reminder!Crash(j)
  <2> DEFINE dead == [old EXCEPT !.pc = "failed"]
  <2>1. v7' = [v7 EXCEPT ![j] = dead] /\ v9' = v9 + 1
    BY <1>1, <1>8 DEF Reminder!Crash, Reminder!Fault
  <2>2. dead \in Reminder!JobRecord /\ dead.pc = "failed"
    BY DEF Reminder!JobRecord, Reminder!Finished
  <2> HIDE DEF dead
  <2> QED
    BY <1>1, <1>2, <1>3, <2>1, <2>2, RunMovesQuietly DEF Reminder!Handling
<1> QED
  BY <1>4, <1>5, <1>6, <1>7, <1>8

(* Where Advance leaves a run that has dealt with channel ch of d.         *)
LEMMA RunAdvances ==
  ASSUME NEW r \in Reminder!JobRecord, NEW d \in Reminder!Decision, NEW ch \in Reminder!Channels
  PROVE  LET new == Reminder!Advance(r, d, ch)
             more == /\ ch = "email" /\ r.config.webhook
                     /\ Reminder!Entry(d, "webhook") \notin r.existing
         IN  /\ new \in Reminder!JobRecord /\ new.config = r.config /\ new.todo = r.todo
             /\ new.existing = r.existing /\ new.decided = r.decided
             /\ more => new.pc = "webhook" /\ new.at = d
             /\ ~more => new.pc = (IF r.todo = {} THEN "done" ELSE "next")
<1> DEFINE on == [r EXCEPT !.pc = "webhook", !.at = d]
           over == [r EXCEPT !.pc = IF r.todo = {} THEN "done" ELSE "next", !.at = << >>]
           more == /\ ch = "email" /\ r.config.webhook
                   /\ Reminder!Entry(d, "webhook") \notin r.existing
<1>1. /\ on \in Reminder!JobRecord /\ on.config = r.config /\ on.todo = r.todo
      /\ on.existing = r.existing /\ on.decided = r.decided /\ on.pc = "webhook" /\ on.at = d
  BY DEF Reminder!JobRecord, Reminder!Handling
<1>2. /\ over \in Reminder!JobRecord /\ over.config = r.config /\ over.todo = r.todo
      /\ over.existing = r.existing /\ over.decided = r.decided
      /\ over.pc = (IF r.todo = {} THEN "done" ELSE "next")
  BY DEF Reminder!JobRecord, Reminder!Finished
<1>3. Reminder!Advance(r, d, ch) = IF more THEN on ELSE over
  BY DEF Reminder!Advance, Reminder!Entry
<1> HIDE DEF on, over
<1> QED
  BY <1>1, <1>2, <1>3

LEMMA RunDecideStep ==
  ASSUME Reminder!RemindersInv, NEW j \in Actor, Reminder!NextDecision(j)
  PROVE  Reminder!RemindersInv'
<1>1. PICK old \in Reminder!JobRecord : old = v7[j]
  BY DEF Reminder!RemindersInv, Reminder!StateOK
<1>2. PICK d \in old.todo :
        LET r == [old EXCEPT !.todo = old.todo \ {d}]
        IN  v7' = [v7 EXCEPT ![j] =
              IF Reminder!Entry(d, "email") \in r.existing THEN Reminder!Advance(r, d, "email")
              ELSE [r EXCEPT !.pc = "email", !.at = d]]
  BY <1>1 DEF Reminder!NextDecision, Reminder!Entry
<1>3. PICK r \in Reminder!JobRecord : r = [old EXCEPT !.todo = old.todo \ {d}]
  BY DEF Reminder!JobRecord
<1>4. /\ r.todo = old.todo \ {d} /\ r.config = old.config /\ r.existing = old.existing
      /\ r.decided = old.decided /\ d \in Reminder!Decision
  BY <1>3 DEF Reminder!JobRecord
<1> DEFINE fresh == [r EXCEPT !.pc = "email", !.at = d]
           new == IF Reminder!Entry(d, "email") \in r.existing THEN Reminder!Advance(r, d,
           "email") ELSE fresh
           more == /\ r.config.webhook
                   /\ Reminder!Entry(d, "webhook") \notin r.existing
<1>5. /\ fresh \in Reminder!JobRecord /\ fresh.pc = "email" /\ fresh.at = d /\ fresh.todo = r.todo
      /\ fresh.config = r.config /\ fresh.existing = r.existing /\ fresh.decided = r.decided
  BY <1>4 DEF Reminder!JobRecord, Reminder!Handling
<1> HIDE DEF fresh
<1>6. /\ new \in Reminder!JobRecord /\ new.config = r.config /\ new.todo = r.todo
      /\ new.existing = r.existing /\ new.decided = r.decided
      /\ \/ new.pc = "email" /\ new.at = d /\ Reminder!Entry(d, "email") \notin r.existing
         \/ new.pc = "webhook" /\ new.at = d /\ more /\ Reminder!Entry(d, "email") \in r.existing
         \/ /\ new.pc = (IF r.todo = {} THEN "done" ELSE "next")
            /\ ~more /\ Reminder!Entry(d, "email") \in r.existing
  BY <1>4, <1>5, RunAdvances DEF Reminder!Channels
<1>7. /\ old.pc = "next" /\ v7' = [v7 EXCEPT ![j] = new] /\ v10' = v10
      /\ UNCHANGED <<v1, v3, v5, v6, v8, v9>>
  BY <1>1, <1>2, <1>3 DEF Reminder!NextDecision, Reminder!Read, Reminder!NoFault, fresh
<1> HIDE DEF new
<1>8. /\ v10 \in BOOLEAN
      /\ v9 = 0 => Reminder!RunIsThorough(old)
      /\ Reminder!RunsAreAlone => Reminder!RunIsCareful(old)
  BY <1>1 DEF Reminder!RemindersInv, Reminder!StateOK, Reminder!RunsAreAlone
<1>9. v9 = 0 => Reminder!RunIsThorough(new)
  <2> SUFFICES ASSUME v9 = 0 PROVE Reminder!RunIsThorough(new)
    OBVIOUS
  <2>1. \A e \in old.decided \ old.todo :
          Reminder!OnRecord(e, "email") /\ (old.config.webhook => Reminder!OnRecord(e, "webhook"))
    BY <1>7, <1>8 DEF Reminder!RunIsThorough, Reminder!Handling
  <2>2. \A k \in old.existing : v6[k] # "none"
    BY <1>8 DEF Reminder!RunIsThorough
  <2>3. Reminder!Entry(d, "email") \in r.existing => Reminder!OnRecord(d, "email")
    BY <1>4, <2>2 DEF Reminder!OnRecord
  <2>4. ~more => (r.config.webhook => Reminder!OnRecord(d, "webhook"))
    BY <1>4, <2>2 DEF Reminder!OnRecord
  <2> QED
    BY <1>4, <1>6, <2>1, <2>2, <2>3, <2>4 DEF Reminder!RunIsThorough, Reminder!Handling
<1>10. Reminder!RunsAreAlone => Reminder!RunIsCareful(new)
  <2> SUFFICES ASSUME Reminder!RunsAreAlone PROVE Reminder!RunIsCareful(new)
    OBVIOUS
  <2>1. \A e \in old.todo, ch \in Reminder!Channels : Reminder!OnRecord(e, ch) =>
        Reminder!Entry(e, ch) \in old.existing
    BY <1>7, <1>8 DEF Reminder!RunIsCareful, Reminder!Ahead, Reminder!JobRecord
  <2> QED
    BY <1>4, <1>6, <2>1 DEF Reminder!RunIsCareful, Reminder!Ahead, Reminder!Handling,
      Reminder!Channels
<1> QED
  BY <1>1, <1>4, <1>6, <1>7, <1>8, <1>9, <1>10, RunMovesQuietly DEF Reminder!Handling,
    Reminder!Finished

(* A message goes out: one copy when nothing fails, to a recipient who had *)
(* none, since no row says so and no other run is about to write one.      *)
LEMMA RunSendStep ==
  ASSUME Reminder!RemindersInv, NEW j \in Actor, Reminder!SendEmail(j) \/ Reminder!SendWebhook(j)
  PROVE  Reminder!RemindersInv'
<1>1. PICK old \in Reminder!JobRecord : old = v7[j]
  BY DEF Reminder!RemindersInv, Reminder!StateOK
<1>2. PICK ch \in Reminder!Channels, result \in {"sent", "failed", "skipped"}, copies \in Nat :
        /\ old.pc = ch
        /\ v9' \in {v9, v9 + 1} /\ (v9' = v9 => copies <= 1)
        /\ v8' = [v8 EXCEPT ![Reminder!Entry(old.at, ch)] = @ + copies]
        /\ v7' = [v7 EXCEPT ![j].pc = IF ch = "email" THEN "emailLog" ELSE "webhookLog",
                              ![j].result = result]
  <2>1. CASE Reminder!SendEmail(j)
    <3>1. PICK result \in {"sent", "failed", "skipped"}, copies \in 0..1 :
            /\ IF result = "failed" THEN Reminder!Fault ELSE Reminder!NoFault
            /\ v8' = [v8 EXCEPT ![Reminder!Entry(old.at, "email")] = @ + copies]
            /\ v7' = [v7 EXCEPT ![j].pc = "emailLog", ![j].result = result]
      BY <1>1, <2>1 DEF Reminder!SendEmail, Reminder!Entry
    <3>2. copies \in Nat /\ copies <= 1 /\ v9' \in {v9, v9 + 1}
      BY <3>1 DEF Reminder!Fault, Reminder!NoFault
    <3>3. old.pc = "email" /\ "email" \in Reminder!Channels
      BY <1>1, <2>1 DEF Reminder!SendEmail, Reminder!Channels
    <3> QED
      BY <3>1, <3>2, <3>3
  <2>2. CASE Reminder!SendWebhook(j)
    <3>1. PICK result \in {"sent", "failed"}, tries \in 1 .. 2,
               copies \in 0 .. 2 :
            /\ result = "failed" => tries = 2
            /\ copies <= tries
            /\ IF result = "failed" \/ tries > 1 THEN Reminder!Fault ELSE Reminder!NoFault
            /\ v8' = [v8 EXCEPT ![Reminder!Entry(old.at, "webhook")] = @ + copies]
            /\ v7' = [v7 EXCEPT ![j].pc = "webhookLog", ![j].result = result]
      BY <1>1, <2>2 DEF Reminder!SendWebhook, Reminder!Entry
    <3>2. /\ copies \in Nat /\ v9' \in {v9, v9 + 1}
          /\ (v9' = v9 => copies <= 1)
      BY <3>1 DEF Reminder!Fault, Reminder!NoFault, Reminder!RemindersInv, Reminder!StateOK
    <3>3. old.pc = "webhook" /\ "webhook" \in Reminder!Channels /\ "webhook" # "email"
      BY <1>1, <2>2 DEF Reminder!SendWebhook, Reminder!Channels
    <3> QED
      BY <3>1, <3>2, <3>3
  <2> QED
    BY <2>1, <2>2
<1> DEFINE after == IF ch = "email" THEN "emailLog" ELSE "webhookLog"
           new == [old EXCEPT !.pc = after, !.result = result]
           d == old.at
<1>3. /\ UNCHANGED <<v1, v3, v5, v6, v10>>
      /\ v7' = [v7 EXCEPT ![j] = new]
  BY <1>1, <1>2 DEF Reminder!SendEmail, Reminder!SendWebhook
<1>4. /\ new \in Reminder!JobRecord /\ new.pc = after /\ new.result = result /\ new.at = d
      /\ new.todo = old.todo /\ new.decided = old.decided /\ new.config = old.config
      /\ new.existing = old.existing
  BY DEF Reminder!JobRecord, Reminder!Handling, Reminder!Outcomes
<1> HIDE DEF new
<1>5. /\ d \in Reminder!Decision /\ v10 \in BOOLEAN /\ v9 \in Nat
      /\ v6 \in [Reminder!Keys -> Reminder!Outcomes] /\ v8 \in [Reminder!Keys -> Nat]
      /\ v9 = 0 => Reminder!RunIsThorough(old)
      /\ v9 = 0 /\ ~v10 => Reminder!RunsAreAlone /\ Reminder!RunIsCareful(old)
  BY <1>1, <1>2 DEF Reminder!RemindersInv, Reminder!StateOK, Reminder!RunsAreAlone,
    Reminder!Handling, Reminder!Channels
<1>6. /\ v8' \in [Reminder!Keys -> Nat]
      /\ \A e \in Reminder!Decision, by \in Reminder!Channels :
           v8'[Reminder!Entry(e, by)] =
             IF e = d /\ by = ch THEN v8[Reminder!Entry(e, by)] + copies
             ELSE v8[Reminder!Entry(e, by)]
  BY <1>2, <1>5, EntriesAreKeys
<1>7. v9 = 0 => Reminder!RunIsThorough(new)'
  BY <1>2, <1>3, <1>4, <1>5 DEF Reminder!RunIsThorough, Reminder!OnRecord, Reminder!Handling,
    Reminder!Channels
<1>8. ASSUME v9 = 0, v9' = 0, ~v10'
      PROVE  /\ \A i \in Actor \ {j} : v7[i].pc \in Reminder!Finished
             /\ Reminder!RunIsCareful(new)'
             /\ \A e \in Reminder!Decision,
                by \in Reminder!Channels : v8'[Reminder!Entry(e, by)] > 0 =>
                  /\ v8'[Reminder!Entry(e, by)] = 1
                  /\ Reminder!OnRecord(e, by)' \/ Reminder!Unlogged(new, e, by)
  <2>1. Reminder!RunsAreAlone /\ Reminder!RunIsCareful(old)
    BY <1>3, <1>5, <1>8
  <2>2. \A i \in Actor \ {j} : v7[i].pc \in Reminder!Finished
    BY <1>1, <1>2, <2>1 DEF Reminder!RunsAreAlone, Reminder!Active, Reminder!Finished,
      Reminder!Channels
  <2>3. ~Reminder!OnRecord(d, ch)
    BY <1>2, <1>5, <2>1 DEF Reminder!RunIsCareful, Reminder!Ahead, Reminder!Channels
  <2>4. Reminder!RunIsCareful(new)'
    BY <1>2, <1>3, <1>4, <2>1 DEF Reminder!RunIsCareful, Reminder!Ahead, Reminder!OnRecord,
      Reminder!Handling, Reminder!Channels
  <2>5. \A i \in Actor, e \in Reminder!Decision,
        by \in Reminder!Channels : ~Reminder!Unlogged(v7[i], e, by)
    BY <1>1, <1>2, <2>2 DEF Reminder!Unlogged, Reminder!Finished, Reminder!Channels
  <2>6. \A e \in Reminder!Decision, by \in Reminder!Channels : v8[Reminder!Entry(e, by)] > 0 =>
          v8[Reminder!Entry(e, by)] = 1 /\ Reminder!OnRecord(e, by)
    BY <2>1, <2>5 DEF Reminder!RunsAreAlone
  <2>7. v8[Reminder!Entry(d, ch)] = 0 /\ copies <= 1
    BY <1>2, <1>5, <1>8, <2>3, <2>6, EntriesAreKeys
  <2>8. ASSUME NEW e \in Reminder!Decision, NEW by \in Reminder!Channels,
               v8'[Reminder!Entry(e, by)] > 0
        PROVE  /\ v8'[Reminder!Entry(e, by)] = 1
               /\ Reminder!OnRecord(e, by)' \/ Reminder!Unlogged(new, e, by)
    <3>1. CASE e = d /\ by = ch
      <4>1. v8'[Reminder!Entry(e, by)] = 1
        BY <1>6, <2>7, <2>8, <3>1
      <4>2. Reminder!Unlogged(new, e, by)
        BY <1>4, <3>1 DEF Reminder!Unlogged
      <4> QED
        BY <4>1, <4>2
    <3>2. CASE ~(e = d /\ by = ch)
      BY <1>3, <1>6, <2>6, <2>8, <3>2 DEF Reminder!OnRecord
    <3> QED
      BY <3>1, <3>2
  <2> QED
    BY <2>2, <2>4, <2>8
<1> QED
  BY <1>2, <1>3, <1>4, <1>5, <1>6, <1>7, <1>8, RunMoves

(* The outcome is written, or the write fails.                             *)
LEMMA RunLogStep ==
  ASSUME Reminder!RemindersInv, NEW j \in Actor, Reminder!LogOutcome(j)
  PROVE  Reminder!RemindersInv'
<1>1. PICK old \in Reminder!JobRecord : old = v7[j]
  BY DEF Reminder!RemindersInv, Reminder!StateOK
<1>2. PICK ch \in Reminder!Channels : old.pc = (IF ch = "email" THEN "emailLog" ELSE "webhookLog")
  BY <1>1 DEF Reminder!LogOutcome, Reminder!Channels
<1>3. PICK r \in Reminder!JobRecord : r = [old EXCEPT !.result = "none"]
  BY DEF Reminder!JobRecord, Reminder!Outcomes
<1>4. /\ r.todo = old.todo /\ r.config = old.config /\ r.existing = old.existing
      /\ r.decided = old.decided
  BY <1>3 DEF Reminder!JobRecord
<1> DEFINE d == old.at
           new == Reminder!Advance(r, d, ch)
           more == /\ ch = "email" /\ r.config.webhook
                   /\ Reminder!Entry(d, "webhook") \notin r.existing
<1>5. /\ v7' = [v7 EXCEPT ![j] = new] /\ UNCHANGED <<v1, v3, v5, v8, v10>>
      /\ \/ v9' = v9 /\ v6' = [v6 EXCEPT ![Reminder!Entry(d, ch)] = old.result]
         \/ v9' = v9 + 1 /\ v6' = v6
  BY <1>1, <1>2, <1>3
    DEF Reminder!LogOutcome, Reminder!Logged, Reminder!Upserted, Reminder!Entry, Reminder!Fault,
    Reminder!NoFault, Reminder!Channels
<1>6. /\ d \in Reminder!Decision /\ v10 \in BOOLEAN /\ v9 \in Nat
      /\ v6 \in [Reminder!Keys -> Reminder!Outcomes] /\ v8 \in [Reminder!Keys -> Nat]
      /\ v9 = 0 => Reminder!RunIsThorough(old)
      /\ v9 = 0 /\ ~v10 => Reminder!RunsAreAlone /\ Reminder!RunIsCareful(old)
      /\ old.result \in Reminder!Outcomes
  BY <1>1, <1>2 DEF Reminder!RemindersInv, Reminder!StateOK, Reminder!RunsAreAlone,
    Reminder!Handling, Reminder!Channels, Reminder!JobRecord
<1>7. /\ new \in Reminder!JobRecord /\ new.config = r.config /\ new.todo = r.todo
      /\ new.existing = r.existing /\ new.decided = r.decided
      /\ more => new.pc = "webhook" /\ new.at = d
      /\ ~more => new.pc = (IF r.todo = {} THEN "done" ELSE "next")
  BY <1>6, RunAdvances
<1> HIDE DEF new
<1>8. v6' \in [Reminder!Keys -> Reminder!Outcomes] /\ v9' \in {v9, v9 + 1}
  BY <1>5, <1>6, EntriesAreKeys
<1>9. new.pc \in Reminder!Handling => new.at \in Reminder!Decision
  BY <1>6, <1>7 DEF Reminder!Handling
<1>10. ASSUME v9 = 0, v9' = 0
       PROVE  /\ \A e \in Reminder!Decision, by \in Reminder!Channels :
                   Reminder!OnRecord(e, by)' <=> Reminder!OnRecord(e, by) \/ (e = d /\ by = ch)
              /\ \A k \in Reminder!Keys : v6[k] # "none" => v6'[k] # "none"
              /\ Reminder!RunIsThorough(old)
  <2>1. Reminder!RunIsThorough(old) /\ old.result # "none"
    BY <1>2, <1>6, <1>10 DEF Reminder!RunIsThorough
  <2>2. v6' = [v6 EXCEPT ![Reminder!Entry(d, ch)] = old.result]
    BY <1>5, <1>10
  <2>3. Reminder!Entry(d, ch) \in Reminder!Keys
    BY <1>6, EntriesAreKeys
  <2>4. \A k \in Reminder!Keys : v6'[k] = IF k = Reminder!Entry(d, ch) THEN old.result ELSE v6[k]
    BY <1>6, <2>2, <2>3
  <2>5. \A e \in Reminder!Decision, by \in Reminder!Channels :
          v6'[Reminder!Entry(e, by)] =
            IF e = d /\ by = ch THEN old.result ELSE v6[Reminder!Entry(e, by)]
    BY <1>6, <2>4, EntriesAreKeys
  <2> QED
    BY <2>1, <2>4, <2>5 DEF Reminder!OnRecord
<1>11. ASSUME v9 = 0, v9' = 0
       PROVE  Reminder!RunIsThorough(new)'
  <2>1. ASSUME NEW e \in old.decided \ old.todo
        PROVE  \/ e = d
               \/ Reminder!OnRecord(e, "email")' /\ (old.config.webhook =>
                  Reminder!OnRecord(e, "webhook")')
    <3>1. e \in Reminder!Decision
      BY DEF Reminder!JobRecord
    <3>2. \/ e = d
          \/ Reminder!OnRecord(e, "email") /\ (old.config.webhook =>
             Reminder!OnRecord(e, "webhook"))
      BY <1>2, <1>10, <1>11 DEF Reminder!RunIsThorough, Reminder!Handling, Reminder!Channels
    <3> QED
      BY <1>10, <1>11, <3>1, <3>2 DEF Reminder!Channels
  <2>2. Reminder!OnRecord(d, "email")'
    <3>1. ch = "webhook" => Reminder!OnRecord(d, "email")
      BY <1>2, <1>10, <1>11 DEF Reminder!RunIsThorough, Reminder!Channels
    <3> QED
      BY <1>6, <1>10, <1>11, <3>1 DEF Reminder!Channels
  <2>3. \A k \in old.existing : v6'[k] # "none"
    BY <1>10, <1>11 DEF Reminder!RunIsThorough, Reminder!JobRecord
  <2>4. ~more => (old.config.webhook => Reminder!OnRecord(d, "webhook")')
    <3>1. CASE ch = "webhook"
      BY <1>6, <1>10, <1>11, <3>1 DEF Reminder!Channels
    <3>2. CASE ch = "email" /\ Reminder!Entry(d, "webhook") \in old.existing
      BY <2>3, <3>2 DEF Reminder!OnRecord
    <3> QED
      BY <1>4, <3>1, <3>2 DEF Reminder!Channels
  <2> QED
    BY <1>4, <1>7, <2>1, <2>2, <2>3, <2>4 DEF Reminder!RunIsThorough, Reminder!Handling
<1>12. ASSUME v9 = 0, v9' = 0, ~v10'
       PROVE  /\ \A i \in Actor \ {j} : v7[i].pc \in Reminder!Finished
              /\ Reminder!RunIsCareful(new)'
              /\ \A e \in Reminder!Decision,
                 by \in Reminder!Channels : v8'[Reminder!Entry(e, by)] > 0 =>
                   /\ v8'[Reminder!Entry(e, by)] = 1
                   /\ Reminder!OnRecord(e, by)' \/ Reminder!Unlogged(new, e, by)
  <2>1. Reminder!RunsAreAlone /\ Reminder!RunIsCareful(old)
    BY <1>5, <1>6, <1>12
  <2>2. \A i \in Actor \ {j} : v7[i].pc \in Reminder!Finished
    BY <1>1, <1>2, <2>1 DEF Reminder!RunsAreAlone, Reminder!Active, Reminder!Finished,
      Reminder!Channels
  <2>3. d \notin old.todo
    BY <1>2, <2>1 DEF Reminder!RunIsCareful, Reminder!Handling, Reminder!Channels
  <2>4. ASSUME NEW e \in Reminder!Decision, NEW by \in Reminder!Channels,
               Reminder!Ahead(new, e, by), Reminder!OnRecord(e, by)'
        PROVE  Reminder!Entry(e, by) \in new.existing
    <3>1. Reminder!Ahead(old, e, by) /\ ~(e = d /\ by = ch)
      BY <1>2, <1>4, <1>7, <2>3, <2>4 DEF Reminder!Ahead, Reminder!Handling, Reminder!Channels
    <3>2. Reminder!OnRecord(e, by)
      BY <1>10, <1>12, <2>4, <3>1
    <3> QED
      BY <1>4, <1>7, <2>1, <3>1, <3>2 DEF Reminder!RunIsCareful
  <2>5. Reminder!RunIsCareful(new)'
    BY <1>4, <1>7, <2>3, <2>4 DEF Reminder!RunIsCareful, Reminder!OnRecord, Reminder!Handling,
      Reminder!Channels
  <2>6. ASSUME NEW e \in Reminder!Decision, NEW by \in Reminder!Channels,
               v8'[Reminder!Entry(e, by)] > 0
        PROVE  v8'[Reminder!Entry(e, by)] = 1 /\ Reminder!OnRecord(e, by)'
    <3>1. /\ v8[Reminder!Entry(e, by)] = 1
          /\ Reminder!OnRecord(e, by) \/ \E i \in Actor : Reminder!Unlogged(v7[i], e, by)
      BY <1>5, <2>1, <2>6 DEF Reminder!RunsAreAlone
    <3>2. \A i \in Actor : Reminder!Unlogged(v7[i], e, by) => e = d /\ by = ch
      BY <1>1, <1>2, <2>2 DEF Reminder!Unlogged, Reminder!Finished, Reminder!Channels
    <3> QED
      BY <1>5, <1>10, <1>12, <3>1, <3>2
  <2> QED
    BY <2>2, <2>5, <2>6
<1> QED
  BY <1>5, <1>6, <1>7, <1>8, <1>9, <1>10, <1>11, <1>12, RunMoves

LEMMA RemindersStep ==
  ASSUME Reminder!RemindersInv, Reminder!Next
  PROVE  Reminder!RemindersInv'
<1>1. ASSUME NEW j \in Actor,
             \/ Reminder!Start(j) \/ Reminder!NextDecision(j)
             \/ Reminder!LoadConfig(j) \/ Reminder!LoadInvoices(j)
             \/ Reminder!LoadOptOuts(j) \/ Reminder!LoadExisting(j)
             \/ Reminder!SendEmail(j) \/ Reminder!SendWebhook(j)
             \/ Reminder!LogOutcome(j) \/ Reminder!Crash(j)
      PROVE  Reminder!RemindersInv'
  BY <1>1, RunStartStep, RunLoadStep, RunDecideStep, RunSendStep, RunLogStep
<1>2. ASSUME UNCHANGED <<v6, v7, v8, v9, v10>>,
             v1' \in Nat, v3' \subseteq {"i1"}, v5' \in Reminder!ConfigRecord
      PROVE  Reminder!RemindersInv'
  <2>1. Reminder!StateOK'
    BY <1>2 DEF Reminder!RemindersInv, Reminder!StateOK
  <2>2. \A r : Reminder!RunIsThorough(r)' <=> Reminder!RunIsThorough(r)
    BY <1>2 DEF Reminder!RunIsThorough, Reminder!OnRecord
  <2>3. Reminder!RunsAreAlone' <=> Reminder!RunsAreAlone
    BY <1>2 DEF Reminder!RunsAreAlone, Reminder!RunIsCareful, Reminder!Ahead, Reminder!Unlogged,
      Reminder!OnRecord, Reminder!Active
  <2> QED
    BY <1>2, <2>1, <2>2, <2>3 DEF Reminder!RemindersInv
<1>3. ASSUME NEW i \in {"i1"}, Reminder!SetOptOut(i) \/ Reminder!Settle(i)
      PROVE  Reminder!RemindersInv'
  BY <1>2, <1>3 DEF Reminder!SetOptOut, Reminder!Settle, Reminder!RemindersInv, Reminder!StateOK
<1>4. ASSUME NEW on \in BOOLEAN, NEW hook \in BOOLEAN, Reminder!UpdateConfig(on, hook)
      PROVE  Reminder!RemindersInv'
  <2>1. PICK c \in Reminder!ConfigRecord : c = v5
    BY DEF Reminder!RemindersInv, Reminder!StateOK
  <2>2. [c EXCEPT !.enabled = on, !.webhook = hook] \in Reminder!ConfigRecord
    BY DEF Reminder!ConfigRecord
  <2> QED
    BY <1>2, <1>4, <2>1, <2>2 DEF Reminder!UpdateConfig, Reminder!RemindersInv, Reminder!StateOK
<1>5. CASE Reminder!Tomorrow
  BY <1>2, <1>5 DEF Reminder!Tomorrow, Reminder!RemindersInv, Reminder!StateOK
<1> QED
  BY <1>1, <1>3, <1>4, <1>5 DEF Reminder!Next

LEMMA RemindersAreSafe == Reminder!RemindersInv => Reminder!RemindersAreKept
<1> SUFFICES ASSUME Reminder!RemindersInv, v9 = 0 PROVE Reminder!RemindersAreKept
  BY DEF Reminder!RemindersAreKept, Reminder!CleanRunsSendOnce, Reminder!DoneMeansLogged
<1>1. ASSUME ~v10, NEW k \in Reminder!Keys PROVE v8[k] <= 1
  <2>1. PICK d \in Reminder!Decision, ch \in Reminder!Channels : k = Reminder!Entry(d, ch)
    BY EntriesAreKeys
  <2>2. v8[k] \in Nat /\ (v8[k] > 0 => v8[k] = 1)
    BY <1>1, <2>1 DEF Reminder!RemindersInv, Reminder!StateOK, Reminder!RunsAreAlone
  <2> QED
    BY <2>2
<1>2. ASSUME NEW j \in Actor, v7[j].pc = "done", NEW d \in v7[j].decided
      PROVE  Reminder!OnRecord(d, "email") /\ (v7[j].config.webhook =>
             Reminder!OnRecord(d, "webhook"))
  BY <1>2 DEF Reminder!RemindersInv, Reminder!RunIsThorough, Reminder!Handling
<1> QED
  BY <1>1, <1>2 DEF Reminder!RemindersAreKept, Reminder!CleanRunsSendOnce,
    Reminder!DoneMeansLogged, Reminder!OnRecord, Reminder!Entry

(* A reminder that is due is sent once, while runs do not overlap and no   *)
(* call fails, and a run that ended left a row for each of its decisions.  *)
THEOREM RemindersStayKept == MCSpec => []RemindersAreKept
<1> DEFINE PartInv == part = "reminders" => Reminder!RemindersInv
<1>1. MCInit => PartInv
  BY ServiceStarts, RemindersStart
<1>2. PartInv /\ [MCNext]_all => PartInv'
  <2>1. Reminder!RemindersInv /\ UNCHANGED pool => Reminder!RemindersInv'
    <3> SUFFICES ASSUME Reminder!RemindersInv, UNCHANGED pool
                 PROVE  Reminder!RemindersInv'
      OBVIOUS
    <3>1. Reminder!StateOK'
      BY DEF pool, Reminder!RemindersInv, Reminder!StateOK
    <3>2. \A r : Reminder!RunIsThorough(r)' <=> Reminder!RunIsThorough(r)
      BY DEF pool, Reminder!RunIsThorough, Reminder!OnRecord
    <3>3. Reminder!RunsAreAlone' <=> Reminder!RunsAreAlone
      BY DEF pool, Reminder!RunsAreAlone, Reminder!RunIsCareful, Reminder!Ahead,
        Reminder!Unlogged, Reminder!OnRecord, Reminder!Active
    <3> QED
      BY <3>1, <3>2, <3>3 DEF pool, Reminder!RemindersInv
  <2> QED
    BY <2>1, ServiceGoesOn, RemindersStep
<1>3. PartInv => RemindersAreKept
  BY RemindersAreSafe DEF RemindersAreKept
<1> QED
  BY <1>1, <1>2, <1>3, PTL DEF MCSpec

-----------------------------------------------------------------------------
(* Upgrades: the version deployed is v1, the one expected v2, the one      *)
(* detected v4, the plan v6.                                               *)

(* A verdict goes the way of the order of versions, and what it calls safe *)
(* stays within the major version.                                         *)
VerdictFits(a, b, status) ==
  /\ status \in {"compatible", "minor-update", "major-update", "downgrade"}
  /\ status \in {"minor-update", "major-update"} => Version!Newer(a, b)
  /\ status = "downgrade" => Version!Newer(b, a)
  /\ status \in {"compatible", "minor-update"} => ~Version!IsMajorUpgrade(a, b)

Quads == Nat \X Nat \X Nat \X {0, 1}
Detectable == SomeVersions \cup {Version!Unknown}

UpgradeInv ==
  /\ v1 \in SomeVersions /\ v2 \in SomeVersions /\ v4.version \in Detectable
  /\ \/ v6 = << >>
     \/ \E a \in Detectable, b \in SomeVersions : v6 = <<Version!PlanMigration(a, b)>>

LEMMA VersionsAreQuads == SomeVersions \subseteq Quads /\ Detectable \subseteq Quads
<1>1. \A a, b, c \in Nat, d \in {0, 1} : V(a, b, c, d) \in Quads
  BY DEF V, Quads
<1>2. SomeVersions \subseteq Quads
  BY <1>1 DEF SomeVersions
<1>3. Version!Unknown \in Quads
  BY DEF Version!Unknown, Quads
<1> QED
  BY <1>2, <1>3 DEF Detectable

(* The first component that differs decides.                               *)
LEMMA NewerByFirst ==
  ASSUME NEW a \in Quads, NEW b \in Quads
  PROVE  /\ a[1] < b[1] => Version!Newer(a, b)
         /\ a[1] = b[1] /\ a[2] < b[2] => Version!Newer(a, b)
<1>1. /\ Version!Weight(a)[1] = a[1] /\ Version!Weight(a)[2] = a[2]
      /\ Version!Weight(b)[1] = b[1] /\ Version!Weight(b)[2] = b[2]
  BY DEF Version!Weight
<1>2. ASSUME a[1] < b[1] PROVE Version!Newer(a, b)
  <2>1. \A j \in 1..(1 - 1) : FALSE
    OBVIOUS
  <2>2. \E i \in 1..4 : /\ Version!Weight(a)[i] < Version!Weight(b)[i]
                        /\ \A j \in 1..(i - 1) : Version!Weight(a)[j] = Version!Weight(b)[j]
    <3> WITNESS 1 \in 1..4
    <3> QED
      BY <1>1, <1>2, <2>1
  <2> QED
    BY <2>2 DEF Version!Newer
<1>3. ASSUME a[1] = b[1], a[2] < b[2] PROVE Version!Newer(a, b)
  <2>1. \A j \in 1..(2 - 1) : j = 1
    OBVIOUS
  <2>2. \E i \in 1..4 : /\ Version!Weight(a)[i] < Version!Weight(b)[i]
                        /\ \A j \in 1..(i - 1) : Version!Weight(a)[j] = Version!Weight(b)[j]
    <3> WITNESS 2 \in 1..4
    <3> QED
      BY <1>1, <1>3, <2>1
  <2> QED
    BY <2>2 DEF Version!Newer
<1> QED
  BY <1>2, <1>3

LEMMA TableFits == \A e \in CompatibilityMatrix : VerdictFits(e.from, e.to, e.status)
<1>1. /\ V(0, 1, 0, 0) \in Quads /\ V(0, 2, 0, 0) \in Quads /\ V(0, 3, 0, 0) \in Quads
      /\ V(1, 0, 0, 0) \in Quads
      /\ V(0, 1, 0, 0)[1] = 0 /\ V(0, 2, 0, 0)[1] = 0 /\ V(0, 3, 0, 0)[1] = 0
      /\ V(1, 0, 0, 0)[1] = 1
      /\ V(0, 1, 0, 0)[2] = 1 /\ V(0, 2, 0, 0)[2] = 2 /\ V(0, 3, 0, 0)[2] = 3
  BY DEF V, Quads
<1>2. /\ Version!Newer(V(0, 1, 0, 0), V(0, 2, 0, 0))
      /\ Version!Newer(V(0, 2, 0, 0), V(0, 3, 0, 0))
      /\ Version!Newer(V(0, 3, 0, 0), V(1, 0, 0, 0))
  BY <1>1, NewerByFirst
<1> QED
  BY <1>1, <1>2 DEF CompatibilityMatrix, Table, VerdictFits, Version!IsMajorUpgrade

LEMMA HeuristicFits ==
  ASSUME NEW a \in Quads, NEW b \in Quads
  PROVE  VerdictFits(a, b, Version!Heuristic(a, b))
<1>1. a[1] \in Nat /\ a[2] \in Nat /\ b[1] \in Nat /\ b[2] \in Nat
  BY DEF Quads
<1>2. CASE a[1] > b[1] \/ (a[1] = b[1] /\ a[2] > b[2])
  <2>1. Version!Heuristic(a, b) = "downgrade"
    BY <1>1, <1>2 DEF Version!Heuristic, Version!Downgrades, Version!Older
  <2>2. Version!Newer(b, a)
    BY <1>1, <1>2, NewerByFirst
  <2> QED
    BY <2>1, <2>2 DEF VerdictFits
<1>3. CASE a[1] = b[1] /\ a[2] = b[2]
  BY <1>1, <1>3 DEF Version!Heuristic, Version!Downgrades, Version!Older, VerdictFits,
    Version!IsMajorUpgrade
<1>4. CASE a[1] = b[1] /\ a[2] < b[2]
  <2>1. Version!Heuristic(a, b) = "minor-update"
    BY <1>1, <1>4 DEF Version!Heuristic, Version!Downgrades, Version!Older
  <2> QED
    BY <1>4, <2>1, NewerByFirst DEF VerdictFits, Version!IsMajorUpgrade
<1>5. CASE a[1] < b[1]
  <2>1. Version!Heuristic(a, b) = "major-update"
    BY <1>1, <1>5 DEF Version!Heuristic, Version!Downgrades, Version!Older
  <2> QED
    BY <1>5, <2>1, NewerByFirst DEF VerdictFits
<1> QED
  BY <1>1, <1>2, <1>3, <1>4, <1>5

LEMMA StatusFits ==
  ASSUME NEW a \in Quads, NEW b \in Quads
  PROVE  VerdictFits(a, b, Version!Status(a, b))
<1> DEFINE known == {e \in CompatibilityMatrix : e.from = a /\ e.to = b}
<1>1. CASE known = {}
  BY <1>1, HeuristicFits DEF Version!Status
<1>2. CASE known # {}
  <2>1. PICK e \in known : e = CHOOSE x \in known : TRUE
    BY <1>2
  <2>2. Version!Status(a, b) = e.status
    BY <1>2, <2>1 DEF Version!Status
  <2> QED
    BY <2>1, <2>2, TableFits
<1> QED
  BY <1>1, <1>2

(* A plan deploys once if it is no downgrade's, and never if it is.        *)
LEMMA PlanFits ==
  ASSUME NEW a \in Quads, NEW b \in Quads, NEW p, p = Version!PlanMigration(a, b)
  PROVE  LET status == Version!Status(p.from, p.to)
             deploys == {i \in DOMAIN p.steps : p.steps[i] = "deploy"}
         IN  /\ status \in {"minor-update", "major-update"} => Version!Newer(p.from, p.to)
             /\ status = "downgrade" => Version!Newer(p.to, p.from) /\ deploys = {}
             /\ status # "downgrade" => \E i \in DOMAIN p.steps : deploys = {i}
             /\ Version!IsSafe(p.from, p.to) => ~Version!IsMajorUpgrade(p.from, p.to)
<1> DEFINE status == Version!Status(a, b)
           steps == Version!Steps(status)
           deploys == {i \in DOMAIN steps : steps[i] = "deploy"}
<1>1. p.from = a /\ p.to = b /\ p.steps = steps
  BY DEF Version!PlanMigration
<1>2. VerdictFits(a, b, status)
  BY StatusFits
<1>3. status = "downgrade" => deploys = {}
  BY DEF Version!Steps
<1>4. status = "compatible" => deploys = {1} /\ 1 \in DOMAIN steps
  BY DEF Version!Steps
<1>5. status = "minor-update" => deploys = {2} /\ 2 \in DOMAIN steps
  BY DEF Version!Steps
<1>6. status = "major-update" => deploys = {3} /\ 3 \in DOMAIN steps
  <2> SUFFICES ASSUME status = "major-update"
               PROVE  deploys = {3} /\ 3 \in DOMAIN steps
    OBVIOUS
  <2> HIDE DEF status
  <2>1. steps = <<"snapshot", "migrate", "deploy", "verify", "smoke-test">>
    BY DEF Version!Steps
  <2> HIDE DEF steps
  <2>2. /\ DOMAIN steps = 1..5 /\ steps[3] = "deploy"
        /\ steps[1] # "deploy" /\ steps[2] # "deploy"
        /\ steps[4] # "deploy" /\ steps[5] # "deploy"
    BY <2>1
  <2>3. \A i \in 1..5 : i = 3 \/ steps[i] # "deploy"
    BY <2>2
  <2> QED
    BY <2>2, <2>3
<1>7. status # "downgrade" => \E i \in DOMAIN steps : deploys = {i}
  BY <1>2, <1>4, <1>5, <1>6 DEF VerdictFits
<1> HIDE DEF steps
<1> QED
  BY <1>1, <1>2, <1>3, <1>7 DEF VerdictFits, Version!IsSafe

LEMMA UpgradeStarts == Version!Init => UpgradeInv
BY DEF Version!Init, Version!None, UpgradeInv, Detectable

LEMMA UpgradeStep ==
  ASSUME UpgradeInv, Version!Next
  PROVE  UpgradeInv'
<1>1. CASE Version!Detect
  <2>1. v4' \in {[version |-> v1, ok |-> TRUE], Version!None}
        /\ UNCHANGED <<v1, v2, v6>>
    BY <1>1 DEF Version!Detect, Version!Detection
  <2>2. v4'.version \in Detectable
    BY <2>1 DEF UpgradeInv, Version!None, Detectable
  <2> QED
    BY <2>1, <2>2 DEF UpgradeInv
<1>2. CASE Version!Advise
  BY <1>2 DEF Version!Advise, UpgradeInv
<1>3. CASE Version!Deploy
  <2>1. PICK a \in Detectable, b \in SomeVersions : v6 = <<Version!PlanMigration(a, b)>>
    BY <1>3 DEF Version!Deploy, UpgradeInv
  <2>2. v6[1].to = b
    BY <2>1 DEF Version!PlanMigration
  <2> QED
    BY <1>3, <2>2 DEF Version!Deploy, UpgradeInv
<1> QED
  BY <1>1, <1>2, <1>3 DEF Version!Next

LEMMA PlansGoForward == UpgradeInv => Version!UpdatesGoForward
<1> SUFFICES ASSUME UpgradeInv, NEW p \in Version!ToSet(v6)
             PROVE  LET status == Version!Status(p.from, p.to)
                        deploys == {i \in DOMAIN p.steps : p.steps[i] = "deploy"}
                    IN  /\ status \in {"minor-update", "major-update"} => Version!Newer(p.from, p.to)
                        /\ status = "downgrade" => Version!Newer(p.to, p.from) /\ deploys = {}
                        /\ status # "downgrade" => \E i \in DOMAIN p.steps : deploys = {i}
                        /\ Version!IsSafe(p.from, p.to) => ~Version!IsMajorUpgrade(p.from, p.to)
  BY DEF Version!UpdatesGoForward
<1>1. PICK i \in DOMAIN v6 : p = v6[i]
  BY DEF Version!ToSet
<1>2. PICK a \in Detectable, b \in SomeVersions : v6 = <<Version!PlanMigration(a, b)>>
  BY <1>1 DEF UpgradeInv
<1>3. p = Version!PlanMigration(a, b)
  BY <1>1, <1>2
<1> QED
  BY <1>2, <1>3, PlanFits, VersionsAreQuads

(* Whatever the RPC and the contract answer, a plan is made from a version *)
(* to the expected one, so what its verdict says is about those two.       *)
THEOREM UpgradesGoForward == MCSpec => []UpdatesGoForward
<1> DEFINE PartInv == part = "versions" => UpgradeInv
<1>1. MCInit => PartInv
  BY ServiceStarts, UpgradeStarts
<1>2. PartInv /\ [MCNext]_all => PartInv'
  <2>1. UpgradeInv /\ UNCHANGED pool => UpgradeInv'
    BY DEF pool, UpgradeInv
  <2> QED
    BY <2>1, ServiceGoesOn, UpgradeStep
<1>3. PartInv => UpdatesGoForward
  BY PlansGoForward DEF UpdatesGoForward
<1> QED
  BY <1>1, <1>2, <1>3, PTL DEF MCSpec

-----------------------------------------------------------------------------
(* Milestones: the states of the escrow are v1, the read model is v2, the  *)
(* pages v3, their handlers v4, the reads v5, whether funds left v6.       *)

LEMMA DeliveryStarts == Escrow!Init => Escrow!DeliveryInv
<1> SUFFICES ASSUME Escrow!Init PROVE Escrow!DeliveryInv
  OBVIOUS
<1>1. /\ Escrow!Awaiting \in Escrow!State /\ ~Escrow!Awaiting.approved
      /\ ~Escrow!Awaiting.released
      /\ Escrow!Idle \in Escrow!Flight /\ Escrow!Idle.pc = "idle"
  BY DEF Escrow!Awaiting, Escrow!State, Escrow!Idle, Escrow!Flight
<1>2. /\ v1 = <<Escrow!Awaiting>> /\ v1 \in Seq(Escrow!State)
      /\ DOMAIN v1 = 1..1 /\ v1[1] = Escrow!Awaiting
  BY <1>1 DEF Escrow!Init
<1>3. /\ v3 \in [Escrow!Pages -> Escrow!Page]
      /\ \A p \in Escrow!Pages : Escrow!Shown(p) = Escrow!Awaiting
  <2> DEFINE fresh == [status |-> Escrow!Awaiting, known |-> "undefined", busy |-> FALSE,
      toast |-> FALSE]
  <2>1. fresh \in Escrow!Page /\ fresh.status = Escrow!Awaiting
    BY <1>1 DEF Escrow!Page
  <2> HIDE DEF fresh
  <2>2. v3 = [p \in Escrow!Pages |-> fresh]
    BY DEF Escrow!Init, fresh
  <2> QED
    BY <2>1, <2>2 DEF Escrow!Shown
<1>4. Escrow!StateOK
  <2>1. v2 \in DOMAIN v1 /\ v1 # << >> /\ v5 = {}
    BY <1>2 DEF Escrow!Init
  <2>2. v4 \in [Escrow!Pages -> Escrow!Flight]
    BY <1>1 DEF Escrow!Init
  <2> QED
    BY <1>2, <1>3, <2>1, <2>2 DEF Escrow!StateOK
<1>5. Escrow!FlagsStay /\ Escrow!PagesShowThePast /\ Escrow!StepsAreInOrder
  BY <1>1, <1>2, <1>3 DEF Escrow!Init, Escrow!FlagsStay, Escrow!PagesShowThePast,
    Escrow!StepsAreInOrder
<1>6. Escrow!SubmitsFollow
  BY <1>1 DEF Escrow!Init, Escrow!SubmitsFollow
<1> QED
  BY <1>4, <1>5, <1>6 DEF Escrow!DeliveryInv

(* A new state of the escrow that takes nothing back and skips no step.    *)
LEMMA ChainGrows ==
  ASSUME Escrow!DeliveryInv, NEW s \in Escrow!State, v1' = Append(v1, s),
         Escrow!Now.completed => s.completed, Escrow!Now.approved => s.approved,
         s.approved => Escrow!Now.approved \/ Escrow!Now.completed,
         s.released => Escrow!Now.approved /\ ~Escrow!Now.released,
         v6' => v6 \/ s.released
  PROVE  /\ v1' \in Seq(Escrow!State) /\ v1' # << >> /\ DOMAIN v1 \subseteq DOMAIN v1'
         /\ \A i \in DOMAIN v1 : v1'[i] = v1[i]
         /\ Escrow!Now' = s /\ Escrow!FlagsStay' /\ Escrow!StepsAreInOrder'
<1> DEFINE n == Len(v1)
<1>1. /\ v1 \in Seq(Escrow!State) /\ n \in Nat /\ n # 0 /\ DOMAIN v1 = 1..n
      /\ Escrow!FlagsStay /\ Escrow!StepsAreInOrder
  BY DEF Escrow!DeliveryInv, Escrow!StateOK
<1>2. /\ v1' \in Seq(Escrow!State) /\ Len(v1') = n + 1 /\ DOMAIN v1' = 1..(n + 1)
      /\ v1'[n + 1] = s /\ \A i \in 1..n : v1'[i] = v1[i]
  BY <1>1
<1>3. v1' # << >> /\ Escrow!Now' = s /\ Escrow!Now = v1[n]
  BY <1>2 DEF Escrow!Now
<1> HIDE DEF n
<1>4. Escrow!FlagsStay'
  <2> SUFFICES ASSUME NEW i \in 1..(n + 1), NEW j \in 1..(n + 1), i <= j
               PROVE  /\ v1'[i].completed => v1'[j].completed
                      /\ v1'[i].approved => v1'[j].approved
    BY <1>2 DEF Escrow!FlagsStay
  <2>1. CASE j \in 1..n
    BY <1>1, <1>2, <2>1 DEF Escrow!FlagsStay
  <2>2. CASE i \in 1..n /\ j = n + 1
    <3>1. /\ v1[i].completed => v1[n].completed
          /\ v1[i].approved => v1[n].approved
      BY <1>1, <2>2 DEF Escrow!FlagsStay
    <3> QED
      BY <1>2, <1>3, <2>2, <3>1
  <2>3. CASE i = n + 1 /\ j = n + 1
    BY <2>3
  <2> QED
    BY <1>1, <2>1, <2>2, <2>3
<1>5. Escrow!StepsAreInOrder'
  <2>1. ASSUME NEW j \in 1..(n + 1), v1'[j].approved
        PROVE  \E i \in 1..(n + 1) : i < j /\ v1'[i].completed /\ ~v1'[i].approved
    <3>1. PICK m \in 1..n : \/ m <= j /\ v1[m].approved
                            \/ m = n /\ j = n + 1 /\ ~v1[n].approved
      <4>1. CASE j \in 1..n
        BY <1>2, <2>1, <4>1
      <4>2. CASE j = n + 1
        BY <1>1, <4>2
      <4> QED
        BY <1>1, <4>1, <4>2
    <3>2. CASE v1[m].approved /\ m <= j
      <4>1. PICK i \in 1..n : i < m /\ v1[i].completed /\ ~v1[i].approved
        BY <1>1, <3>2 DEF Escrow!StepsAreInOrder
      <4> QED
        BY <1>1, <1>2, <3>2, <4>1
    <3>3. CASE m = n /\ j = n + 1 /\ ~v1[n].approved
      BY <1>1, <1>2, <1>3, <2>1, <3>3
    <3> QED
      BY <3>1, <3>2, <3>3
  <2>2. ASSUME NEW k \in 1..(n + 1), v1'[k].released
        PROVE  \E j \in 1..(n + 1) : j < k /\ v1'[j].approved /\ ~v1'[j].released
    <3>1. CASE k \in 1..n
      <4>1. PICK j \in 1..n : j < k /\ v1[j].approved /\ ~v1[j].released
        BY <1>1, <1>2, <2>2, <3>1 DEF Escrow!StepsAreInOrder
      <4> QED
        BY <1>1, <1>2, <4>1
    <3>2. CASE k = n + 1
      BY <1>1, <1>2, <1>3, <2>2, <3>2
    <3> QED
      BY <1>1, <3>1, <3>2
  <2>3. v6' => \E k \in 1..(n + 1) : v1'[k].released
    BY <1>1, <1>2 DEF Escrow!StepsAreInOrder
  <2> QED
    BY <1>2, <2>1, <2>2, <2>3 DEF Escrow!StepsAreInOrder
<1> QED
  BY <1>1, <1>2, <1>3, <1>4, <1>5

(* A step that leaves the escrow alone, or adds a state to it.             *)
LEMMA PagesKeep ==
  ASSUME Escrow!DeliveryInv, v1' # << >>, v1' \in Seq(Escrow!State),
         DOMAIN v1 \subseteq DOMAIN v1',
         \A i \in DOMAIN v1 : v1'[i] = v1[i], Escrow!FlagsStay', Escrow!StepsAreInOrder',
         Escrow!Now.completed => Escrow!Now'.completed, Escrow!Now.approved =>
         Escrow!Now'.approved,
         v2' \in DOMAIN v1', v3' \in [Escrow!Pages -> Escrow!Page],
         v4' \in [Escrow!Pages -> Escrow!Flight],
         \A r \in v5' : r.p \in Escrow!Pages /\ r.pos \in DOMAIN v1',
         \A p \in Escrow!Pages : \/ v3'[p].status = v3[p].status
                                 \/ \E i \in DOMAIN v1 : v3'[p].status = v1[i],
         \A p \in Escrow!Pages : v4'[p].pc = "submit" =>
           \/ v4'[p] = v4[p]
           \/ /\ v4'[p].kind # "none"
              /\ v4'[p].kind = "approve" => Escrow!Now.completed
              /\ v4'[p].kind = "release" => Escrow!Now.approved
  PROVE  Escrow!DeliveryInv'
<1>1. Escrow!StateOK'
  BY DEF Escrow!StateOK
<1>2. Escrow!PagesShowThePast'
  BY DEF Escrow!DeliveryInv, Escrow!PagesShowThePast, Escrow!Shown
<1>3. Escrow!SubmitsFollow'
  BY DEF Escrow!DeliveryInv, Escrow!SubmitsFollow
<1> QED
  BY <1>1, <1>2, <1>3 DEF Escrow!DeliveryInv

LEMMA DeliveryStep ==
  ASSUME Escrow!DeliveryInv, Escrow!Next
  PROVE  Escrow!DeliveryInv'
<1>1. /\ v1 \in Seq(Escrow!State) /\ v1 # << >> /\ Escrow!Now \in Escrow!State /\ v2 \in DOMAIN v1
      /\ v3 \in [Escrow!Pages -> Escrow!Page] /\ v4 \in [Escrow!Pages -> Escrow!Flight]
      /\ \A r \in v5 : r.p \in Escrow!Pages /\ r.pos \in DOMAIN v1
      /\ Len(v1) \in DOMAIN v1 /\ DOMAIN v1 = 1..Len(v1)
  BY DEF Escrow!DeliveryInv, Escrow!StateOK, Escrow!Now
<1>2. Escrow!Idle \in Escrow!Flight /\ Escrow!Idle.pc = "idle"
  BY DEF Escrow!Idle, Escrow!Flight
<1>3. ASSUME v1' = v1, v6' = v6
      PROVE  /\ Escrow!FlagsStay' /\ Escrow!StepsAreInOrder' /\ Escrow!Now' = Escrow!Now
             /\ \A i \in DOMAIN v1 : v1'[i] = v1[i]
  BY <1>3 DEF Escrow!DeliveryInv, Escrow!FlagsStay, Escrow!StepsAreInOrder, Escrow!Now
<1>4. CASE Escrow!Indexed
  <2>1. v2' \in DOMAIN v1' /\ UNCHANGED <<v1, v3, v4, v5, v6>>
    BY <1>1, <1>4 DEF Escrow!Indexed
  <2> QED
    BY <1>1, <1>3, <2>1, PagesKeep
<1>5. CASE Escrow!Dispute
  <2> DEFINE s == [Escrow!Now EXCEPT !.disputed = TRUE]
  <2>1. v1' = Append(v1, s) /\ UNCHANGED <<v2, v3, v4, v5, v6>> /\ ~Escrow!Now.released
    BY <1>5 DEF Escrow!Dispute
  <2>2. PICK before \in Escrow!State : before = Escrow!Now
    BY <1>1
  <2>3. /\ s \in Escrow!State /\ s.completed = Escrow!Now.completed
        /\ s.approved = Escrow!Now.approved
        /\ s.released = Escrow!Now.released
    BY <2>2 DEF Escrow!State
  <2> HIDE DEF s
  <2>4. /\ v1' \in Seq(Escrow!State) /\ v1' # << >> /\ DOMAIN v1 \subseteq DOMAIN v1'
        /\ \A i \in DOMAIN v1 : v1'[i] = v1[i]
        /\ Escrow!Now' = s /\ Escrow!FlagsStay' /\ Escrow!StepsAreInOrder'
    BY <2>1, <2>3, ChainGrows
  <2> QED
    BY <1>1, <2>1, <2>3, <2>4, PagesKeep
<1>6. ASSUME NEW r \in v5, Escrow!ReadAnswered(r) \/ Escrow!ReadFailed(r)
      PROVE  Escrow!DeliveryInv'
  <2>1. PICK p \in Escrow!Pages, at \in DOMAIN v1 : p = r.p /\ at = r.pos
    BY <1>1
  <2>2. PICK old \in Escrow!Page, f \in Escrow!Flight, s \in Escrow!State :
          old = v3[p] /\ f = v4[p] /\ s = v1[at]
    BY <1>1
  <2> DEFINE answered == [old EXCEPT !.status = s, !.known = "row"]
             failed == [old EXCEPT !.known = "null"]
             ends == [f EXCEPT !.pc = "answered"]
  <2>3. /\ UNCHANGED <<v1, v2, v6>> /\ v5' \subseteq v5
        /\ v3' = [v3 EXCEPT ![p] = answered] \/ v3' = [v3 EXCEPT ![p] = failed]
        /\ v4' = [v4 EXCEPT ![p] = ends] \/ v4' = v4
    BY <1>6, <2>1, <2>2 DEF Escrow!ReadAnswered, Escrow!ReadFailed, Escrow!AfterRead
  <2>4. ends \in Escrow!Flight /\ ends.pc = "answered"
    BY DEF Escrow!Flight
  <2>5. /\ answered \in Escrow!Page /\ answered.status = s
        /\ failed \in Escrow!Page /\ failed.status = old.status
    BY DEF Escrow!Page
  <2> HIDE DEF answered, failed, ends
  <2>6. v3' \in [Escrow!Pages -> Escrow!Page] /\ v4' \in [Escrow!Pages -> Escrow!Flight]
    BY <1>1, <2>3, <2>4, <2>5
  <2>7. \A q \in Escrow!Pages : v3'[q].status = v3[q].status \/ v3'[q].status = v1[at]
    BY <1>1, <2>2, <2>3, <2>5
  <2>8. \A q \in Escrow!Pages : v4'[q].pc = "submit" => v4'[q] = v4[q]
    BY <1>1, <2>3, <2>4
  <2> QED
    BY <1>1, <1>3, <2>3, <2>6, <2>7, <2>8, PagesKeep
<1>7. ASSUME NEW p \in Escrow!Pages, Escrow!LoadOnMount(p) \/ Escrow!LoadAfter(p)
      PROVE  Escrow!DeliveryInv'
  <2>1. \E h \in BOOLEAN : v5' = v5 \cup {[p |-> p, pos |-> v2, handler |-> h, id |-> v7]}
    BY <1>7 DEF Escrow!LoadOnMount, Escrow!LoadAfter, Escrow!StartRead
  <2>2. /\ UNCHANGED <<v1, v2, v3, v6>>
        /\ v4' = v4 \/ v4' = [v4 EXCEPT ![p] = [v4[p] EXCEPT !.pc = "loading"]]
    BY <1>7 DEF Escrow!LoadOnMount, Escrow!LoadAfter
  <2>3. [v4[p] EXCEPT !.pc = "loading"] \in Escrow!Flight
        /\ [v4[p] EXCEPT !.pc = "loading"].pc = "loading"
    <3>1. PICK f \in Escrow!Flight : f = v4[p]
      BY <1>1
    <3>2. /\ [f EXCEPT !.pc = "loading"] \in Escrow!Flight
          /\ [f EXCEPT !.pc = "loading"].pc = "loading"
      BY DEF Escrow!Flight
    <3> QED
      BY <3>1, <3>2
  <2>4. \A r \in v5' : r.p \in Escrow!Pages /\ r.pos \in DOMAIN v1'
    BY <1>1, <2>1, <2>2
  <2>5. v4' \in [Escrow!Pages -> Escrow!Flight]
        /\ \A q \in Escrow!Pages : v4'[q].pc = "submit" => v4'[q] = v4[q]
    BY <1>1, <2>2, <2>3
  <2> QED
    BY <1>1, <1>3, <2>2, <2>4, <2>5, PagesKeep
<1>8. ASSUME NEW p \in Escrow!Pages, NEW kind \in {"confirm", "approve", "release"},
             Escrow!Press(p, kind)
      PROVE  Escrow!DeliveryInv'
  <2>9. PICK old \in Escrow!Page : old = v3[p]
    BY <1>1
  <2> DEFINE pressed == [old EXCEPT !.busy = TRUE, !.toast = FALSE]
             flies == [kind |-> kind, pc |-> "submit"]
  <2>1. /\ UNCHANGED <<v1, v2, v5, v6>> /\ v3' = [v3 EXCEPT ![p] = pressed]
        /\ v4' = [v4 EXCEPT ![p] = flies]
    BY <1>1, <1>8, <2>9 DEF Escrow!Press, Escrow!Offers, Escrow!OffersByStatus
  <2>2. pressed \in Escrow!Page /\ pressed.status = old.status
    BY DEF Escrow!Page
  <2>3. flies \in Escrow!Flight /\ flies.kind = kind
    BY DEF Escrow!Flight
  <2> HIDE DEF pressed, flies
  <2>4. /\ v3' \in [Escrow!Pages -> Escrow!Page] /\ v4' \in [Escrow!Pages -> Escrow!Flight]
        /\ \A q \in Escrow!Pages : v3'[q].status = v3[q].status
        /\ \A q \in Escrow!Pages \ {p} : v4'[q] = v4[q]
        /\ v4'[p] = flies
    BY <1>1, <2>1, <2>2, <2>3, <2>9
  <2>5. PICK i \in DOMAIN v1 : Escrow!Shown(p) = v1[i]
    BY DEF Escrow!DeliveryInv, Escrow!PagesShowThePast
  <2>6. /\ kind = "approve" => Escrow!Now.completed
        /\ kind = "release" => Escrow!Now.approved
    BY <1>1, <1>8, <2>5 DEF Escrow!Press, Escrow!Offers, Escrow!OffersByStatus, Escrow!DeliveryInv,
      Escrow!FlagsStay, Escrow!Now
  <2> QED
    BY <1>1, <1>3, <2>1, <2>3, <2>4, <2>6, PagesKeep
<1>9. ASSUME NEW p \in Escrow!Pages,
             Escrow!Submitted(p) \/ Escrow!SubmitFailed(p) \/ Escrow!Finish(p)
      PROVE  Escrow!DeliveryInv'
  <2>1. PICK f \in Escrow!Flight, old \in Escrow!Page, kind \in {"none", "confirm", "approve",
        "release"} :
          f = v4[p] /\ old = v3[p] /\ kind = f.kind
    BY <1>1 DEF Escrow!Flight
  <2> DEFINE loads2 == [f EXCEPT !.pc = "load"]
             free == [old EXCEPT !.busy = FALSE]
             done == [old EXCEPT !.toast = TRUE, !.busy = FALSE]
  <2>2. /\ v2' = v2 /\ v5' = v5
        /\ v4' = [v4 EXCEPT ![p] = loads2] \/ v4' = [v4 EXCEPT ![p] = Escrow!Idle]
        /\ \/ v3' = v3 \/ v3' = [v3 EXCEPT ![p] = free]
           \/ v3' = [v3 EXCEPT ![p] = done]
        /\ \/ UNCHANGED <<v1, v6>>
           \/ f.pc = "submit" /\ Escrow!Executes(kind)
    BY <1>9, <2>1 DEF Escrow!Submitted, Escrow!SubmitFailed, Escrow!Finish, Escrow!Refused
  <2>3. loads2 \in Escrow!Flight /\ loads2.pc = "load"
    BY DEF Escrow!Flight
  <2>4. /\ free \in Escrow!Page /\ free.status = old.status
        /\ done \in Escrow!Page /\ done.status = old.status
    BY DEF Escrow!Page
  <2> HIDE DEF loads2, free, done
  <2>5. /\ v3' \in [Escrow!Pages -> Escrow!Page] /\ v4' \in [Escrow!Pages -> Escrow!Flight]
        /\ \A q \in Escrow!Pages : v3'[q].status = v3[q].status
        /\ \A q \in Escrow!Pages : v4'[q].pc = "submit" => v4'[q] = v4[q]
    BY <1>1, <1>2, <2>1, <2>2, <2>3, <2>4
  <2>6. CASE UNCHANGED <<v1, v6>>
    BY <1>1, <1>3, <2>2, <2>5, <2>6, PagesKeep
  <2>7. CASE f.pc = "submit" /\ Escrow!Executes(kind)
    <3> DEFINE s == Escrow!Effect(kind)
    <3>1. /\ kind \in {"confirm", "approve", "release"}
          /\ kind = "approve" => Escrow!Now.completed
          /\ kind = "release" => Escrow!Now.approved
      BY <2>1, <2>7 DEF Escrow!DeliveryInv, Escrow!SubmitsFollow, Escrow!Flight
    <3>2. /\ v1' = Append(v1, s) /\ ~Escrow!Now.released
          /\ v6' = (v6 \/ kind = "release")
      BY <2>7 DEF Escrow!Executes
    <3>3. PICK before \in Escrow!State : before = Escrow!Now
      BY <1>1
    <3>4. \/ s = [before EXCEPT !.completed = TRUE] /\ kind = "confirm"
          \/ s = [before EXCEPT !.approved = TRUE] /\ kind = "approve"
          \/ s = [before EXCEPT !.released = TRUE] /\ kind = "release"
      BY <3>1, <3>3 DEF Escrow!Effect
    <3> HIDE DEF s
    <3>5. /\ s \in Escrow!State /\ (before.completed => s.completed)
          /\ (before.approved => s.approved)
          /\ (s.approved => before.approved \/ kind = "approve")
          /\ (s.released <=> before.released \/ kind = "release")
      BY <3>1, <3>4 DEF Escrow!State
    <3>6. /\ v1' \in Seq(Escrow!State) /\ v1' # << >> /\ DOMAIN v1 \subseteq DOMAIN v1'
          /\ \A i \in DOMAIN v1 : v1'[i] = v1[i]
          /\ Escrow!Now' = s /\ Escrow!FlagsStay' /\ Escrow!StepsAreInOrder'
      BY <3>1, <3>2, <3>3, <3>5, ChainGrows
    <3> QED
      <4>1. /\ Escrow!Now.completed => Escrow!Now'.completed
            /\ Escrow!Now.approved => Escrow!Now'.approved
        BY <3>3, <3>5, <3>6
      <4>2. v2' \in DOMAIN v1' /\ \A r \in v5' : r.p \in Escrow!Pages /\ r.pos \in DOMAIN v1'
        BY <1>1, <2>2, <3>6
      <4> QED
        BY <2>5, <3>6, <4>1, <4>2, PagesKeep
  <2> QED
    BY <2>2, <2>6, <2>7
<1> QED
  BY <1>4, <1>5, <1>6, <1>7, <1>8, <1>9 DEF Escrow!Next

LEMMA ReleasesFollow == Escrow!DeliveryInv => Escrow!ReleaseFollowsDelivery
<1> SUFFICES ASSUME Escrow!DeliveryInv, v6 PROVE Escrow!ReleaseFollowsDelivery
  BY DEF Escrow!ReleaseFollowsDelivery
<1>1. PICK k \in DOMAIN v1 : v1[k].released
  BY DEF Escrow!DeliveryInv, Escrow!StepsAreInOrder
<1>2. PICK j \in DOMAIN v1 : j < k /\ v1[j].approved /\ ~v1[j].released
  BY <1>1 DEF Escrow!DeliveryInv, Escrow!StepsAreInOrder
<1>3. PICK i \in DOMAIN v1 : i < j /\ v1[i].completed /\ ~v1[i].approved
  BY <1>2 DEF Escrow!DeliveryInv, Escrow!StepsAreInOrder
<1> QED
  BY <1>1, <1>2, <1>3 DEF Escrow!ReleaseFollowsDelivery

-----------------------------------------------------------------------------
(* Finding the escrow: the time is v1, the read model's lag v2, the round  *)
(* v3, the attempt v4, the outcome v5, the failed requests v6.             *)

(* In which 200 ms the look number a of round r is taken at the earliest,  *)
(* after f failed requests: each of the two waits within a round, and each *)
(* wait between rounds, is at its shortest, and the request that fails is  *)
(* the first of its round.                                                 *)
RoundBegins(f, r) == IF r = 0 THEN 0 ELSE 28 * r - 8 - 12 * f
LookedAt(f, r, a) ==
  RoundBegins(f, r) + (IF a = 1 THEN 0 ELSE IF a = 2 THEN 4 ELSE 12)

(* What the looks before have shown: the last one that was answered found  *)
(* nothing, which no look did when the first request failed.               *)
LagExceeds(f, r, a) ==
  IF a > 1 THEN v2 > LookedAt(f, r, a - 1)
  ELSE r > f => v2 > LookedAt(0, (r - f) - 1, 3)

ResolveInv ==
  /\ v1 \in Nat /\ v2 \in Nat /\ v3 \in 0..2 /\ v4 \in 1..3 /\ v6 \in 0..1
  /\ v5 \in {"pending", "found", "null"}
  /\ v5 = "pending" => v6 <= v3 /\ v1 >= LookedAt(v6, v3, v4) /\ LagExceeds(v6, v3, v4)
  /\ v5 = "null" => v2 > (IF v6 = 0 THEN 60 ELSE 32)

LEMMA ResolveWaits ==
  /\ \A w \in Resolve!Backoff(1) : w \in Nat /\ w >= 4
  /\ \A w \in Resolve!Backoff(2) : w \in Nat /\ w >= 8
  /\ \A w \in Resolve!RoundBackoff(0) : w \in Nat /\ w >= 8
  /\ \A w \in Resolve!RoundBackoff(1) : w \in Nat /\ w >= 16
BY DEF Resolve!Backoff, Resolve!RoundBackoff, Resolve!Jittered, Resolve!AtMost

LEMMA ResolveStarts == Resolve!Init => ResolveInv
BY DEF Resolve!Init, ResolveInv, LookedAt, RoundBegins, LagExceeds

LEMMA ResolveStep ==
  ASSUME MaxFaults \in 0..1, ResolveInv, Resolve!Next
  PROVE  ResolveInv'
<1>1. /\ v1 \in Nat /\ v2 \in Nat /\ v3 \in 0..2 /\ v4 \in 1..3 /\ v6 \in 0..1
      /\ v5 = "pending" => /\ v6 <= v3 /\ v1 >= LookedAt(v6, v3, v4)
                           /\ LagExceeds(v6, v3, v4)
  BY DEF ResolveInv
<1>2. CASE Resolve!Found
  BY <1>1, <1>2 DEF Resolve!Found, ResolveInv
<1>3. CASE Resolve!LookAgain
  <2>1. /\ v4 < 3 /\ v4' = v4 + 1 /\ UNCHANGED <<v2, v3, v5, v6>> /\ v5 = "pending"
        /\ v2 > v1
    BY <1>1, <1>3 DEF Resolve!LookAgain, Resolve!Indexed
  <2>2. PICK w \in Resolve!Backoff(v4), l \in 0..1 : v1' = v1 + w + l
    BY <1>3 DEF Resolve!LookAgain, Resolve!Takes
  <2>3. w \in Nat /\ (v4 = 1 => w >= 4) /\ (v4 = 2 => w >= 8)
    BY <1>1, <2>1, <2>2, ResolveWaits
  <2>4. v1' \in Nat /\ v1' >= v1 + w
    BY <1>1, <2>2, <2>3
  <2>5. LookedAt(v6, v3, v4 + 1) = LookedAt(v6, v3, v4) + (IF v4 = 1 THEN 4 ELSE 8)
    BY <1>1, <2>1 DEF LookedAt, RoundBegins
  <2>6. LookedAt(v6, v3, v4) \in Int
    BY <1>1 DEF LookedAt, RoundBegins
  <2>7. v1' >= LookedAt(v6', v3', v4') /\ LagExceeds(v6, v3, v4)'
    BY <1>1, <2>1, <2>3, <2>4, <2>5, <2>6 DEF LagExceeds
  <2> QED
    BY <1>1, <2>1, <2>4, <2>7 DEF ResolveInv
<1>4. CASE Resolve!BudgetSpent
  <2>1. v5 = "pending" /\ v2 > v1 /\ v4 = 3 /\ v6' = v6 /\ v2' = v2
    BY <1>1, <1>4 DEF Resolve!BudgetSpent, Resolve!Indexed
  <2>2. CASE v3 = 2
    <3>1. v5' = "null" /\ UNCHANGED <<v1, v3, v4>>
      BY <1>4, <2>2 DEF Resolve!BudgetSpent, Resolve!RoundFails
    <3> QED
      BY <1>1, <2>1, <2>2, <3>1 DEF ResolveInv, LookedAt, RoundBegins
  <2>3. CASE v3 < 2
    <3>1. v3' = v3 + 1 /\ v4' = 1 /\ v5' = v5 /\ Resolve!Takes(Resolve!RoundBackoff(v3))
      BY <1>1, <1>4, <2>3 DEF Resolve!BudgetSpent, Resolve!RoundFails
    <3>2. PICK w \in Resolve!RoundBackoff(v3), l \in 0..1 : v1' = v1 + w + l
      BY <3>1 DEF Resolve!Takes
    <3>3. w \in Nat /\ (v3 = 0 => w >= 8) /\ (v3 = 1 => w >= 16)
      BY <1>1, <2>3, <3>2, ResolveWaits
    <3>4. v1' \in Nat /\ v1' >= v1 + w
      BY <1>1, <3>2, <3>3
    <3>5. v1' >= LookedAt(v6', v3', v4') /\ LagExceeds(v6, v3, v4)'
      BY <1>1, <2>1, <2>3, <3>1, <3>3, <3>4 DEF LookedAt, RoundBegins, LagExceeds
    <3> QED
      BY <1>1, <2>1, <2>3, <3>1, <3>4, <3>5 DEF ResolveInv
  <2> QED
    BY <1>1, <2>2, <2>3
<1>5. CASE Resolve!RequestFails
  <2>1. v5 = "pending" /\ v6 = 0 /\ v6' = 1 /\ v2' = v2
    BY <1>1, <1>5 DEF Resolve!RequestFails
  <2>2. CASE v3 = 2
    <3>1. v5' = "null" /\ UNCHANGED <<v1, v3, v4>>
      BY <1>5, <2>2 DEF Resolve!RequestFails, Resolve!RoundFails
    <3>2. v2 > 32
      BY <1>1, <2>1, <2>2 DEF LookedAt, RoundBegins, LagExceeds
    <3> QED
      BY <1>1, <2>1, <3>1, <3>2 DEF ResolveInv
  <2>3. CASE v3 < 2
    <3>1. v3' = v3 + 1 /\ v4' = 1 /\ v5' = v5 /\ Resolve!Takes(Resolve!RoundBackoff(v3))
      BY <1>1, <1>5, <2>3 DEF Resolve!RequestFails, Resolve!RoundFails
    <3>2. PICK w \in Resolve!RoundBackoff(v3), l \in 0..1 : v1' = v1 + w + l
      BY <3>1 DEF Resolve!Takes
    <3>3. w \in Nat /\ (v3 = 0 => w >= 8) /\ (v3 = 1 => w >= 16)
      BY <1>1, <2>3, <3>2, ResolveWaits
    <3>4. v1' \in Nat /\ v1' >= v1 + w
      BY <1>1, <3>2, <3>3
    <3>5. v1' >= LookedAt(v6', v3', v4') /\ LagExceeds(v6, v3, v4)'
      BY <1>1, <2>1, <2>3, <3>1, <3>3, <3>4 DEF LookedAt, RoundBegins, LagExceeds
    <3> QED
      BY <1>1, <2>1, <2>3, <3>1, <3>4, <3>5 DEF ResolveInv
  <2> QED
    BY <1>1, <2>2, <2>3
<1> QED
  BY <1>2, <1>3, <1>4, <1>5 DEF Resolve!Next

LEMMA GivesUpLate == ResolveInv => Resolve!LagIsTolerated
BY DEF ResolveInv, Resolve!LagIsTolerated

(* The funds of an escrow leave after delivery and approval, and the page  *)
(* gives up on an escrow only when the read model lags beyond what its     *)
(* retries are meant for, at most one request having failed.               *)
THEOREM EscrowHolds ==
  ASSUME MaxFaults \in 0..1
  PROVE  MCSpec => []EscrowRailHolds
<1> DEFINE PartInv == /\ part = "escrow" => Escrow!DeliveryInv
                      /\ part = "resolve" => ResolveInv
<1>1. MCInit => PartInv
  BY ServiceStarts, DeliveryStarts, ResolveStarts
<1>2. PartInv /\ [MCNext]_all => PartInv'
  <2> SUFFICES ASSUME PartInv, [MCNext]_all
               PROVE  PartInv'
    OBVIOUS
  <2>1. CASE part = "escrow"
    <3>1. Escrow!DeliveryInv /\ UNCHANGED pool => Escrow!DeliveryInv'
      BY DEF pool, Escrow!DeliveryInv, Escrow!StateOK, Escrow!FlagsStay,
        Escrow!PagesShowThePast, Escrow!SubmitsFollow, Escrow!StepsAreInOrder,
        Escrow!Shown, Escrow!Now
    <3> QED
      BY <2>1, <3>1, ServiceGoesOn, DeliveryStep
  <2>2. CASE part = "resolve"
    <3>1. ResolveInv /\ UNCHANGED pool => ResolveInv'
      BY DEF pool, ResolveInv, LagExceeds
    <3> QED
      BY <2>2, <3>1, ServiceGoesOn, ResolveStep
  <2> QED
    BY <2>1, <2>2, ServiceGoesOn
<1>3. PartInv => EscrowRailHolds
  BY ReleasesFollow, GivesUpLate DEF EscrowRailHolds
<1> QED
  BY <1>1, <1>2, <1>3, PTL DEF MCSpec
=============================================================================

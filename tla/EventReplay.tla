----------------------------- MODULE EventReplay -----------------------------
(***************************************************************************)
(* replayEvents (sdk/src/events.ts): reads the events of a ledger range in *)
(* windows of batchSizeLedgers and pages of limitPerPage, while ledgers go *)
(* on closing and RPC forgets old ones.                                    *)
(***************************************************************************)
EXTENDS EventLog, ProtocolEvents

CONSTANTS
  EventTypes, \* the names asked for
  Bursts,     \* the events a ledger may close with: sequences of raw events
  WindowSize  \* batchSizeLedgers

VARIABLES
  replay,  \* the call: its place, range, window and page cursor
  found,   \* the log entries it has collected
  horizon  \* history: the latest ledger when it started

replayVars == <<replay, found, horizon>>
vars == <<logVars, replayVars>>

NoCursor == MaxLedger * 10

Init ==
  /\ LogInit
  /\ replay = [pc |-> "idle"]
  /\ found = <<>>
  /\ horizon = 0

Wanted(raw) == Decodes(raw) /\ raw.name \in EventTypes

(* replayEvents(from, to): without `to` it stops at the latest ledger.     *)
Begin(from, to) ==
  /\ replay.pc = "idle"
  /\ to = 0 \/ from <= to
  /\ replay' = [pc |-> IF to = 0 /\ latest < from THEN "done" ELSE "page",
                from |-> from, to |-> IF to = 0 THEN latest ELSE to,
                start |-> from, cursor |-> NoCursor, seen |-> {}]
  /\ horizon' = latest
  /\ UNCHANGED <<logVars, found>>

Min2(a, b) == IF a < b THEN a ELSE b
WindowEnd == Min2(replay.start + WindowSize - 1, replay.to)

(* Mutant: a full page may not end in the last ledger of the window.       *)
EndsBeforeWindow(l) == l < WindowEnd

EndsWithinWindow(l) == l <= WindowEnd

NextWindow ==
  IF WindowEnd < replay.to
  THEN [replay EXCEPT !.start = WindowEnd + 1, !.cursor = NoCursor]
  ELSE [replay EXCEPT !.pc = "done"]

(* The entries of a page that are read: up to the first past the window,   *)
(* none seen before.                                                       *)
Fresh(p, q) ==
  SelectSeq([i \in 1..q - p |-> p + i],
            LAMBDA i : log[i].ledger <= WindowEnd /\ i \notin replay.seen)

AndSeen(next, p, q) ==
  IF next.pc = "page" THEN [next EXCEPT !.seen = @ \union ToSet(Fresh(p, q))]
  ELSE next

(* One page.  A full page that ends within the window is followed by the   *)
(* next page from its cursor, any other ends the window.                   *)
ReadPage ==
  /\ replay.pc = "page"
  /\ replay.start >= oldest
  /\ \E p \in Cursors : \E q \in PageEnds(p, latest) :
       /\ IF replay.cursor = NoCursor THEN StartsAt(p, replay.start)
                                      ELSE p = replay.cursor
       /\ found' = found \o SelectSeq(Fresh(p, q), LAMBDA i : Wanted(log[i].event))
       /\ replay' = AndSeen(IF /\ q > p
                               /\ EndsWithinWindow(log[q].ledger)
                               /\ Fresh(p, q) # <<>>
                               /\ q - p >= PageLimit
                            THEN [replay EXCEPT !.cursor = q]
                            ELSE NextWindow, p, q)
  /\ UNCHANGED <<logVars, horizon>>

(* A page that fails, or starts before RPC's oldest ledger, ends the call. *)
ReplayFails ==
  /\ replay.pc = "page"
  /\ replay' = [pc |-> "failed"]
  /\ UNCHANGED <<logVars, found, horizon>>

Next ==
  \/ \E from \in 1..MaxLedger, to \in 0..MaxLedger : Begin(from, to)
  \/ ReadPage
  \/ ReplayFails
  \/ ((\E burst \in Bursts : CloseLedger(burst)) \/ Prune) /\ UNCHANGED replayVars

Spec == Init /\ [][Next]_vars

-----------------------------------------------------------------------------
(* Properties                                                              *)

TypeOK ==
  /\ LogTypeOK
  /\ replay.pc \in {"idle", "page", "done", "failed"}
  /\ found \in Seq(1..Len(log))
  /\ horizon \in 0..MaxLedger

InRange(i) == log[i].ledger \in replay.from..replay.to

(* "fully decoded ... in strict chronological order": what a replay        *)
(* returns is in order, within the range and without duplicates, and has   *)
(* every event of the range that was there when it started, however the    *)
(* windows and the pages cut the range.  RPC's pages are full unless they  *)
(* are the last: a short one would end its window early.                   *)
ReplayIsComplete ==
  replay.pc = "done" =>
    /\ \A i, j \in 1..Len(found) : i < j => found[i] < found[j]
    /\ \A i \in ToSet(found) : InRange(i)
    /\ \A i \in 1..Len(log) :
         InRange(i) /\ log[i].ledger <= horizon /\ Wanted(log[i].event)
           => i \in ToSet(found)
=============================================================================

----------------------------- MODULE EventStream -----------------------------
(***************************************************************************)
(* listenToEvents (sdk/src/events.ts): a loop that polls getEvents from a  *)
(* ledger cursor and delivers the decoded events to a callback.  A poll    *)
(* awaits two calls: ledgers close, calls fail and the caller stops the    *)
(* listener in between; a poll under way when it stops runs to its end.    *)
(***************************************************************************)
EXTENDS EventLog, ProtocolEvents

CONSTANTS
  EventTypes, \* the names the subscriber asks for
  Bursts,     \* the events a ledger may close with: sequences of raw events
  MaxErrors   \* bound on failed calls

VARIABLES
  stream,     \* the loop: where it is, its cursor (0 when unset), stopped
  delivered,  \* the log entries handed to onEvent, in that order
  since,      \* history: the ledger the cursor started from
  cutOff,     \* history: entries a full page left behind
  errors

streamVars == <<stream, delivered, since, cutOff, errors>>

StreamInit ==
  /\ stream = [pc |-> "timer", cursor |-> 0, stopped |-> FALSE]
  /\ delivered = <<>>
  /\ since = 0
  /\ cutOff = {}
  /\ errors = 0

Delivers(raw) == Decodes(raw) /\ raw.name \in EventTypes

(* The entries a poll hands over from those it has read.                   *)
Matching(p, q) ==
  SelectSeq([i \in 1..q - p |-> p + i], LAMBDA i : Delivers(log[i].event))

(* runPoll: the timer fires and getLatestLedger is called.                 *)
TimerFires ==
  /\ stream.pc = "timer" /\ ~stream.stopped
  /\ stream' = [stream EXCEPT !.pc = "latest"]
  /\ UNCHANGED <<delivered, since, cutOff, errors>>

(* The first poll only notes the latest ledger.                            *)
LatestAnswers ==
  /\ stream.pc = "latest"
  /\ \/ /\ stream.cursor = 0
        /\ stream' = [stream EXCEPT !.pc = "timer", !.cursor = latest]
        /\ since' = latest
     \/ /\ stream.cursor > latest
        /\ stream' = [stream EXCEPT !.pc = "timer"]
        /\ UNCHANGED since
     \/ /\ stream.cursor \in 1..latest
        /\ stream' = [stream EXCEPT !.pc = "events"]
        /\ UNCHANGED since
  /\ UNCHANGED <<delivered, cutOff, errors>>

(* Mutants: the cursor stays on the last ledger read; the cursor moves     *)
(* beyond a ledger that is not closed yet.                                 *)
CursorStays == latest
CursorSkips == latest + 2

NextCursor == latest + 1

(* getEvents answers: the cursor moves first, then the page is delivered.  *)
EventsAnswer ==
  /\ stream.pc = "events"
  /\ stream.cursor >= oldest
  /\ \E p \in Cursors : \E q \in PageEnds(p, latest) :
       /\ StartsAt(p, stream.cursor)
       /\ delivered' = delivered \o Matching(p, q)
       /\ cutOff' = cutOff \union (q + 1)..Len(log)
  /\ stream' = [stream EXCEPT !.pc = "timer", !.cursor = NextCursor]
  /\ UNCHANGED <<since, errors>>

(* A call fails, at the latest because RPC has forgotten the cursor: the   *)
(* loop backs off and polls again.                                         *)
PollFails ==
  /\ stream.pc \in {"latest", "events"}
  /\ \/ errors < MaxErrors /\ errors' = errors + 1
     \/ /\ stream.pc = "events" /\ stream.cursor < oldest
        /\ UNCHANGED errors
  /\ stream' = [stream EXCEPT !.pc = "timer"]
  /\ UNCHANGED <<delivered, since, cutOff>>

StopListening ==
  /\ ~stream.stopped
  /\ stream' = [stream EXCEPT !.stopped = TRUE]
  /\ UNCHANGED <<delivered, since, cutOff, errors>>

ChainStep ==
  /\ (\E burst \in Bursts : CloseLedger(burst)) \/ Prune
  /\ UNCHANGED streamVars

-----------------------------------------------------------------------------
(* Properties                                                              *)

StreamTypeOK ==
  /\ LogTypeOK
  /\ stream \in [pc : {"timer", "latest", "events"},
                 cursor : 0..MaxLedger + 1, stopped : BOOLEAN]
  /\ delivered \in Seq(1..Len(log))
  /\ since \in 0..MaxLedger /\ errors \in 0..MaxErrors
  /\ cutOff \subseteq 1..Len(log)

(* "delivers matching events to onEvent in ledger order": each at most     *)
(* once, whatever closes between the calls of a poll and however many      *)
(* polls fail.                                                             *)
DeliversOnceInOrder ==
  \A i, j \in 1..Len(delivered) : i < j => delivered[i] < delivered[j]

(* The cursor never passes an event that was not delivered, except those   *)
(* a full page of 200 left behind (which no later poll reads).             *)
LosesOnlyCutOff ==
  \A i \in 1..Len(log) :
    /\ since > 0 /\ log[i].ledger \in since..stream.cursor - 1
    /\ Delivers(log[i].event)
    => i \in ToSet(delivered) \union cutOff
=============================================================================

------------------------------ MODULE EventLog ------------------------------
(***************************************************************************)
(* The ledger as the off-chain programs see it through Soroban RPC:        *)
(* contract events in ledger order, read in pages, retained for a limited  *)
(* time.  External to the repository: the indexer, the keeper and the SDK  *)
(* use it through getLatestLedger, getEvents and getHealth.                *)
(***************************************************************************)
EXTENDS Naturals, Sequences

CONSTANTS
  Event,      \* what an event can say (its ledger apart)
  PageLimit,  \* events per getEvents page
  ShortPages, \* whether RPC may cut a page short (even to nothing)
  Retention,  \* ledgers RPC always keeps behind the latest one
  MaxLedger   \* bound on the ledger number

ASSUME LogAssumption ==
  /\ PageLimit \in Nat \ {0} /\ ShortPages \in BOOLEAN
  /\ Retention \in Nat /\ MaxLedger \in Nat \ {0}

VARIABLES
  log,        \* the events emitted so far, each with its ledger
  latest,     \* the last closed ledger
  oldest      \* the first ledger RPC still has events for

logVars == <<log, latest, oldest>>

Entry == [ledger : 1..MaxLedger, event : Event]

LogInit == log = <<>> /\ latest = 1 /\ oldest = 1

LogTypeOK ==
  /\ log \in Seq(Entry)
  /\ latest \in 1..MaxLedger
  /\ oldest \in 1..MaxLedger

(* A ledger closes with the events of its transactions. *)
CloseLedger(events) ==
  /\ latest < MaxLedger
  /\ latest' = latest + 1
  /\ log' = log \o [i \in 1..Len(events) |->
                      [ledger |-> latest + 1, event |-> events[i]]]
  /\ UNCHANGED oldest

(* RPC forgets its oldest ledger. *)
Prune ==
  /\ oldest + Retention < latest
  /\ oldest' = oldest + 1
  /\ UNCHANGED <<log, latest>>

-----------------------------------------------------------------------------
(* A cursor is the number of log entries it has passed.                    *)

(* p is the cursor before the first event of ledger l. *)
StartsAt(p, l) ==
  \A i \in 1..Len(log) : i <= p <=> log[i].ledger < l

(* The entries up to which a page from cursor p may run, none past ledger l. *)
PageEnds(p, l) ==
  LET within == {q \in p..Len(log) :
                   /\ q <= p + PageLimit
                   /\ q > p => log[q].ledger <= l}
  IN  {q \in within : ShortPages \/ \A other \in within : other <= q}

Cursors == 0..Len(log)

(* The last ledger of the events in a page, or l if there is none. *)
LastLedger(p, q, l) == IF q > p /\ log[q].ledger > l THEN log[q].ledger ELSE l
=============================================================================

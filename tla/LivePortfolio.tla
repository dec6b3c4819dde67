---------------------------- MODULE LivePortfolio ----------------------------
(***************************************************************************)
(* The live portfolio (lib/live, LivePortfolioProvider.tsx): rows of the   *)
(* mirror fetched in full now and then, updates streamed in between by a   *)
(* WebSocket relay through a throttle per position and kind, and polling   *)
(* of the event stream once the relay is given up.  A position is what has *)
(* been repaid of it; the relay may lose, repeat and reorder what it says. *)
(***************************************************************************)
EXTENDS Naturals

CONSTANTS
  Offer,
  Due,              \* what is owed on an offer, principal and yield
  MaxInitial,       \* maxReconnectAttempts, before the first connection
  MaxRelayFailures, \* after it
  MaxRestarts       \* bound on the engines of one page

VARIABLES
  repaid,   \* what the ledger says has been repaid of each offer
  mirror,   \* the mirror's rows; they follow the ledger later
  relayUp,  \* whether the relay takes connections
  ws,       \* the relay client
  polling,  \* the fallback has been started
  throttle, \* per position and kind: the window is open, the value pending
  resync,   \* the fetch in flight and its answer
  page,     \* the reducer's state
  restarts

vars == <<repaid, mirror, relayUp, ws, polling, throttle, resync, page, restarts>>
chainVars == <<repaid, mirror, relayUp>>

Kinds == {"position_updated", "repayment_received"}
Nothing == 0 - 1
Row(v) == [repaid |-> v, status |-> IF v = Due THEN "Repaid" ELSE "Financed"]
NoRow == [repaid |-> 0, status |-> "None"]
NoAnswer == [is |-> "none"]
Failure == [is |-> "error"]
Answer(amounts) == [is |-> "rows", amounts |-> amounts]
RowsOf(amounts) == [o \in Offer |-> Row(amounts[o])]

(* A new engine: its relay client, throttle and resync.                    *)
NewRelay == [pc |-> "start", ever |-> FALSE, failures |-> 0]
NewThrottle == [k \in Offer \X Kinds |-> [open |-> FALSE, pending |-> Nothing]]
NewResync == [inFlight |-> FALSE, answer |-> NoAnswer]

Init ==
  /\ repaid = [o \in Offer |-> 0] /\ mirror = repaid
  /\ relayUp \in BOOLEAN
  /\ ws = NewRelay /\ polling = FALSE
  /\ throttle = NewThrottle /\ resync = NewResync
  /\ page = [rows |-> [o \in Offer |-> NoRow], loading |-> TRUE, connection |-> "connecting"]
  /\ restarts = 0

-----------------------------------------------------------------------------
(* The ledger, its mirror and the relay                                    *)

Repay(o) ==
  /\ repaid[o] < Due
  /\ repaid' = [repaid EXCEPT ![o] = @ + 1]
  /\ UNCHANGED <<mirror, relayUp, ws, polling, throttle, resync, page, restarts>>

MirrorWrite(o) ==
  /\ mirror[o] < repaid[o]
  /\ mirror' = [mirror EXCEPT ![o] = repaid[o]]
  /\ UNCHANGED <<repaid, relayUp, ws, polling, throttle, resync, page, restarts>>

RelayChanges ==
  /\ relayUp' = ~relayUp
  /\ UNCHANGED <<repaid, mirror, ws, polling, throttle, resync, page, restarts>>

-----------------------------------------------------------------------------
(* Resync: one fetch at a time, shared by all who ask for it               *)

AskResync ==
  resync' = IF resync.inFlight THEN resync
            ELSE [inFlight |-> TRUE, answer |-> NoAnswer]

(* The database answers with the rows it has now, or with an error; the    *)
(* answer is used later.                                                   *)
FetchReads(answer) ==
  /\ resync.inFlight /\ resync.answer = NoAnswer
  /\ resync' = [resync EXCEPT !.answer = answer]
  /\ UNCHANGED <<chainVars, ws, polling, throttle, page, restarts>>

(* Mutant: a request that fails is never cleared.                          *)
ClearsInFlight(answer) ==
  IF answer = Failure THEN [inFlight |-> TRUE, answer |-> [is |-> "settled"]]
  ELSE [inFlight |-> FALSE, answer |-> NoAnswer]

Cleared(answer) == [inFlight |-> FALSE, answer |-> NoAnswer]

(* fetchPositions reports an error and returns no rows; the rows it        *)
(* returns are dispatched next, which takes the error away.                *)
FetchAnswers ==
  /\ resync.answer.is \in {"rows", "error"}
  /\ page' = [page EXCEPT
       !.rows = IF resync.answer = Failure THEN [o \in Offer |-> NoRow]
                ELSE RowsOf(resync.answer.amounts),
       !.loading = FALSE]
  /\ resync' = Cleared(resync.answer)
  /\ UNCHANGED <<chainVars, ws, polling, throttle, restarts>>

(* The call throws: nothing changes but the request under way.             *)
FetchThrows ==
  /\ resync.inFlight /\ resync.answer = NoAnswer
  /\ resync' = Cleared(Failure)
  /\ page' = [page EXCEPT !.loading = FALSE]
  /\ UNCHANGED <<chainVars, ws, polling, throttle, restarts>>

(* The periodic resync, the refresh button and the first one of an engine. *)
ResyncTimer ==
  /\ ~resync.inFlight
  /\ AskResync
  /\ UNCHANGED <<chainVars, ws, polling, throttle, page, restarts>>

-----------------------------------------------------------------------------
(* The throttle and the reducer                                            *)

(* Mutant: what a repayment says is added, and nothing caps it.            *)
ApplyIncrement(row, kind, v) ==
  IF row.status = "None" THEN row
  ELSE IF kind = "position_updated" THEN Row(v)
       ELSE Row(row.repaid + 1)

(* applyUpdate: an unknown position is left alone; position_updated sets   *)
(* the fields, repayment_received says what is outstanding and never       *)
(* lowers what is known to be repaid.                                      *)
ApplyUpdate(row, kind, v) ==
  IF row.status = "None" THEN row
  ELSE IF kind = "position_updated" THEN Row(v)
       ELSE [repaid |-> IF v > row.repaid THEN v ELSE row.repaid,
             status |-> IF v = Due THEN "Repaid" ELSE row.status]

Deliver(o, kind, v) ==
  page' = [page EXCEPT !.rows[o] = ApplyUpdate(@, kind, v)]

(* dispatch: at once when no window is open, else at the end of it, where  *)
(* a later value takes its place.                                          *)
Update(o, kind, v) ==
  LET k == <<o, kind>> IN
  \/ /\ ~throttle[k].open
     /\ throttle' = [throttle EXCEPT ![k] = [open |-> TRUE, pending |-> Nothing]]
     /\ Deliver(o, kind, v)
  \/ /\ throttle[k].open
     /\ throttle' = [throttle EXCEPT ![k].pending = v]
     /\ UNCHANGED page

(* Mutant: the value is delivered and stays pending.                       *)
AfterWindowKeeps(slot) == [slot EXCEPT !.open = FALSE]

AfterWindow(slot) ==
  [open |-> slot.pending # Nothing, pending |-> Nothing]

WindowEnds(k) ==
  /\ throttle[k].open
  /\ IF throttle[k].pending = Nothing THEN UNCHANGED page
     ELSE Deliver(k[1], k[2], throttle[k].pending)
  /\ throttle' = [throttle EXCEPT ![k] = AfterWindow(@)]
  /\ UNCHANGED <<chainVars, ws, polling, resync, restarts>>

-----------------------------------------------------------------------------
(* The relay client                                                        *)

Connection(status) == page' = [page EXCEPT !.connection = status]

Connect ==
  /\ ws.pc \in {"start", "backoff"}
  /\ ws' = [ws EXCEPT !.pc = "connecting"]
  /\ Connection(IF ws.ever THEN "reconnecting" ELSE "connecting")
  /\ UNCHANGED <<chainVars, polling, throttle, resync, restarts>>

(* Mutant: a connection forgives the failures before it.                   *)
OpenedAfresh == [pc |-> "open", ever |-> TRUE, failures |-> 0]

Opened == [ws EXCEPT !.pc = "open", !.ever = TRUE]

Opens ==
  /\ ws.pc = "connecting" /\ relayUp
  /\ ws' = Opened
  /\ Connection("connected")
  /\ AskResync
  /\ UNCHANGED <<chainVars, polling, throttle, restarts>>

FailureLimit == IF ws.ever THEN MaxRelayFailures ELSE MaxInitial

(* handleFailure, after a handshake that fails or times out or a drop; the *)
(* last one it takes hands over to polling (degradeToPolling).             *)
RelayFails ==
  LET failures == ws.failures + 1 IN
  /\ ws.pc \in {"connecting", "open"}
  /\ \/ /\ failures < FailureLimit
        /\ ws' = [ws EXCEPT !.pc = "backoff", !.failures = failures]
        /\ Connection(IF ws.ever THEN "reconnecting" ELSE "connecting")
        /\ UNCHANGED polling
     \/ /\ failures >= FailureLimit
        /\ ws' = [ws EXCEPT !.pc = "stopped", !.failures = failures]
        /\ polling' = TRUE
        /\ Connection("polling")
  /\ UNCHANGED <<chainVars, throttle, resync, restarts>>

(* The relay says what it knew at some time of an offer's repayments.      *)
RelaySays(o) ==
  /\ ws.pc = "open"
  /\ \E kind \in Kinds, v \in 0..repaid[o] : Update(o, kind, v)
  /\ UNCHANGED <<chainVars, ws, polling, resync, restarts>>

(* A polled event other than a repayment asks for a resync; a repayment is *)
(* an update for the invoice it names, which is no position's id.          *)
PolledEvent ==
  /\ polling
  /\ AskResync
  /\ UNCHANGED <<chainVars, ws, polling, throttle, page, restarts>>

(* The wallet or the user changes: the provider stops the engine, whose    *)
(* pending updates and fetch it ignores from now on, and starts another.   *)
Restart ==
  /\ restarts < MaxRestarts
  /\ restarts' = restarts + 1
  /\ ws' = NewRelay /\ polling' = FALSE
  /\ throttle' = NewThrottle /\ resync' = NewResync
  /\ page' = [page EXCEPT !.loading = TRUE]
  /\ UNCHANGED chainVars

Fetched == {Answer(mirror), Failure}

Next ==
  \/ \E o \in Offer : Repay(o) \/ MirrorWrite(o) \/ RelaySays(o)
  \/ RelayChanges
  \/ ResyncTimer \/ FetchAnswers \/ FetchThrows
  \/ \E answer \in Fetched : FetchReads(answer)
  \/ \E k \in Offer \X Kinds : WindowEnds(k)
  \/ Connect \/ Opens \/ RelayFails
  \/ PolledEvent
  \/ Restart

Spec == Init /\ [][Next]_vars

(* Timers fire, a handshake ends within its timeout, a request is answered *)
(* and now and then it is answered with rows.                              *)
HandshakeEnds == ws.pc = "connecting" /\ (Opens \/ RelayFails)
ReadsRows == FetchReads(Answer(mirror))

Fairness ==
  /\ WF_vars(Connect) /\ WF_vars(HandshakeEnds)
  /\ WF_vars(ResyncTimer) /\ WF_vars(FetchAnswers) /\ SF_vars(ReadsRows)

FairSpec == Spec /\ Fairness

-----------------------------------------------------------------------------
(* Properties                                                              *)

TypeOK ==
  /\ repaid \in [Offer -> 0..Due] /\ mirror \in [Offer -> 0..Due]
  /\ ws.pc \in {"start", "connecting", "open", "backoff", "stopped"}
  /\ page.rows \in [Offer -> {NoRow} \union {Row(v) : v \in 0..Due}]

(* A replayed, late or reordered delivery never makes the page show more   *)
(* repaid than the ledger has, nor "Repaid" for a claim still open.        *)
NeverOvercounts ==
  \A o \in Offer : page.rows[o].status # "None" =>
    /\ page.rows[o].repaid <= repaid[o]
    /\ page.rows[o].status = "Repaid" <=> page.rows[o].repaid = Due

(* The latest of the updates of a position and kind is never left behind:  *)
(* while one is pending, a timer is armed that delivers it.                *)
PendingWillBeDelivered ==
  \A k \in Offer \X Kinds : throttle[k].pending # Nothing => throttle[k].open

(* Both: streamed updates never mislead and are never left behind.         *)
UpdatesAreSound == NeverOvercounts /\ PendingWillBeDelivered

(* "a relay that keeps failing hands off to polling instead of             *)
(* reconnecting forever".                                                  *)
ReconnectsAtMostSoOften == <>[](ws.pc # "backoff")

(* The periodic resync is a safety net: whatever was lost, coalesced or    *)
(* failed, the page shows the mirror's rows again and again.               *)
UpToDate == page.rows = RowsOf(mirror)

ShowsTheMirror == []<>UpToDate
=============================================================================

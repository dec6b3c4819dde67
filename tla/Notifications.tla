---------------------------- MODULE Notifications ----------------------------
(***************************************************************************)
(* In-app notifications: useEventSubscription listens to the event stream, *)
(* useNotificationSeeder turns what it hears into rows of the              *)
(* notifications table (hooks/useEventSubscription.ts,                     *)
(* hooks/useNotifications.ts, lib/notifications.ts, 004_notifications.sql).*)
(* onEvent runs for each event of a page before React renders, so the      *)
(* seeder's effect sees the last new event of the page only.               *)
(***************************************************************************)
EXTENDS EventStream

CONSTANTS
  SeenCap,   \* 1 000 events remembered by the subscription
  SeededCap, \* 500 events remembered by the seeder
  User       \* the signed-in user

VARIABLES
  hook,      \* the subscription: mounted, status, events seen, lastEvent
  seeded,    \* the keys the seeder has handled
  inserting, \* inserts under way: the events they are for
  rows,      \* the notifications table
  answered   \* history: events whose insert was answered by the database

hookVars == <<hook, seeded, inserting, rows, answered>>
vars == <<logVars, streamVars, hookVars>>

Null == "null"

Init ==
  /\ LogInit /\ StreamInit
  /\ hook = [mounted |-> TRUE, status |-> "connecting", timer |-> TRUE,
             seen |-> <<>>, last |-> 0]
  /\ seeded = <<>>
  /\ inserting = {} /\ rows = {} /\ answered = {}

Raw(i) == log[i].event

(* A raw event names its transaction within its ledger.                    *)
TxHash(i) == <<log[i].ledger, Raw(i).tx>>
SeenKey(i) == <<TxHash(i), Raw(i).name, Raw(i).subject>>
SeedKey(i) == <<TxHash(i), Raw(i).name>>

(* A set in insertion order that drops its oldest member at the cap.       *)
Remember(keys, k, cap) ==
  IF Len(keys) = cap THEN Append(Tail(keys), k) ELSE Append(keys, k)

(* Mutant: the hook does not look whether it is still mounted.             *)
HandleAnyEvent(h, i) ==
  IF SeenKey(i) \in ToSet(h.seen) THEN h
  ELSE [h EXCEPT !.seen = Remember(@, SeenKey(i), SeenCap), !.last = i]

(* handleEvent: unless unmounted, an event not seen before is lastEvent.   *)
HandleEvent(h, i) ==
  IF ~h.mounted \/ SeenKey(i) \in ToSet(h.seen) THEN h
  ELSE [h EXCEPT !.seen = Remember(@, SeenKey(i), SeenCap), !.last = i]

(* What an event says to the user; most events say nothing.                *)
NotificationType(name) ==
  CASE name = "off_new" -> "offer_received"
    [] name = "off_acc" -> "offer_accepted"
    [] name \in {"off_rej", "off_wdr"} -> "offer_rejected"
    [] name = "inv_rep" -> "invoice_repaid"
    [] name = "inv_cxl" -> "invoice_cancelled"
    [] name = "inv_ovd" -> "invoice_overdue"
    [] name = "inv_def" -> "invoice_defaulted"
    [] OTHER -> "none"

Draft(i) ==
  LET e == DecodeEvent(Raw(i)) IN
  [type |-> NotificationType(e.type),
   invoiceId |-> IF "invoiceId" \in DOMAIN e.data THEN e.data.invoiceId
                                                  ELSE e.subjectId]

(* The seeder's effect: an event of a new transaction and type with a      *)
(* draft is inserted, once; it is remembered before it is known to be in.  *)
Seed(last) ==
  IF last = hook.last \/ SeedKey(last) \in ToSet(seeded)
  THEN UNCHANGED <<seeded, inserting>>
  ELSE /\ seeded' = Remember(seeded, SeedKey(last), SeededCap)
       /\ inserting' = IF Draft(last).type = "none" THEN inserting
                       ELSE inserting \union {last}

(* A page arrives: its events are heard one by one, the effect runs once.  *)
Receive ==
  LET page == SubSeq(delivered', Len(delivered) + 1, Len(delivered')) IN
  /\ EventsAnswer
  /\ hook' = FoldLeft(HandleEvent, hook, page)
  /\ Seed(hook'.last)
  /\ UNCHANGED <<logVars, rows, answered>>

(* handleError.                                                            *)
StreamFails ==
  /\ PollFails
  /\ hook' = IF hook.mounted THEN [hook EXCEPT !.status = "reconnecting"] ELSE hook
  /\ UNCHANGED <<logVars, seeded, inserting, rows, answered>>

(* A second after mounting the status is set, whatever the first poll did. *)
ConnectTimer ==
  /\ hook.mounted /\ hook.timer
  /\ hook' = [hook EXCEPT !.status = "connected", !.timer = FALSE]
  /\ UNCHANGED <<logVars, streamVars, seeded, inserting, rows, answered>>

Unmount ==
  /\ hook.mounted
  /\ StopListening
  /\ hook' = [hook EXCEPT !.mounted = FALSE]
  /\ UNCHANGED <<logVars, seeded, inserting, rows, answered>>

(* insertNotification names no user_id and the column has no default; the  *)
(* table's policy admits rows of the signed-in user.                       *)
InsertedRow(i) == [user_id |-> Null, type |-> Draft(i).type, event |-> i]
InsertAllowed(row) == row.user_id = User

InsertAnswers(i) ==
  /\ i \in inserting
  /\ inserting' = inserting \ {i}
  /\ answered' = answered \union {i}
  /\ rows' = rows \union {row \in {InsertedRow(i)} : InsertAllowed(row)}
  /\ UNCHANGED <<logVars, streamVars, hook, seeded>>

(* The request is lost; the seeder does not try again.                     *)
InsertFails(i) ==
  /\ i \in inserting /\ errors < MaxErrors
  /\ errors' = errors + 1
  /\ inserting' = inserting \ {i}
  /\ UNCHANGED <<logVars, stream, delivered, since, cutOff, hook, seeded, rows, answered>>

Quiet == (TimerFires \/ LatestAnswers) /\ UNCHANGED <<logVars, hookVars>>

Next ==
  \/ ChainStep /\ UNCHANGED hookVars
  \/ Quiet \/ Receive \/ StreamFails
  \/ ConnectTimer \/ Unmount
  \/ \E i \in inserting : InsertAnswers(i) \/ InsertFails(i)

Spec == Init /\ [][Next]_vars

-----------------------------------------------------------------------------
(* Properties                                                              *)

TypeOK ==
  /\ StreamTypeOK
  /\ hook.status \in {"connecting", "connected", "reconnecting"}
  /\ hook.last \in 0..Len(log) /\ Len(hook.seen) <= SeenCap
  /\ Len(seeded) <= SeededCap
  /\ inserting \subseteq 1..Len(log) /\ answered \subseteq 1..Len(log)

(* A poll that was under way when the component unmounted still delivers   *)
(* its page; nothing is seeded from it.                                    *)
SeedsNothing == ~hook.mounted => UNCHANGED seeded

NothingSeededAfterUnmount == [][SeedsNothing]_vars

(* "persists a notification whenever a relevant event arrives": an insert  *)
(* the database has answered left a row of the signed-in user.             *)
NotificationIsPersisted ==
  \A i \in answered : \E row \in rows : row.event = i /\ row.user_id = User
=============================================================================

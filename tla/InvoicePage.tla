---------------------------- MODULE InvoicePage -----------------------------
(***************************************************************************)
(* The invoice page (app/invoices/[id]/page.tsx with OfferList.tsx): what  *)
(* originator and lenders do with one invoice, from several open pages.    *)
(*                                                                         *)
(* Each handler shows its outcome at once, invokes the contract through    *)
(* the SDK (simulate, sign, send, poll), and then copies the outcome into  *)
(* the mirror rows of the database; if the invocation throws it puts back  *)
(* what the page showed before.  A handler that accepts an offer goes on   *)
(* to deploy and fund a disbursement escrow.  Every await is a step        *)
(* boundary.  A status that comes back from a call other than getInvoice   *)
(* and cancelInvoice is not normalised (lib/contract.ts): it is the        *)
(* contract's number, which no comparison of the page recognises.          *)
(***************************************************************************)
EXTENDS Naturals, FiniteSets, InvoiceContracts

CONSTANTS
  Page,            \* open browser pages
  Originator,      \* the pages signed in as the invoice's originator; every
                   \* other page is the lender's of all the offers
  Offer,           \* ids of offers
  Open,            \* the offers that exist, Pending, when the pages open
  Task,            \* slots for handlers that are running
  Total,           \* what an accepted offer is due, in units of repayment
  EscrowEnabled,   \* is the escrow rail switched on?
  LossyMirror,     \* may a write to the mirror fail?
  MaxTasks,        \* bound on the handlers started
  MaxReloads       \* bound on the pages reloaded

ASSUME PageAssumption == Originator \subseteq Page /\ Open \subseteq Offer
ASSUME TotalAssumption == Total \in Nat \ {0}
ASSUME BoundAssumption == {MaxTasks, MaxReloads} \subseteq Nat
ASSUME FlagAssumption == {EscrowEnabled, LossyMirror} \subseteq BOOLEAN

VARIABLES
  \* --- the ledger -------------------------------------------------------
  ledger,     \* [inv, off, repaid]: the truth
  due,        \* "no", "past" the due date, past the "grace" period
  late,       \* transactions whose page stopped waiting; they may still land
  \* --- the database and the escrow service ------------------------------
  mirror,     \* [inv, off, escrow]: the rows; escrow[o]: id persisted?
  escrow,     \* escrow[o]: [deployed, funded], fundings counted
  \* --- the pages --------------------------------------------------------
  view,       \* view[p]: [inv, off, repaid] as rendered, and the offers
              \* whose rejection a toast offers to undo
  actionId,   \* actionId[p]: the one offer whose buttons are disabled
  task,       \* task[t]: the handler running in slot t
  started, reloads,
  \* --- history ----------------------------------------------------------
  overlapped  \* pages where two handlers ran at once since the last load

tasks == <<task, started>>
history == <<reloads, overlapped>>
vars == <<ledger, due, late, mirror, escrow, view, actionId, tasks, history>>

InvoiceStatus == {"Pending", "Financed", "Repaid", "Overdue", "Cancelled", "Defaulted"}
OfferStatus == {"None", "Pending", "Accepted", "Rejected", "Financed", "Repaid", "Defaulted"}
Number == "a number"   \* a status the page got un-normalised

(* What the check constraints of the baseline schema let a row hold.       *)
InvoiceRow == {"Pending", "Financed", "Repaid", "Overdue", "Cancelled"}
OfferRow == {"Pending", "Accepted", "Rejected", "Repaid", "Defaulted"}

Kind == {"submit", "accept", "reject", "repay", "overdue", "reclaim", "cancel", "undo"}
OfferKind == Kind \ {"overdue", "cancel"}

Free == [kind |-> "none"]
Running(t) == task[t] # Free
Busy(p) == \E t \in Task : Running(t) /\ task[t].page = p
At(t, pc) == Running(t) /\ task[t].pc = pc

Fresh == [inv    |-> "Pending",
          off    |-> [o \in Offer |-> IF o \in Open THEN "Pending" ELSE "None"],
          repaid |-> [o \in Offer |-> 0]]

Shown(l) == [inv |-> l.inv, off |-> l.off, repaid |-> l.repaid, undo |-> {}]

Init ==
  /\ ledger = Fresh
  /\ due = "no"
  /\ late = {}
  /\ mirror = [inv |-> "Pending", off |-> Fresh.off, escrow |-> [o \in Offer |-> FALSE]]
  /\ escrow = [o \in Offer |-> [deployed |-> FALSE, fundings |-> 0]]
  /\ view = [p \in Page |-> Shown(Fresh)]
  /\ actionId = [p \in Page |-> "none"]
  /\ task = [t \in Task |-> Free]
  /\ started = 0
  /\ reloads = 0
  /\ overlapped = [p \in Page |-> FALSE]

-----------------------------------------------------------------------------
(* Starting a handler.                                                     *)

(* The buttons page p shows and has enabled.                               *)
Offers(p, k, o) ==
  LET v == view[p] IN
  CASE k = "submit" -> p \notin Originator /\ v.inv = "Pending" /\ v.off[o] = "None"
    [] k \in {"accept", "reject"}
                    -> p \in Originator /\ v.off[o] = "Pending" /\ actionId[p] # o
    [] k = "repay"  -> /\ p \in Originator /\ v.off[o] \in Financing
                       /\ v.inv = "Financed" /\ actionId[p] # o
    [] k = "overdue" -> v.inv = "Financed" /\ due # "no" /\ actionId[p] # "overdue"
    [] k = "reclaim" -> /\ p \notin Originator /\ v.off[o] \in Financing
                        /\ v.inv = "Overdue" /\ due = "grace" /\ actionId[p] # o
    [] k = "cancel" -> p \in Originator /\ v.inv = "Pending"
    [] k = "undo"   -> FALSE

(* `loading` and `cancelling` keep these two from being started twice.     *)
Guarded(p, k) ==
  k \in {"submit", "cancel"} =>
    ~ \E t \in Task : Running(t) /\ task[t].page = p /\ task[t].kind = k

(* What the page shows while the transaction confirms.                     *)
Optimistic(v, k, o, n) ==
  CASE k = "submit" -> [v EXCEPT !.off[o] = "Pending"]
    [] k = "accept" -> [v EXCEPT !.inv = "Financed", !.off[o] = "Accepted"]
    [] k = "repay"  ->
         LET paid == v.repaid[o] + n IN
         LET s == IF paid >= Total THEN "Repaid" ELSE "Financed" IN
         [v EXCEPT !.inv = s, !.off[o] = s, !.repaid[o] = paid]
    [] OTHER        -> v

(* Mutant: the invoice keeps its optimistic status.                        *)
RollbackOfferOnly(v, k, o, was) ==
  CASE k = "submit" -> [v EXCEPT !.off[o] = "None"]
    [] k \in {"accept", "repay"} -> [v EXCEPT !.off[o] = was.off[o],
                                             !.repaid[o] = was.repaid[o]]
    [] OTHER        -> v

(* What a handler that throws puts back; `was` is the view it started in.  *)
Rollback(v, k, o, was) ==
  CASE k = "submit" -> [v EXCEPT !.off[o] = "None"]
    [] k = "accept" -> [v EXCEPT !.inv = was.inv, !.off[o] = was.off[o]]
    [] k = "repay"  -> [v EXCEPT !.inv = was.inv, !.off[o] = was.off[o],
                                 !.repaid[o] = was.repaid[o]]
    [] OTHER        -> v

(* A status returned by any call but getInvoice and cancelInvoice: the     *)
(* contract's discriminant, whatever it stands for.                        *)
Raw(s) == Number

(* handleRepay's next status of offer and invoice.                         *)
AfterRepayment == IF Raw(ledger.inv) = "Repaid" THEN "Repaid" ELSE "Financed"

(* What a confirmed call leaves on the page, before the rows are written.  *)
Confirmed(v, k, o, n, was) ==
  CASE k \in {"accept", "reject", "reclaim"} -> [v EXCEPT !.off[o] = Raw(ledger.off[o])]
    [] k = "repay"  -> [v EXCEPT !.off[o] = AfterRepayment,
                                 !.repaid[o] = was.repaid[o] + n]
    [] OTHER        -> v

(* ... and what the page shows once they are; a rejection can be undone.    *)
Settled(v, k, o) ==
  CASE k = "submit" -> [v EXCEPT !.off[o] = Raw(ledger.off[o])]
    [] k = "reject" -> [v EXCEPT !.undo = v.undo \union {o}]
    [] k = "accept" -> [v EXCEPT !.inv = "Financed"]
    [] k \in {"repay", "overdue"} -> [v EXCEPT !.inv = Raw(ledger.inv)]
    [] k = "cancel" -> [v EXCEPT !.inv = "Cancelled"]
    [] k = "undo"   -> [v EXCEPT !.off[o] = "Pending"]
    [] OTHER        -> v

-----------------------------------------------------------------------------
(* The life of a handler.                                                  *)

MarksAction(k) == k \notin {"submit", "cancel", "undo"}

(* A click on an enabled button, confirmed after a clean preview: the      *)
(* preview simulates accept, reject, repay, reclaim and cancel first.      *)
Start(p, t, k, o, n) ==
  /\ started < MaxTasks
  /\ ~ Running(t)
  /\ Offers(p, k, o) /\ Guarded(p, k)
  /\ k = "submit" => ledger.off[o] = "None" /\ \A x \in late : x.offer # o
  /\ k \notin {"submit", "overdue"} => Succeeds(ledger, due, k, o)
  /\ task' = [task EXCEPT ![t] =
       [page |-> p, kind |-> k, offer |-> o, amount |-> n,
        was |-> [inv |-> view[p].inv, off |-> view[p].off, repaid |-> view[p].repaid],
        pc |-> "build", tx |-> "none"]]
  /\ started' = started + 1
  /\ view' = [view EXCEPT ![p] = Optimistic(@, k, o, n)]
  /\ actionId' = IF MarksAction(k) THEN [actionId EXCEPT ![p] = o] ELSE actionId
  /\ overlapped' = [overlapped EXCEPT ![p] = @ \/ Busy(p)]
  /\ UNCHANGED <<ledger, due, late, mirror, escrow, reloads>>

Goto(t, pc) == task' = [task EXCEPT ![t].pc = pc]

(* The `finally` of a handler: the slot is free, the buttons are enabled.  *)
Finish(t) ==
  /\ task' = [task EXCEPT ![t] = Free]
  /\ actionId' = IF MarksAction(task[t].kind)
                   THEN [actionId EXCEPT ![task[t].page] = "none"]
                   ELSE actionId

Throw(t) ==
  LET h == task[t] IN
  /\ view' = [view EXCEPT ![h.page] = Rollback(@, h.kind, h.offer, h.was)]
  /\ Finish(t)

(* getAccount and the simulation of the SDK; a call the contract would     *)
(* refuse throws.  The sequence number is fixed here.                      *)
Build(t) ==
  LET h == task[t] IN
  /\ At(t, "build")
  /\ \/ /\ Succeeds(ledger, due, h.kind, h.offer)
        /\ task' = [task EXCEPT ![t].pc = "sign", ![t].tx = "open"]
        /\ UNCHANGED <<view, actionId>>
     \/ Throw(t)
  /\ UNCHANGED <<ledger, due, late, mirror, escrow, started, history>>

(* The wallet prompt and sendTransaction; a decline or an error throws.    *)
Send(t) ==
  /\ At(t, "sign")
  /\ \/ task[t].tx = "open" /\ Goto(t, "sent") /\ UNCHANGED <<view, actionId>>
     \/ Throw(t)
  /\ UNCHANGED <<ledger, due, late, mirror, escrow, started, history>>

Wallet(p) == p \in Originator

(* Every transaction built at the sequence number now used is dead.        *)
Superseded(t, p) ==
  IF Running(t) /\ Wallet(task[t].page) = Wallet(p) /\ task[t].tx = "open"
    THEN [task[t] EXCEPT !.tx = "dead"] ELSE task[t]

LateOf(p) == {x \in late : Wallet(x.page) = Wallet(p)}

Included(x) ==
  ledger' = IF Succeeds(ledger, due, x.kind, x.offer)
              THEN After(ledger, x.kind, x.offer, x.amount, Total) ELSE ledger

Land(t) ==
  /\ At(t, "sent")
  /\ task[t].tx = "open"
  /\ Included(task[t])
  /\ task' = [u \in Task |-> IF u # t THEN Superseded(u, task[t].page)
       ELSE [task[t] EXCEPT !.tx =
               IF Succeeds(ledger, due, task[t].kind, task[t].offer) THEN "ok" ELSE "failed"]]
  /\ late' = late \ LateOf(task[t].page)
  /\ UNCHANGED <<due, mirror, escrow, view, actionId, started, history>>

LandLate(x) ==
  /\ Included(x)
  /\ task' = [u \in Task |-> Superseded(u, x.page)]
  /\ late' = late \ LateOf(x.page)
  /\ UNCHANGED <<due, mirror, escrow, view, actionId, started, history>>

(* Transactions without a handler: gave up polling, or the page is gone.   *)
Orphan(t) ==
  LET h == task[t] IN
  IF h.pc = "sent" /\ h.tx = "open"
    THEN {[page |-> h.page, kind |-> h.kind, offer |-> h.offer, amount |-> h.amount]}
    ELSE {}

(* The poll answers SUCCESS: the page shows what the call returned.        *)
Confirm(t) ==
  LET h == task[t] IN
  /\ At(t, "sent") /\ h.tx = "ok"
  /\ view' = [view EXCEPT ![h.page] = Confirmed(@, h.kind, h.offer, h.amount, h.was)]
  /\ Goto(t, IF h.kind \in OfferKind THEN "offerRow" ELSE "invoiceRow")
  /\ UNCHANGED <<ledger, due, late, mirror, escrow, actionId, started, history>>

(* Mutant: what is still NOT_FOUND after the last attempt passes for done. *)
PollFailsOnFailed(t) ==
  /\ At(t, "sent") /\ task[t].tx # "ok"
  /\ IF task[t].tx = "failed"
       THEN Throw(t) /\ UNCHANGED late
       ELSE /\ late' = late \union Orphan(t)
            /\ Goto(t, IF task[t].kind \in OfferKind THEN "offerRow" ELSE "invoiceRow")
            /\ UNCHANGED <<view, actionId>>
  /\ UNCHANGED <<ledger, due, mirror, escrow, started, history>>

(* FAILED, or still NOT_FOUND after the last attempt.                      *)
PollFails(t) ==
  /\ At(t, "sent") /\ task[t].tx # "ok"
  /\ late' = late \union Orphan(t)
  /\ Throw(t)
  /\ UNCHANGED <<ledger, due, mirror, escrow, started, history>>

-----------------------------------------------------------------------------
(* The mirror.  A refused or lost update is an error no handler looks at.  *)

(* The status a handler writes to the row of its offer.                    *)
OfferWrite(k) ==
  CASE k \in {"submit", "undo"} -> "Pending"
    [] k = "accept"  -> "Accepted"
    [] k = "reject"  -> "Rejected"
    [] k = "reclaim" -> "Defaulted"
    [] k = "repay"   -> AfterRepayment

(* Mutant: the row holds any status of an offer.                           *)
OfferRowTakesAny(k, o) == k = "submit" \/ mirror.off[o] # "None"

(* repay also sets amount_repaid, which is no column of the table.         *)
OfferRowTakes(k, o) ==
  /\ k # "repay" /\ OfferWrite(k) \in OfferRow
  /\ k # "submit" => mirror.off[o] # "None"

(* The status a handler writes to the row of the invoice.                  *)
InvoiceWrite(k) ==
  CASE k = "accept"  -> "Financed"
    [] k = "repay"   -> AfterRepayment
    [] k = "overdue" -> "Overdue"
    [] k = "cancel"  -> "Cancelled"

(* The update policy lets only the originator write the invoice row.       *)
InvoiceRowTakes(k, p) == p \in Originator /\ InvoiceWrite(k) \in InvoiceRow

MirrorWrite(allowed, rows) ==
  \/ mirror' = IF allowed THEN rows ELSE mirror
  \/ LossyMirror /\ UNCHANGED mirror

(* The update of the offer's row, and the rest of a handler that ends there *)
WriteOfferRow(t) ==
  LET h == task[t] IN
  /\ At(t, "offerRow")
  /\ MirrorWrite(OfferRowTakes(h.kind, h.offer),
                 [mirror EXCEPT !.off[h.offer] = OfferWrite(h.kind)])
  /\ IF h.kind \in {"accept", "repay"}
       THEN Goto(t, "invoiceRow") /\ UNCHANGED <<view, actionId>>
       ELSE /\ view' = [view EXCEPT ![h.page] = Settled(@, h.kind, h.offer)]
            /\ Finish(t)
  /\ UNCHANGED <<ledger, due, late, escrow, started, history>>

(* The update of the invoice's row; accept goes on with the escrow leg.    *)
WriteInvoiceRow(t) ==
  LET h == task[t] IN
  /\ At(t, "invoiceRow")
  /\ MirrorWrite(InvoiceRowTakes(h.kind, h.page),
                 [mirror EXCEPT !.inv = InvoiceWrite(h.kind)])
  /\ view' = [view EXCEPT ![h.page] = Settled(@, h.kind, h.offer)]
  /\ IF h.kind = "accept" /\ EscrowEnabled
       THEN Goto(t, "deploy") /\ UNCHANGED actionId
       ELSE Finish(t)
  /\ UNCHANGED <<ledger, due, late, escrow, started, history>>

(* The toast of a rejection: no contract call, only the row and the page.  *)
UndoReject(p, t, o) ==
  /\ started < MaxTasks
  /\ ~ Running(t)
  /\ o \in view[p].undo
  /\ task' = [task EXCEPT ![t] =
       [page |-> p, kind |-> "undo", offer |-> o, amount |-> 0,
        was |-> [inv |-> view[p].inv, off |-> view[p].off, repaid |-> view[p].repaid],
        pc |-> "offerRow", tx |-> "none"]]
  /\ started' = started + 1
  /\ view' = [view EXCEPT ![p].undo = @ \ {o}]
  /\ overlapped' = [overlapped EXCEPT ![p] = @ \/ Busy(p)]
  /\ UNCHANGED <<ledger, due, late, mirror, escrow, actionId, reloads>>

-----------------------------------------------------------------------------
(* The escrow leg of an accepted offer.  Its catch only shows a toast.     *)

EscrowStep(t, from, to) ==
  /\ At(t, from)
  /\ UNCHANGED <<ledger, due, late, view, started, history>>
  /\ Goto(t, to) /\ UNCHANGED actionId

EscrowFails(t, from) ==
  /\ At(t, from)
  /\ UNCHANGED <<ledger, due, late, view, started, history>>
  /\ Finish(t)

(* createDisbursementEscrow: build, sign, submit; its answer may be lost.  *)
DeployEscrow(t) ==
  LET done == [escrow EXCEPT ![task[t].offer].deployed = TRUE] IN
  /\ \/ EscrowStep(t, "deploy", "resolve") /\ escrow' = done
     \/ EscrowFails(t, "deploy") /\ escrow' \in {escrow, done}
  /\ UNCHANGED mirror

(* Mutant: the id is persisted as soon as it is known.                     *)
ResolveEscrowPersists(t) ==
  /\ \/ /\ EscrowStep(t, "resolve", "fund") /\ escrow[task[t].offer].deployed
        /\ mirror' = [mirror EXCEPT !.escrow[task[t].offer] = TRUE]
     \/ EscrowFails(t, "resolve") /\ UNCHANGED mirror
  /\ UNCHANGED escrow

(* resolveDisbursementEscrow: null when the read model lags too long.      *)
ResolveEscrow(t) ==
  /\ \/ EscrowStep(t, "resolve", "fund") /\ escrow[task[t].offer].deployed
     \/ EscrowFails(t, "resolve")
  /\ UNCHANGED <<mirror, escrow>>

FundEscrow(t) ==
  LET done == [escrow EXCEPT ![task[t].offer].fundings = @ + 1] IN
  /\ \/ EscrowStep(t, "fund", "persist") /\ escrow' = done
     \/ EscrowFails(t, "fund") /\ escrow' \in {escrow, done}
  /\ UNCHANGED mirror

PersistEscrow(t) ==
  LET o == task[t].offer IN
  /\ EscrowFails(t, "persist")
  /\ MirrorWrite(mirror.off[o] # "None", [mirror EXCEPT !.escrow[o] = TRUE])
  /\ UNCHANGED escrow

-----------------------------------------------------------------------------

(* A page is closed and opened again: its handlers are gone, the invoice   *)
(* comes from the ledger and the offers from their rows, which have no     *)
(* amount repaid.                                                          *)
Reload(p) ==
  /\ reloads < MaxReloads
  /\ reloads' = reloads + 1
  /\ LET gone == {t \in Task : Running(t) /\ task[t].page = p} IN
       /\ task' = [t \in Task |-> IF t \in gone THEN Free ELSE task[t]]
       /\ late' = late \union UNION {Orphan(t) : t \in gone}
  /\ view' = [view EXCEPT ![p] = Shown([inv |-> ledger.inv, off |-> mirror.off,
                                        repaid |-> Fresh.repaid])]
  /\ actionId' = [actionId EXCEPT ![p] = "none"]
  /\ overlapped' = [overlapped EXCEPT ![p] = FALSE]
  /\ UNCHANGED <<ledger, due, mirror, escrow, started>>

TimePasses ==
  /\ due # "grace"
  /\ due' = IF due = "no" THEN "past" ELSE "grace"
  /\ UNCHANGED <<ledger, late, mirror, escrow, view, actionId, tasks, history>>

(* The arguments a handler is started with.                                *)
Targets(k) == IF k \in OfferKind THEN Offer ELSE {k}
Amounts(k) == IF k = "repay" THEN 1 .. Total ELSE {0}

Next ==
  \/ \E p \in Page, t \in Task :
       \/ \E k \in Kind : \E o \in Targets(k), n \in Amounts(k) : Start(p, t, k, o, n)
       \/ \E o \in Offer : UndoReject(p, t, o)
  \/ \E t \in Task :
       \/ Build(t) \/ Send(t) \/ Land(t) \/ Confirm(t) \/ PollFails(t)
       \/ WriteOfferRow(t) \/ WriteInvoiceRow(t)
       \/ DeployEscrow(t) \/ ResolveEscrow(t) \/ FundEscrow(t) \/ PersistEscrow(t)
  \/ \E x \in late : LandLate(x)
  \/ \E p \in Page : Reload(p)
  \/ TimePasses

Spec == Init /\ [][Next]_vars

-----------------------------------------------------------------------------
(* Properties.                                                             *)

View == [inv : InvoiceStatus \union {Number},
         off : [Offer -> OfferStatus \union {Number}],
         repaid : [Offer -> Nat]]
Target == Offer \union {"overdue", "cancel"}
Early == {"build", "sign", "sent"}
EscrowLeg == {"deploy", "resolve", "fund", "persist"}
Handler == [page : Page, kind : Kind, offer : Target, amount : 0 .. Total, was : View,
            pc : Early \union {"offerRow", "invoiceRow"} \union EscrowLeg,
            tx : {"none", "open", "dead", "ok", "failed"}]

(* Types of the ledger, the rows, the pages and the running handlers.      *)
TypeOK ==
  /\ ledger \in [inv : InvoiceStatus, off : [Offer -> OfferStatus],
                 repaid : [Offer -> 0 .. Total]]
  /\ due \in {"no", "past", "grace"}
  /\ late \subseteq [page : Page, kind : Kind, offer : Target, amount : 0 .. Total]
  /\ mirror \in [inv : InvoiceRow, off : [Offer -> OfferRow \union {"None"}],
                 escrow : [Offer -> BOOLEAN]]
  /\ escrow \in [Offer -> [deployed : BOOLEAN, fundings : Nat]]
  /\ view \in [Page -> [inv : InvoiceStatus \union {Number},
                        off : [Offer -> OfferStatus \union {Number}],
                        repaid : [Offer -> Nat], undo : SUBSET Offer]]
  /\ actionId \in [Page -> Offer \union {"none", "overdue"}]
  /\ task \in [Task -> Handler \union {Free}]
  /\ started \in 0 .. MaxTasks /\ reloads \in 0 .. MaxReloads
  /\ overlapped \in [Page -> BOOLEAN]

(* Has the ledger ever been where a status says it is?                     *)
OfferReached(s, o) ==
  CASE s \in {"None", "Pending", Number} -> TRUE
    [] s \in Financing -> ledger.off[o] \in Financing \union {"Repaid", "Defaulted"}
    [] OTHER -> ledger.off[o] = s

InvoiceReached(s) ==
  CASE s \in {"Pending", Number} -> TRUE
    [] s = "Financed" -> ledger.inv \notin {"Pending", "Cancelled"}
    [] s = "Overdue"  -> ledger.inv \in {"Overdue", "Defaulted"}
    [] OTHER -> ledger.inv = s

(* The mirror is a display cache of the ledger (docs/06-supabase.md): it   *)
(* may lag, but no row ever says what has not happened on the ledger,      *)
(* however calls time out, land late, or are repeated from other pages.    *)
MirrorNeverAhead ==
  /\ InvoiceReached(mirror.inv)
  /\ \A o \in Offer : OfferReached(mirror.off[o], o)

UpToTotal(n) == IF n > Total THEN Total ELSE n

(* "Rollback: revert to the previous states on failure" (OfferList.tsx):   *)
(* once its handlers have ended, a page that never ran two of them at once *)
(* shows no status and no repayment the ledger has not seen.               *)
RollbackRestores ==
  \A p \in Page : ~ Busy(p) /\ ~ overlapped[p] =>
    /\ InvoiceReached(view[p].inv)
    /\ \A o \in Offer : /\ OfferReached(view[p].off[o], o)
                         /\ UpToTotal(view[p].repaid[o]) <= ledger.repaid[o]

(* The escrow leg runs for an offer that is accepted for good, at most     *)
(* once whatever is retried, and an id is persisted only once it is funded *)
(* (ADR-0010: a failed leg has no impact on the protocol).                 *)
EscrowFollowsAcceptance ==
  \A o \in Offer :
    /\ escrow[o].fundings <= 1
    /\ escrow[o].deployed => ledger.off[o] \in Financing \union {"Repaid", "Defaulted"}
    /\ mirror.escrow[o] => escrow[o].fundings = 1

(* "A repayment that clears the full balance flips the invoice to Repaid"  *)
(* (OfferList.tsx): so does the row the handler then writes.               *)
RepaymentIsMirrored ==
  [][\A t \in Task :
       /\ task[t].kind = "repay" /\ WriteInvoiceRow(t)
       /\ task[t].was.repaid[task[t].offer] + task[t].amount >= Total
       /\ ledger.inv = "Repaid"
       => mirror'.inv = "Repaid"]_vars
=============================================================================

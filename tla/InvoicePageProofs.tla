-------------------------- MODULE InvoicePageProofs --------------------------
(***************************************************************************)
(* Proofs about the invoice page, for any number of pages, offers and      *)
(* handlers: the rows and a page that rolls back show nothing the ledger   *)
(* has not seen, and the escrow of an offer is funded once and only after  *)
(* it was accepted.  All three rest on the same fact: what a confirmed     *)
(* call has done, no later call takes back.                                *)
(***************************************************************************)
EXTENDS InvoicePage, TLAPS

(* An offer that was accepted, whatever became of it since.                *)
Accepted(o) == ledger.off[o] \in Financing \union {"Repaid", "Defaulted"}

(* What a call that was included has done, and what then stays so.         *)
Done(k, o) ==
  /\ k \in {"accept", "repay"} => Accepted(o) /\ ledger.inv \notin {"Pending", "Cancelled"}
  /\ k = "reject" => ledger.off[o] = "Rejected"
  /\ k = "overdue" => ledger.inv \in {"Overdue", "Defaulted"}
  /\ k = "reclaim" => ledger.off[o] = "Defaulted"
  /\ k = "cancel" => ledger.inv = "Cancelled"

(* Where a handler of each kind can be.                                    *)
Shape(h) ==
  /\ h.kind \in OfferKind => h.offer \in Offer
  /\ h.pc \in Early => h.kind # "undo"
  /\ h.pc = "offerRow" => h.kind \in OfferKind
  /\ h.pc = "invoiceRow" => h.kind \in {"accept", "repay", "overdue", "cancel"}
  /\ h.pc \in EscrowLeg => h.kind = "accept"
  /\ h.pc \notin Early => h.tx = "ok" \/ h.kind = "undo"

ShapesOK ==
  /\ \A t \in Task : Running(t) => Shape(task[t])
  /\ \A x \in late : x.kind # "undo" /\ (x.kind \in OfferKind => x.offer \in Offer)

HandlersConfirmed ==
  \A t \in Task : Running(t) /\ task[t].tx = "ok" => Done(task[t].kind, task[t].offer)

LedgerInv == TypeOK /\ ShapesOK /\ HandlersConfirmed

-----------------------------------------------------------------------------
(* Nothing in v is ahead of the ledger.                                    *)
SoundOffers(v) ==
  \A o \in Offer : /\ OfferReached(v.off[o], o)
                   /\ UpToTotal(v.repaid[o]) <= ledger.repaid[o]

Sound(v) == InvoiceReached(v.inv) /\ SoundOffers(v)

On(t, p) == Running(t) /\ task[t].page = p

Rendered(v) == [inv |-> v.inv, off |-> v.off, repaid |-> v.repaid]

(* While its call may still fail, the page shows the optimistic outcome of *)
(* what it started from; then what the ledger confirmed, but the invoice   *)
(* of a repayment, which stays optimistic until its row is written.        *)
HandlerShows(t) ==
  LET h == task[t] IN
  /\ Sound(h.was)
  /\ h.pc \in Early =>
       Rendered(view[h.page]) = Optimistic(h.was, h.kind, h.offer, h.amount)
  /\ h.pc \notin Early =>
       /\ SoundOffers(view[h.page])
       /\ h.kind # "repay" => InvoiceReached(view[h.page].inv)
  /\ h.kind = "repay" /\ h.tx = "ok" =>
       UpToTotal(h.was.repaid[h.offer] + h.amount) <= ledger.repaid[h.offer]

PageSound(p) ==
  ~overlapped[p] =>
    /\ \A t, u \in Task : On(t, p) /\ On(u, p) => t = u
    /\ ~Busy(p) => Sound(view[p])
    /\ \A t \in Task : On(t, p) => HandlerShows(t)

PagesSound == \A p \in Page : PageSound(p)

-----------------------------------------------------------------------------
(* Handlers of a successful acceptance of offer o.                         *)
Accepts(t, o) ==
  Running(t) /\ task[t].kind = "accept" /\ task[t].tx = "ok" /\ task[t].offer = o

EscrowSound(o) ==
  /\ \A t, u \in Task : Accepts(t, o) /\ Accepts(u, o) => t = u
  /\ escrow[o].fundings \in {0, 1}
  /\ escrow[o].deployed \/ escrow[o].fundings = 1 => Accepted(o)
  /\ mirror.escrow[o] => escrow[o].fundings = 1
  /\ \A t \in Task : Accepts(t, o) =>
       (task[t].pc = "persist" <=> escrow[o].fundings = 1)

EscrowInv == \A o \in Offer : EscrowSound(o)

-----------------------------------------------------------------------------
(* The calls that are under way, in a slot or late.                        *)
Call == [page : Page, kind : Kind, offer : Target, amount : 0 .. Total]

Ledger == [inv : InvoiceStatus, off : [Offer -> OfferStatus], repaid : [Offer -> 0 .. Total]]

ViewType == [inv : InvoiceStatus \union {Number},
             off : [Offer -> OfferStatus \union {Number}],
             repaid : [Offer -> Nat], undo : SUBSET Offer]

LEMMA Constants == Total \in Nat /\ Total > 0 /\ MaxTasks \in Nat /\ MaxReloads \in Nat
BY TotalAssumption, BoundAssumption

LEMMA RunningIsHandler ==
  ASSUME TypeOK, NEW t \in Task
  PROVE  /\ Running(t) <=> task[t] \in Handler
         /\ Running(t) <=> task[t].kind # "none"
         /\ ~Running(t) <=> task[t] = Free
BY DEF TypeOK, Running, Handler, Free, Kind

(* A handler that moves on keeps what it is about.                         *)
LEMMA GotoKeeps ==
  ASSUME TypeOK, NEW t \in Task, Running(t), NEW pc, Goto(t, pc)
  PROVE  /\ \A u \in Task : u # t => task'[u] = task[u]
         /\ task'[t] = [task[t] EXCEPT !.pc = pc]
         /\ task' = [u \in Task |-> task'[u]]
BY DEF TypeOK, Goto

LEMMA FinishFrees ==
  ASSUME TypeOK, NEW t \in Task, Running(t), Finish(t)
  PROVE  /\ task' = [task EXCEPT ![t] = Free]
         /\ task' \in [Task -> Handler \union {Free}]
         /\ actionId' \in [Page -> Offer \union {"none", "overdue"}]
<1>1. task[t].page \in Page
  BY RunningIsHandler DEF Handler
<1> QED
  BY <1>1 DEF TypeOK, Finish

(* The view of a page after any assignment of a handler is a view.         *)
LEMMA ViewsStayViews ==
  ASSUME NEW v \in ViewType, NEW k \in Kind, NEW o, k \in OfferKind => o \in Offer,
         NEW n \in 0 .. Total, NEW w \in View
  PROVE  /\ Optimistic(v, k, o, n) \in ViewType
         /\ Rollback(v, k, o, w) \in ViewType
         /\ Confirmed(v, k, o, n, w) \in ViewType
         /\ Settled(v, k, o) \in ViewType
<1>1. Optimistic(v, k, o, n) \in ViewType
  <2>1. CASE k = "repay"
    <3>1. v.repaid[o] + n \in Nat /\ o \in Offer
      BY <2>1, Constants DEF ViewType, OfferKind, Kind
    <3>2. \A s \in {"Repaid", "Financed"}, r \in Nat :
            [v EXCEPT !.inv = s, !.off[o] = s, !.repaid[o] = r] \in ViewType
      BY <3>1 DEF ViewType, InvoiceStatus, OfferStatus
    <3> QED
      BY <2>1, <3>1, <3>2 DEF Optimistic
  <2>2. CASE k # "repay"
    BY <2>2 DEF ViewType, Optimistic, OfferKind, Kind, InvoiceStatus, OfferStatus
  <2> QED
    BY <2>1, <2>2
<1>2. Rollback(v, k, o, w) \in ViewType
  BY DEF ViewType, Rollback, OfferKind, Kind, InvoiceStatus, OfferStatus, View
<1>3. Confirmed(v, k, o, n, w) \in ViewType
  <2>1. CASE k = "repay"
    <3>1. w.repaid[o] + n \in Nat /\ o \in Offer
      BY <2>1, Constants DEF View, OfferKind, Kind
    <3>2. [v EXCEPT !.off[o] = "Financed", !.repaid[o] = w.repaid[o] + n] \in ViewType
      BY <3>1 DEF ViewType, OfferStatus
    <3> QED
      BY <2>1, <3>2 DEF Confirmed, AfterRepayment, Raw, Number
  <2>2. CASE k # "repay"
    BY <2>2 DEF ViewType, Confirmed, Raw, OfferKind, Kind
  <2> QED
    BY <2>1, <2>2
<1>4. Settled(v, k, o) \in ViewType
  BY DEF ViewType, Settled, Raw, OfferKind, Kind, InvoiceStatus, OfferStatus
<1> QED
  BY <1>1, <1>2, <1>3, <1>4

-----------------------------------------------------------------------------
(* A call that is included advances the ledger and never takes back what   *)
(* an earlier one has done.                                                *)
Advances ==
  /\ \A o \in Offer : ledger.repaid[o] <= ledger'.repaid[o]
  /\ \A o \in Offer, s \in OfferStatus \union {Number} : OfferReached(s, o) => OfferReached(s, o)'
  /\ \A s \in InvoiceStatus \union {Number} : InvoiceReached(s) => InvoiceReached(s)'
  /\ \A o \in Offer : Accepted(o) => Accepted(o)'
  /\ ledger.inv \notin {"Pending", "Cancelled"} => ledger'.inv \notin {"Pending", "Cancelled"}

LEMMA RepaymentIncluded ==
  ASSUME ledger \in Ledger, NEW x, x.kind = "repay", x.amount \in 0 .. Total,
         x.offer \in Offer, Included(x), Succeeds(ledger, due, x.kind, x.offer)
  PROVE  \E s \in {"Repaid", "Financed"}, r \in 0 .. Total :
           /\ ledger' = [inv |-> s, off |-> [ledger.off EXCEPT ![x.offer] = s],
                         repaid |-> [ledger.repaid EXCEPT ![x.offer] = r]]
           /\ ledger.repaid[x.offer] <= r
           /\ r = UpToTotal(ledger.repaid[x.offer] + x.amount)
<1> DEFINE paid == ledger.repaid[x.offer] + x.amount
           Becomes(s, r) == [inv |-> s, off |-> [ledger.off EXCEPT ![x.offer] = s],
                             repaid |-> [ledger.repaid EXCEPT ![x.offer] = r]]
<1>1. paid \in Nat /\ ledger.repaid[x.offer] <= paid /\ ledger.repaid[x.offer] <= Total
  BY Constants DEF Ledger
<1>2. ledger' = After(ledger, "repay", x.offer, x.amount, Total)
  BY DEF Included
<1>3. CASE paid >= Total
  <2>1. ledger' = [[ledger EXCEPT !.inv = "Repaid", !.off[x.offer] = "Repaid"]
                     EXCEPT !.repaid[x.offer] = Total]
    BY <1>2, <1>3 DEF After
  <2>2. ledger' = Becomes("Repaid", Total)
    BY <2>1 DEF Ledger
  <2>3. Total = UpToTotal(paid)
    BY <1>1, <1>3, Constants DEF UpToTotal
  <2> QED
    BY <1>1, <2>2, <2>3, Constants
<1>4. CASE ~(paid >= Total)
  <2>1. ledger' = [[ledger EXCEPT !.inv = "Financed", !.off[x.offer] = "Financed"]
                     EXCEPT !.repaid[x.offer] = paid]
    BY <1>2, <1>4 DEF After
  <2>2. ledger' = Becomes("Financed", paid)
    BY <2>1 DEF Ledger
  <2>3. paid = UpToTotal(paid) /\ paid \in 0 .. Total
    BY <1>1, <1>4, Constants DEF UpToTotal
  <2> QED
    BY <1>1, <2>2, <2>3, Constants
<1> QED
  BY <1>3, <1>4

LEMMA IncludedAdvances ==
  ASSUME ledger \in Ledger, NEW x, x.kind \in Kind \ {"undo"}, x.amount \in 0 .. Total,
         x.kind \in OfferKind => x.offer \in Offer, Included(x)
  PROVE  ledger' \in Ledger /\ Advances
<1>1. CASE ~Succeeds(ledger, due, x.kind, x.offer)
  BY <1>1, Constants DEF Included, Advances, OfferReached, InvoiceReached, Accepted, Ledger
<1>2. CASE Succeeds(ledger, due, x.kind, x.offer) /\ x.kind = "repay"
  <2>1. x.offer \in Offer
    BY <1>2 DEF OfferKind, Kind
  <2>2. ledger.inv = "Financed" /\ ledger.off[x.offer] \in Financing
    BY <1>2 DEF Succeeds
  <2>3. PICK s \in {"Repaid", "Financed"}, r \in 0 .. Total :
          /\ ledger' = [inv |-> s, off |-> [ledger.off EXCEPT ![x.offer] = s],
                        repaid |-> [ledger.repaid EXCEPT ![x.offer] = r]]
          /\ ledger.repaid[x.offer] <= r
    BY <1>2, <2>1, RepaymentIncluded
  <2>4. ledger' \in Ledger
    BY <2>1, <2>3 DEF Ledger, InvoiceStatus, OfferStatus
  <2>5. /\ ledger'.inv = s /\ ledger'.off[x.offer] = s /\ ledger'.repaid[x.offer] = r
        /\ \A o \in Offer : o # x.offer =>
             ledger'.off[o] = ledger.off[o] /\ ledger'.repaid[o] = ledger.repaid[o]
    BY <2>1, <2>3 DEF Ledger
  <2> QED
    BY <2>2, <2>3, <2>4, <2>5, Constants DEF Advances, OfferReached, InvoiceReached, Accepted,
       Ledger, Financing, Number, InvoiceStatus, OfferStatus
<1>3. CASE Succeeds(ledger, due, x.kind, x.offer) /\ x.kind # "repay"
  <2>1. ledger' \in Ledger /\ ledger'.repaid = ledger.repaid
    BY <1>3 DEF Included, After, Ledger, Kind, OfferKind, InvoiceStatus, OfferStatus
  <2>2. \A o \in Offer : \/ ledger'.off[o] = ledger.off[o]
                         \/ ledger.off[o] = "None" /\ ledger'.off[o] = "Pending"
                         \/ ledger.off[o] = "Pending" /\ ledger'.off[o] \in {"Accepted", "Rejected"}
                         \/ ledger.off[o] \in Financing /\ ledger'.off[o] = "Defaulted"
    BY <1>3 DEF Included, After, Succeeds, Ledger, Kind, OfferKind
  <2>3. \/ ledger'.inv = ledger.inv
        \/ ledger.inv = "Pending" /\ ledger'.inv \in {"Financed", "Cancelled"}
        \/ ledger.inv = "Financed" /\ ledger'.inv = "Overdue"
        \/ ledger.inv = "Overdue" /\ ledger'.inv = "Defaulted"
    BY <1>3 DEF Included, After, Succeeds, Ledger, Kind, OfferKind
  <2> QED
    BY <2>1, <2>2, <2>3, Constants DEF Advances, OfferReached, InvoiceReached, Accepted, Ledger,
       Financing, Number, InvoiceStatus, OfferStatus
<1> QED
  BY <1>1, <1>2, <1>3

LEMMA IncludedDone ==
  ASSUME ledger \in Ledger, NEW x, x.kind \in Kind \ {"undo"},
         x.kind \in OfferKind => x.offer \in Offer, Included(x),
         Succeeds(ledger, due, x.kind, x.offer)
  PROVE  Done(x.kind, x.offer)'
BY DEF Included, After, Succeeds, Ledger, Kind, OfferKind, Done, Accepted, Financing

-----------------------------------------------------------------------------
(* Types.                                                                  *)

LEMMA ThrowTypes ==
  ASSUME TypeOK, ShapesOK, NEW t \in Task, Running(t), Throw(t)
  PROVE  /\ view' \in [Page -> ViewType]
         /\ task' \in [Task -> Handler \union {Free}]
         /\ actionId' \in [Page -> Offer \union {"none", "overdue"}]
<1> DEFINE h == task[t]
<1>1. h \in Handler /\ (h.kind \in OfferKind => h.offer \in Offer) /\ h.page \in Page
  BY RunningIsHandler DEF ShapesOK, Shape, Handler
<1>2. view[h.page] \in ViewType
  BY <1>1 DEF TypeOK, ViewType
<1>3. Rollback(view[h.page], h.kind, h.offer, h.was) \in ViewType
  BY <1>1, <1>2, ViewsStayViews DEF Handler
<1> QED
  BY <1>1, <1>3, FinishFrees DEF Throw, TypeOK, ViewType

LEMMA GotoTypes ==
  ASSUME TypeOK, NEW t \in Task, Running(t), NEW pc, Goto(t, pc),
         pc \in Early \union {"offerRow", "invoiceRow"} \union EscrowLeg
  PROVE  task' \in [Task -> Handler \union {Free}]
<1>1. [task[t] EXCEPT !.pc = pc] \in Handler
  BY RunningIsHandler DEF Handler
<1> QED
  BY <1>1 DEF TypeOK, Goto

LEMMA SupersededTypes ==
  ASSUME TypeOK, NEW p, NEW u \in Task
  PROVE  Superseded(u, p) \in Handler \union {Free}
<1>1. Running(u) => [task[u] EXCEPT !.tx = "dead"] \in Handler
  BY RunningIsHandler DEF Handler
<1> QED
  BY <1>1 DEF TypeOK, Superseded

LEMMA OrphanTypes ==
  ASSUME TypeOK, NEW t \in Task, Running(t)
  PROVE  Orphan(t) \subseteq Call
BY RunningIsHandler DEF Handler, Orphan, Call

LEMMA StartTypes ==
  ASSUME TypeOK, NEW p \in Page, NEW t \in Task, NEW k \in Kind, NEW o \in Targets(k),
         NEW n \in Amounts(k), Start(p, t, k, o, n)
  PROVE  TypeOK'
<1>1. /\ view[p] \in ViewType
      /\ [inv |-> view[p].inv, off |-> view[p].off, repaid |-> view[p].repaid] \in View
  BY DEF TypeOK, ViewType, View
<1>2. k # "undo" /\ n \in 0 .. Total /\ o \in Target /\ (k \in OfferKind => o \in Offer)
  <2>1. k # "undo"
    BY DEF Start, Offers
  <2>2. n \in 0 .. Total
    BY Constants DEF Amounts
  <2> QED
    BY <2>1, <2>2 DEF Targets, Target, OfferKind, Kind
<1>3. [page |-> p, kind |-> k, offer |-> o, amount |-> n,
       was |-> [inv |-> view[p].inv, off |-> view[p].off, repaid |-> view[p].repaid],
       pc |-> "build", tx |-> "none"] \in Handler
  BY <1>1, <1>2 DEF Handler, Early
<1>4. task' \in [Task -> Handler \union {Free}]
  BY <1>3 DEF Start, TypeOK
<1>5. Optimistic(view[p], k, o, n) \in ViewType
  BY <1>1, <1>2, ViewsStayViews
<1>6. view' \in [Page -> ViewType]
  BY <1>5 DEF Start, TypeOK, ViewType
<1>7. actionId' \in [Page -> Offer \union {"none", "overdue"}]
  BY <1>2 DEF Start, TypeOK, MarksAction, Targets, OfferKind, Kind
<1>8. started' \in 0 .. MaxTasks /\ reloads' \in 0 .. MaxReloads
      /\ overlapped' \in [Page -> BOOLEAN]
  BY Constants DEF Start, TypeOK, Busy
<1>9. UNCHANGED <<ledger, due, late, mirror, escrow>>
  BY DEF Start
<1> QED
  BY <1>4, <1>6, <1>7, <1>8, <1>9 DEF TypeOK, ViewType

LEMMA UndoTypes ==
  ASSUME TypeOK, NEW p \in Page, NEW t \in Task, NEW o \in Offer, UndoReject(p, t, o)
  PROVE  TypeOK'
<1>1. [inv |-> view[p].inv, off |-> view[p].off, repaid |-> view[p].repaid] \in View
  BY DEF TypeOK, View
<1>2. [page |-> p, kind |-> "undo", offer |-> o, amount |-> 0,
       was |-> [inv |-> view[p].inv, off |-> view[p].off, repaid |-> view[p].repaid],
       pc |-> "offerRow", tx |-> "none"] \in Handler
  BY <1>1, Constants DEF Handler, Kind, Target
<1>3. task' \in [Task -> Handler \union {Free}]
  BY <1>2 DEF UndoReject, TypeOK
<1>4. view' \in [Page -> ViewType]
  BY DEF UndoReject, TypeOK, ViewType
<1>5. started' \in 0 .. MaxTasks /\ overlapped' \in [Page -> BOOLEAN]
  BY Constants DEF UndoReject, TypeOK, Busy
<1> QED
  BY <1>3, <1>4, <1>5 DEF UndoReject, TypeOK, ViewType

(* Build, Send, Land, LandLate, Confirm, PollFails.                        *)
LEMMA CallTypes ==
  ASSUME TypeOK, ShapesOK, NEW t \in Task,
         Build(t) \/ Send(t) \/ Land(t) \/ Confirm(t) \/ PollFails(t)
  PROVE  TypeOK'
<1> DEFINE h == task[t]
<1>1. /\ Running(t) /\ h \in Handler /\ h.page \in Page /\ h.kind \in Kind
      /\ (h.kind \in OfferKind => h.offer \in Offer)
      /\ h.amount \in 0 .. Total /\ h.was \in View
  BY RunningIsHandler DEF ShapesOK, Shape, Handler, At, Build, Send, Land, Confirm, PollFails
<1>2. /\ UNCHANGED <<due, mirror, escrow, started, reloads, overlapped>>
      /\ Land(t) \/ UNCHANGED ledger
  BY DEF Build, Send, Land, Confirm, PollFails, history
<1>3. /\ task' \in [Task -> Handler \union {Free}]
      /\ view' \in [Page -> ViewType]
      /\ actionId' \in [Page -> Offer \union {"none", "overdue"}]
  <2>1. CASE Throw(t)
    BY <1>1, <2>1, ThrowTypes
  <2>2. CASE Build(t) /\ ~Throw(t)
    <3>1. [task[t] EXCEPT !.pc = "sign", !.tx = "open"] \in Handler
      BY <1>1 DEF Handler, Early
    <3>2. task' = [task EXCEPT ![t] = [task[t] EXCEPT !.pc = "sign", !.tx = "open"]]
      BY <2>2 DEF Build, TypeOK
    <3> QED
      BY <2>2, <3>1, <3>2 DEF Build, TypeOK, ViewType
  <2>3. CASE Send(t) /\ ~Throw(t)
    BY <1>1, <2>3, GotoTypes DEF Send, TypeOK, ViewType, Early
  <2>4. CASE Land(t)
    <3>1. \A s \in {"ok", "failed"} : [task[t] EXCEPT !.tx = s] \in Handler
      BY <1>1 DEF Handler
    <3> QED
      BY <2>4, <3>1, SupersededTypes DEF Land, TypeOK, ViewType
  <2>5. CASE Confirm(t)
    <3>1. view[h.page] \in ViewType
      BY <1>1 DEF TypeOK, ViewType
    <3>2. Confirmed(view[h.page], h.kind, h.offer, h.amount, h.was) \in ViewType
      BY <1>1, <3>1, ViewsStayViews
    <3>3. view' \in [Page -> ViewType]
      BY <2>5, <3>2 DEF Confirm, TypeOK, ViewType
    <3> QED
      BY <1>1, <2>5, <3>3, GotoTypes DEF Confirm, TypeOK
  <2> QED
    BY <2>1, <2>2, <2>3, <2>4, <2>5 DEF Build, Send, Land, Confirm, PollFails
<1>4. ledger' \in Ledger
  <2>1. CASE Land(t)
    BY <1>1, <2>1, IncludedAdvances DEF Land, TypeOK, Ledger, ShapesOK, Shape, At, Early
  <2> QED
    BY <1>2, <2>1 DEF TypeOK, Ledger
<1>5. late' \subseteq Call
  BY <1>1, OrphanTypes DEF Build, Send, Land, Confirm, PollFails, TypeOK, Call
<1> QED
  BY <1>2, <1>3, <1>4, <1>5 DEF TypeOK, ViewType, Ledger, Call

LEMMA LateTypes ==
  ASSUME TypeOK, ShapesOK, NEW x \in late, LandLate(x)
  PROVE  TypeOK'
<1>1. ledger' \in Ledger
  BY IncludedAdvances DEF LandLate, ShapesOK, TypeOK, Ledger, Call
<1>2. task' \in [Task -> Handler \union {Free}]
  BY SupersededTypes DEF LandLate, TypeOK
<1>3. late' \subseteq Call
  BY DEF LandLate, TypeOK, Call
<1> QED
  BY <1>1, <1>2, <1>3 DEF LandLate, TypeOK, Ledger, Call, history

LEMMA RowTypes ==
  ASSUME TypeOK, ShapesOK, NEW t \in Task, WriteOfferRow(t) \/ WriteInvoiceRow(t)
  PROVE  TypeOK'
<1> DEFINE h == task[t]
<1>1. /\ Running(t) /\ h \in Handler /\ h.page \in Page /\ h.kind \in Kind
      /\ (h.kind \in OfferKind => h.offer \in Offer)
      /\ (h.pc = "offerRow" => h.kind \in OfferKind)
      /\ view[h.page] \in ViewType
  BY RunningIsHandler DEF ShapesOK, Shape, Handler, At, WriteOfferRow, WriteInvoiceRow, TypeOK,
     ViewType
<1>2. Settled(view[h.page], h.kind, h.offer) \in ViewType
  <2> PICK w \in View : TRUE
    BY <1>1 DEF Handler
  <2>1. 0 \in 0 .. Total
    BY Constants
  <2> QED
    BY <1>1, <2>1, ViewsStayViews
<1>3. CASE WriteOfferRow(t)
  <2>1. mirror' \in [inv : InvoiceRow, off : [Offer -> OfferRow \union {"None"}],
                     escrow : [Offer -> BOOLEAN]]
    <3>1. h.offer \in Offer
      BY <1>1, <1>3 DEF WriteOfferRow, At
    <3>2. OfferRowTakes(h.kind, h.offer) =>
            [mirror EXCEPT !.off[h.offer] = OfferWrite(h.kind)] \in
              [inv : InvoiceRow, off : [Offer -> OfferRow \union {"None"}],
               escrow : [Offer -> BOOLEAN]]
      BY <3>1 DEF OfferRowTakes, TypeOK
    <3> QED
      BY <1>3, <3>2 DEF WriteOfferRow, MirrorWrite, TypeOK
  <2>5. view' \in [Page -> ViewType]
    BY <1>1, <1>2, <1>3 DEF WriteOfferRow, TypeOK, ViewType
  <2>6. /\ task' \in [Task -> Handler \union {Free}]
        /\ actionId' \in [Page -> Offer \union {"none", "overdue"}]
    BY <1>1, <1>3, GotoTypes, FinishFrees DEF WriteOfferRow, TypeOK
  <2> QED
    BY <1>3, <2>1, <2>5, <2>6 DEF WriteOfferRow, TypeOK, ViewType, history
<1>4. CASE WriteInvoiceRow(t)
  <2>1. mirror' \in [inv : InvoiceRow, off : [Offer -> OfferRow \union {"None"}],
                     escrow : [Offer -> BOOLEAN]]
    BY <1>1, <1>4 DEF WriteInvoiceRow, MirrorWrite, InvoiceRowTakes, TypeOK
  <2>2. view' \in [Page -> ViewType]
    BY <1>1, <1>2, <1>4 DEF WriteInvoiceRow, TypeOK, ViewType
  <2>3. /\ task' \in [Task -> Handler \union {Free}]
        /\ actionId' \in [Page -> Offer \union {"none", "overdue"}]
    BY <1>1, <1>4, GotoTypes, FinishFrees DEF WriteInvoiceRow, TypeOK, EscrowLeg
  <2> QED
    BY <1>4, <2>1, <2>2, <2>3 DEF WriteInvoiceRow, TypeOK, ViewType, history
<1> QED
  BY <1>3, <1>4

Leg(t) == DeployEscrow(t) \/ ResolveEscrow(t) \/ FundEscrow(t) \/ PersistEscrow(t)

LEMMA LegTypes ==
  ASSUME TypeOK, ShapesOK, NEW t \in Task, Leg(t)
  PROVE  TypeOK'
<1>1. Running(t) /\ task[t].offer \in Offer
  BY RunningIsHandler DEF ShapesOK, Shape, At, Leg, DeployEscrow, ResolveEscrow, FundEscrow,
     PersistEscrow, EscrowStep, EscrowFails, EscrowLeg, OfferKind, Kind
<1>2. /\ task' \in [Task -> Handler \union {Free}]
      /\ actionId' \in [Page -> Offer \union {"none", "overdue"}]
      /\ UNCHANGED <<ledger, due, late, view, started, reloads, overlapped>>
  BY <1>1, GotoTypes, FinishFrees DEF Leg, DeployEscrow, ResolveEscrow, FundEscrow,
     PersistEscrow, EscrowStep, EscrowFails, EscrowLeg, TypeOK, history
<1>3. escrow' \in [Offer -> [deployed : BOOLEAN, fundings : Nat]]
  <2> DEFINE o == task[t].offer
             deployed == [escrow EXCEPT ![o].deployed = TRUE]
             funded == [escrow EXCEPT ![o].fundings = @ + 1]
  <2>1. escrow' \in {escrow, deployed, funded}
    BY DEF Leg, DeployEscrow, ResolveEscrow, FundEscrow, PersistEscrow
  <2>2. deployed \in [Offer -> [deployed : BOOLEAN, fundings : Nat]]
    BY <1>1 DEF TypeOK
  <2>3. funded \in [Offer -> [deployed : BOOLEAN, fundings : Nat]]
    <3>1. [escrow[o] EXCEPT !.fundings = escrow[o].fundings + 1] \in [deployed : BOOLEAN, fundings : Nat]
      BY <1>1 DEF TypeOK
    <3>2. funded = [escrow EXCEPT ![o] = [escrow[o] EXCEPT !.fundings = escrow[o].fundings + 1]]
      BY <1>1 DEF TypeOK
    <3> QED
      BY <1>1, <3>1, <3>2 DEF TypeOK
  <2> QED
    BY <2>1, <2>2, <2>3 DEF TypeOK
<1>4. mirror' \in [inv : InvoiceRow, off : [Offer -> OfferRow \union {"None"}],
                   escrow : [Offer -> BOOLEAN]]
  <2>1. [mirror EXCEPT !.escrow[task[t].offer] = TRUE] \in
          [inv : InvoiceRow, off : [Offer -> OfferRow \union {"None"}],
           escrow : [Offer -> BOOLEAN]]
    BY <1>1 DEF TypeOK
  <2> QED
    BY <2>1 DEF Leg, DeployEscrow, ResolveEscrow, FundEscrow, PersistEscrow, TypeOK, MirrorWrite
<1> QED
  BY <1>2, <1>3, <1>4 DEF TypeOK

LEMMA ReloadTypes ==
  ASSUME TypeOK, NEW p \in Page, Reload(p)
  PROVE  TypeOK'
<1>1. Shown([inv |-> ledger.inv, off |-> mirror.off, repaid |-> Fresh.repaid]) \in ViewType
  BY DEF Shown, Fresh, TypeOK, ViewType, OfferRow, OfferStatus, InvoiceStatus
<1>2. view' \in [Page -> ViewType]
  BY <1>1 DEF Reload, TypeOK, ViewType
<1>3. task' \in [Task -> Handler \union {Free}]
  BY DEF Reload, TypeOK
<1>4. late' \subseteq Call
  BY OrphanTypes DEF Reload, TypeOK, Call
<1>5. reloads' \in 0 .. MaxReloads
  BY Constants DEF Reload, TypeOK
<1> QED
  BY <1>2, <1>3, <1>4, <1>5 DEF Reload, TypeOK, ViewType, Call

LEMMA TypeStep == ASSUME TypeOK, ShapesOK, [Next]_vars PROVE TypeOK'
<1>1. ASSUME NEW p \in Page, NEW t \in Task, NEW k \in Kind, NEW o \in Targets(k),
             NEW n \in Amounts(k), Start(p, t, k, o, n)
      PROVE  TypeOK'
  BY <1>1, StartTypes
<1>2. CASE TimePasses
  BY <1>2 DEF TimePasses, TypeOK, tasks, history
<1>3. CASE UNCHANGED vars
  BY <1>3 DEF vars, TypeOK, tasks, history
<1> QED
  BY <1>1, <1>2, <1>3, UndoTypes, CallTypes, LateTypes, RowTypes, LegTypes, ReloadTypes
     DEF Next, Leg

-----------------------------------------------------------------------------
(* What a step makes of the ledger and of a handler.                       *)

Begins(t) ==
  \E p \in Page :
    \/ \E k \in Kind : \E o \in Targets(k), n \in Amounts(k) : Start(p, t, k, o, n)
    \/ \E o \in Offer : UndoReject(p, t, o)

LEMMA Unchanging == ASSUME ledger \in Ledger, UNCHANGED ledger PROVE Advances
BY Constants DEF Advances, Ledger, OfferReached, InvoiceReached, Accepted

LEMMA LedgerAdvances == ASSUME TypeOK, ShapesOK, [Next]_vars PROVE Advances
<1>1. ledger \in Ledger
  BY DEF TypeOK, Ledger
<1>2. ASSUME NEW t \in Task, Land(t) PROVE Advances
  <2>1. task[t] \in Handler /\ Shape(task[t]) /\ task[t].pc \in Early
    BY <1>2, RunningIsHandler DEF ShapesOK, Land, At, Early
  <2> QED
    BY <1>1, <1>2, <2>1, IncludedAdvances DEF Land, Handler, Shape
<1>3. ASSUME NEW x \in late, LandLate(x) PROVE Advances
  BY <1>1, <1>3, IncludedAdvances DEF LandLate, ShapesOK, TypeOK
<1>4. CASE UNCHANGED ledger
  BY <1>1, <1>4, Unchanging
<1>5. ASSUME NEW t \in Task, Begins(t) PROVE UNCHANGED ledger
  BY <1>5 DEF Begins, Start, UndoReject
<1>6. ASSUME NEW t \in Task,
             Build(t) \/ Send(t) \/ Confirm(t) \/ PollFails(t) \/ WriteOfferRow(t)
             \/ WriteInvoiceRow(t) \/ Leg(t)
      PROVE  UNCHANGED ledger
  BY <1>6 DEF Build, Send, Confirm, PollFails, WriteOfferRow, WriteInvoiceRow, Leg,
     DeployEscrow, ResolveEscrow, FundEscrow, PersistEscrow, EscrowStep, EscrowFails
<1>7. ASSUME NEW p \in Page, Reload(p) PROVE UNCHANGED ledger
  BY <1>7 DEF Reload
<1>8. CASE TimePasses
  BY <1>4, <1>8 DEF TimePasses
<1> QED
  BY <1>2, <1>3, <1>4, <1>5, <1>6, <1>7, <1>8 DEF vars, Next, Begins, Leg

LEMMA DoneStays ==
  ASSUME Advances, NEW k \in Kind, NEW o, k \in OfferKind => o \in Offer, Done(k, o)
  PROVE  Done(k, o)'
BY DEF Advances, Done, OfferReached, InvoiceReached, OfferKind, Kind, OfferStatus,
   InvoiceStatus, Financing, Number

Same(t) ==
  /\ Running(t) /\ Running(t)'
  /\ task'[t].page = task[t].page /\ task'[t].kind = task[t].kind
  /\ task'[t].offer = task[t].offer /\ task'[t].amount = task[t].amount
  /\ task'[t].was = task[t].was

Went(t, from, to) ==
  Same(t) /\ task[t].pc = from /\ task'[t].pc = to /\ task'[t].tx = task[t].tx

(* How a handler that is running goes on.                                  *)
Continues(t) ==
  LET h == task[t] IN
  /\ Same(t)
  /\ \/ h.pc = "build" /\ task'[t].pc = "sign" /\ task'[t].tx = "open"
     \/ Went(t, "sign", "sent")
     \/ h.tx = "open" /\ task'[t].tx = "dead" /\ task'[t].pc = h.pc
     \/ /\ h.pc = "sent" /\ h.tx = "open" /\ task'[t].pc = "sent"
        /\ task'[t].tx = "ok" => Land(t) /\ Succeeds(ledger, due, h.kind, h.offer)
     \/ Went(t, "sent", "offerRow") /\ h.tx = "ok" /\ h.kind \in OfferKind
     \/ Went(t, "sent", "invoiceRow") /\ h.tx = "ok" /\ h.kind \notin OfferKind
     \/ Went(t, "offerRow", "invoiceRow") /\ h.kind \in {"accept", "repay"}
     \/ Went(t, "invoiceRow", "deploy") /\ h.kind = "accept"
     \/ Went(t, "deploy", "resolve") \/ Went(t, "resolve", "fund")
     \/ Went(t, "fund", "persist") /\ FundEscrow(t)

Moves(t) == task'[t] = task[t] \/ task'[t] = Free \/ Begins(t) \/ Continues(t)

LEMMA GotoContinues ==
  ASSUME TypeOK, NEW t \in Task, Running(t), NEW pc, Goto(t, pc)
  PROVE  Same(t) /\ Went(t, task[t].pc, pc) /\ \A u \in Task : u # t => task'[u] = task[u]
<1>1. /\ task'[t] = [task[t] EXCEPT !.pc = pc]
      /\ \A u \in Task : u # t => task'[u] = task[u]
  BY GotoKeeps
<1>2. task[t] \in Handler
  BY RunningIsHandler
<1> QED
  BY <1>1, <1>2 DEF Same, Went, Running, Handler, Free, Kind

LEMMA FinishEnds ==
  ASSUME TypeOK, NEW t \in Task, Finish(t), NEW u \in Task
  PROVE  task'[u] = IF u = t THEN Free ELSE task[u]
BY DEF TypeOK, Finish

LEMMA SupersededMoves ==
  ASSUME TypeOK, NEW p, NEW u \in Task, task'[u] = Superseded(u, p)
  PROVE  /\ Moves(u)
         /\ \/ task'[u] = task[u]
            \/ /\ Same(u) /\ task[u].tx = "open"
               /\ task'[u].tx = "dead" /\ task'[u].pc = task[u].pc
<1>1. CASE Running(u) /\ task[u].tx = "open" /\ task'[u] = [task[u] EXCEPT !.tx = "dead"]
  <2>1. task[u] \in Handler
    BY <1>1, RunningIsHandler
  <2>2. Same(u) /\ task'[u].tx = "dead" /\ task'[u].pc = task[u].pc
    BY <1>1, <2>1 DEF Same, Running, Handler, Free, Kind
  <2> QED
    BY <1>1, <2>2 DEF Moves, Continues
<1> QED
  BY <1>1 DEF Superseded, Moves

LEMMA CallMoves ==
  ASSUME TypeOK, ShapesOK, NEW t \in Task, NEW u \in Task,
         Build(t) \/ Send(t) \/ Land(t) \/ Confirm(t) \/ PollFails(t)
  PROVE  Moves(u)
<1>1. Running(t) /\ task[t] \in Handler
  BY RunningIsHandler DEF At, Build, Send, Land, Confirm, PollFails
<1>2. CASE Throw(t)
  BY <1>2, FinishEnds DEF Throw, Moves
<1>3. CASE Build(t) /\ ~Throw(t)
  <2>1. /\ task'[t] = [task[t] EXCEPT !.pc = "sign", !.tx = "open"]
        /\ u # t => task'[u] = task[u]
    BY <1>3 DEF Build, TypeOK
  <2>2. Same(t) /\ task'[t].pc = "sign" /\ task'[t].tx = "open"
    BY <1>1, <2>1 DEF Same, Running, Handler, Free, Kind
  <2> QED
    BY <1>3, <2>1, <2>2 DEF Moves, Continues, Build, At
<1>4. CASE Send(t) /\ ~Throw(t)
  BY <1>1, <1>4, GotoContinues DEF Moves, Continues, Send, At, Went
<1>5. CASE Land(t)
  <2>1. CASE u = t
    <3>1. PICK s \in {"ok", "failed"} :
            /\ task'[t] = [task[t] EXCEPT !.tx = s]
            /\ s = "ok" => Succeeds(ledger, due, task[t].kind, task[t].offer)
      BY <1>5 DEF Land
    <3>2. Same(t) /\ task'[t].pc = task[t].pc /\ task'[t].tx = s
      BY <1>1, <3>1 DEF Same, Running, Handler, Free, Kind
    <3> QED
      BY <1>5, <2>1, <3>1, <3>2 DEF Moves, Continues, Land, At
  <2>2. CASE u # t
    BY <1>5, <2>2, SupersededMoves DEF Land
  <2> QED
    BY <2>1, <2>2
<1>6. CASE Confirm(t)
  BY <1>1, <1>6, GotoContinues DEF Moves, Continues, Confirm, At, Went
<1> QED
  BY <1>2, <1>3, <1>4, <1>5, <1>6 DEF PollFails

LEMMA LegMoves ==
  ASSUME TypeOK, ShapesOK, NEW t \in Task, NEW u \in Task,
         WriteOfferRow(t) \/ WriteInvoiceRow(t) \/ Leg(t)
  PROVE  Moves(u)
<1>1. Running(t)
  BY DEF At, WriteOfferRow, WriteInvoiceRow, Leg, DeployEscrow, ResolveEscrow, FundEscrow,
     PersistEscrow, EscrowStep, EscrowFails
<1>2. CASE Finish(t)
  BY <1>2, FinishEnds DEF Moves
<1>3. CASE WriteOfferRow(t) /\ ~Finish(t)
  BY <1>1, <1>3, GotoContinues DEF Moves, Continues, WriteOfferRow, At, Went
<1>4. CASE WriteInvoiceRow(t) /\ ~Finish(t)
  BY <1>1, <1>4, GotoContinues DEF Moves, Continues, WriteInvoiceRow, At, Went
<1>5. CASE Leg(t) /\ ~Finish(t)
  <2>1. \/ EscrowStep(t, "deploy", "resolve") \/ EscrowStep(t, "resolve", "fund")
        \/ EscrowStep(t, "fund", "persist") /\ FundEscrow(t)
    BY <1>5 DEF Leg, DeployEscrow, ResolveEscrow, FundEscrow, PersistEscrow, EscrowFails
  <2> QED
    BY <1>1, <2>1, GotoContinues DEF Moves, Continues, EscrowStep, At, Went
<1> QED
  BY <1>2, <1>3, <1>4, <1>5

LEMMA HandlersMove ==
  ASSUME TypeOK, ShapesOK, [Next]_vars, NEW u \in Task
  PROVE  Moves(u)
<1>1. ASSUME NEW p \in Page, NEW t \in Task, NEW k \in Kind, NEW o \in Targets(k),
             NEW n \in Amounts(k), Start(p, t, k, o, n)
      PROVE  Moves(u)
  <2>1. u # t => task'[u] = task[u]
    BY <1>1 DEF Start, TypeOK
  <2> QED
    BY <1>1, <2>1 DEF Moves, Begins
<1>2. ASSUME NEW p \in Page, NEW t \in Task, NEW o \in Offer, UndoReject(p, t, o)
      PROVE  Moves(u)
  <2>1. u # t => task'[u] = task[u]
    BY <1>2 DEF UndoReject, TypeOK
  <2> QED
    BY <1>2, <2>1 DEF Moves, Begins
<1>3. ASSUME NEW x \in late, LandLate(x) PROVE Moves(u)
  BY <1>3, SupersededMoves DEF LandLate
<1>4. ASSUME NEW p \in Page, Reload(p) PROVE Moves(u)
  BY <1>4 DEF Reload, Moves
<1>5. CASE TimePasses \/ UNCHANGED vars
  BY <1>5 DEF TimePasses, vars, tasks, Moves
<1> QED
  BY <1>1, <1>2, <1>3, <1>4, <1>5, CallMoves, LegMoves DEF Next, Leg

-----------------------------------------------------------------------------
(* The shape of a handler, and what stands behind a confirmed one.         *)

LEMMA BeginsFresh ==
  ASSUME TypeOK, NEW t \in Task, Begins(t)
  PROVE  /\ ~Running(t) /\ Shape(task'[t]) /\ task'[t].tx = "none"
         /\ task'[t].pc = IF task'[t].kind = "undo" THEN "offerRow" ELSE "build"
<1>1. ASSUME NEW p \in Page, NEW k \in Kind, NEW o \in Targets(k), NEW n \in Amounts(k),
             Start(p, t, k, o, n)
      PROVE  /\ ~Running(t) /\ k # "undo" /\ (k \in OfferKind => o \in Offer)
             /\ task'[t].kind = k /\ task'[t].offer = o /\ task'[t].pc = "build"
             /\ task'[t].tx = "none"
  <2>1. k # "undo" /\ (k \in OfferKind => o \in Offer)
    BY <1>1 DEF Start, Offers, Targets
  <2> QED
    BY <1>1, <2>1 DEF Start, TypeOK
<1>2. ASSUME NEW p \in Page, NEW o \in Offer, UndoReject(p, t, o)
      PROVE  /\ ~Running(t) /\ task'[t].kind = "undo" /\ task'[t].offer = o
             /\ task'[t].pc = "offerRow" /\ task'[t].tx = "none"
  BY <1>2 DEF UndoReject, TypeOK
<1> QED
  BY <1>1, <1>2 DEF Begins, Shape, Early, EscrowLeg, OfferKind, Kind

LEMMA ShapesStep == ASSUME TypeOK, ShapesOK, [Next]_vars PROVE ShapesOK'
<1>1. ASSUME NEW t \in Task, Running(t)' PROVE Shape(task[t])'
  <2>1. CASE task'[t] = task[t]
    BY <1>1, <2>1 DEF ShapesOK, Running, Shape
  <2>2. CASE Begins(t)
    BY <2>2, BeginsFresh DEF Shape
  <2>3. CASE Continues(t)
    <3>1. Shape(task[t]) /\ task[t].kind \in Kind
      BY <2>3, RunningIsHandler DEF Continues, Same, ShapesOK, Handler
    <3> QED
      BY <2>3, <3>1 DEF Shape, Continues, Same, Went, Early, EscrowLeg, OfferKind, Kind
  <2> QED
    BY <1>1, <2>1, <2>2, <2>3, HandlersMove DEF Moves, Running
<1>2. ASSUME NEW x \in late'
      PROVE  x.kind # "undo" /\ (x.kind \in OfferKind => x.offer \in Offer)
  <2>1. ASSUME NEW t \in Task, Running(t), x \in Orphan(t)
        PROVE  x.kind # "undo" /\ (x.kind \in OfferKind => x.offer \in Offer)
    BY <2>1 DEF Orphan, ShapesOK, Shape, Early
  <2>2. x \in late \/ \E t \in Task : Running(t) /\ x \in Orphan(t)
    <3>1. ASSUME NEW t \in Task, Begins(t) PROVE late' = late
      BY <3>1 DEF Begins, Start, UndoReject
    <3>2. ASSUME NEW t \in Task,
                 Build(t) \/ Send(t) \/ Confirm(t) \/ WriteOfferRow(t)
                 \/ WriteInvoiceRow(t) \/ Leg(t)
          PROVE  late' = late
      BY <3>2 DEF Build, Send, Confirm, WriteOfferRow, WriteInvoiceRow, Leg,
         DeployEscrow, ResolveEscrow, FundEscrow, PersistEscrow, EscrowStep, EscrowFails
    <3>3. ASSUME NEW t \in Task, Land(t) PROVE late' \subseteq late
      BY <3>3 DEF Land
    <3>4. ASSUME NEW t \in Task, PollFails(t) PROVE late' = late \union Orphan(t) /\ Running(t)
      BY <3>4 DEF PollFails, At
    <3>5. ASSUME NEW y \in late, LandLate(y) PROVE late' \subseteq late
      BY <3>5 DEF LandLate
    <3>6. ASSUME NEW p \in Page, Reload(p)
          PROVE  x \in late \/ \E t \in Task : Running(t) /\ x \in Orphan(t)
      BY <1>2, <3>6 DEF Reload
    <3>7. CASE TimePasses \/ UNCHANGED vars
      BY <1>2, <3>7 DEF TimePasses, vars
    <3> QED
      BY <1>2, <3>1, <3>2, <3>3, <3>4, <3>5, <3>6, <3>7 DEF Next, Begins, Leg
  <2> QED
    BY <2>1, <2>2 DEF ShapesOK
<1> QED
  BY <1>1, <1>2 DEF ShapesOK

LEMMA ConfirmedStep == ASSUME LedgerInv, [Next]_vars PROVE HandlersConfirmed'
<1> SUFFICES ASSUME NEW t \in Task, Running(t)', task'[t].tx = "ok"
             PROVE  Done(task[t].kind, task[t].offer)'
  BY DEF HandlersConfirmed
<1>1. Advances
  BY LedgerAdvances DEF LedgerInv
<1>2. CASE Running(t) /\ task[t].tx = "ok" /\ task'[t].kind = task[t].kind
           /\ task'[t].offer = task[t].offer
  <2>1. task[t].kind \in Kind /\ (task[t].kind \in OfferKind => task[t].offer \in Offer)
    BY <1>2, RunningIsHandler DEF LedgerInv, ShapesOK, Shape, Handler
  <2>2. Done(task[t].kind, task[t].offer)
    BY <1>2 DEF LedgerInv, HandlersConfirmed
  <2> QED
    BY <1>1, <1>2, <2>1, <2>2, DoneStays DEF Done, Accepted
<1>3. CASE Same(t) /\ Land(t) /\ Succeeds(ledger, due, task[t].kind, task[t].offer)
  <2>1. /\ task[t].kind \in Kind \ {"undo"}
        /\ task[t].kind \in OfferKind => task[t].offer \in Offer
    BY <1>3, RunningIsHandler DEF LedgerInv, ShapesOK, Shape, Handler, Land, At, Early
  <2> QED
    BY <1>3, <2>1, IncludedDone DEF Land, LedgerInv, TypeOK, Ledger, Same, Done, Accepted
<1>4. CASE Begins(t)
  BY <1>4, BeginsFresh DEF LedgerInv
<1> QED
  BY <1>2, <1>3, <1>4, HandlersMove DEF LedgerInv, Moves, Continues, Same, Went, Running

LEMMA LedgerInvStep == ASSUME LedgerInv, [Next]_vars PROVE LedgerInv'
BY TypeStep, ShapesStep, ConfirmedStep DEF LedgerInv

LEMMA LedgerInvInit == ASSUME Init PROVE LedgerInv
<1>1. TypeOK
  <2>1. Fresh \in Ledger /\ Shown(Fresh) \in ViewType
    BY Constants DEF Fresh, Ledger, Shown, ViewType, InvoiceStatus, OfferStatus
  <2>2. Fresh.off \in [Offer -> OfferRow \union {"None"}]
    BY DEF Fresh, OfferRow
  <2> QED
    BY <2>1, <2>2, Constants DEF Init, TypeOK, Ledger, ViewType, InvoiceRow
<1>2. \A t \in Task : ~Running(t)
  BY DEF Init, Running
<1> QED
  BY <1>1, <1>2 DEF LedgerInv, ShapesOK, HandlersConfirmed, Init

-----------------------------------------------------------------------------
(* The mirror.                                                             *)

(* What a handler writes to a row is what its confirmed call has done.     *)
LEMMA WritesAreDone ==
  ASSUME LedgerInv, NEW t \in Task, WriteOfferRow(t) \/ WriteInvoiceRow(t)
  PROVE  /\ mirror'.inv = mirror.inv \/ InvoiceReached(mirror'.inv)
         /\ \A o \in Offer : mirror'.off[o] = mirror.off[o] \/ OfferReached(mirror'.off[o], o)
<1> DEFINE h == task[t]
<1>1. Running(t) /\ h.kind \in Kind /\ Shape(h)
  BY RunningIsHandler DEF LedgerInv, ShapesOK, At, WriteOfferRow, WriteInvoiceRow, Handler
<1>2. h.kind # "undo" => Done(h.kind, h.offer)
  BY <1>1 DEF LedgerInv, HandlersConfirmed, Shape, Early, At, WriteOfferRow, WriteInvoiceRow
<1>3. CASE WriteOfferRow(t)
  <2>1. h.offer \in Offer
    BY <1>1, <1>3 DEF Shape, WriteOfferRow, At
  <2>2. OfferRowTakes(h.kind, h.offer) => OfferReached(OfferWrite(h.kind), h.offer)
    BY <1>1, <1>2, <1>3 DEF OfferRowTakes, OfferWrite, OfferReached, Done, Accepted, Financing, Shape,
       WriteOfferRow, At, OfferKind, Kind
  <2>3. mirror' = mirror \/ /\ OfferRowTakes(h.kind, h.offer)
                            /\ mirror' = [mirror EXCEPT !.off[h.offer] = OfferWrite(h.kind)]
    BY <1>3 DEF WriteOfferRow, MirrorWrite
  <2> QED
    BY <2>1, <2>2, <2>3 DEF LedgerInv, TypeOK
<1>4. CASE WriteInvoiceRow(t)
  <2>1. InvoiceReached(InvoiceWrite(h.kind))
    BY <1>1, <1>2, <1>4 DEF InvoiceWrite, InvoiceReached, Done, AfterRepayment, Raw, Number,
       Shape, WriteInvoiceRow, At
  <2>2. mirror' = mirror \/ mirror' = [mirror EXCEPT !.inv = InvoiceWrite(h.kind)]
    BY <1>4 DEF WriteInvoiceRow, MirrorWrite
  <2> QED
    BY <2>1, <2>2 DEF LedgerInv, TypeOK
<1> QED
  BY <1>3, <1>4

LEMMA MirrorStep ==
  ASSUME LedgerInv, MirrorNeverAhead, [Next]_vars
  PROVE  MirrorNeverAhead'
<1>1. Advances
  BY LedgerAdvances DEF LedgerInv
<1>2. /\ mirror.inv \in InvoiceStatus
      /\ \A o \in Offer : mirror.off[o] \in OfferStatus
  BY DEF LedgerInv, TypeOK, InvoiceRow, InvoiceStatus, OfferRow, OfferStatus
<1>3. CASE mirror'.inv = mirror.inv /\ mirror'.off = mirror.off
  BY <1>1, <1>2, <1>3 DEF MirrorNeverAhead, Advances, InvoiceReached, OfferReached
<1>4. ASSUME NEW t \in Task, WriteOfferRow(t) \/ WriteInvoiceRow(t) PROVE MirrorNeverAhead'
  <2>1. ledger' = ledger
    BY <1>4 DEF WriteOfferRow, WriteInvoiceRow
  <2> QED
    BY <1>4, <2>1, WritesAreDone DEF MirrorNeverAhead, InvoiceReached, OfferReached
<1>5. ASSUME NEW t \in Task, Leg(t) PROVE mirror'.inv = mirror.inv /\ mirror'.off = mirror.off
  BY <1>5 DEF Leg, DeployEscrow, ResolveEscrow, FundEscrow, PersistEscrow, MirrorWrite,
     LedgerInv, TypeOK
<1>6. ASSUME NEW t \in Task,
             Begins(t) \/ Build(t) \/ Send(t) \/ Land(t) \/ Confirm(t) \/ PollFails(t)
      PROVE  mirror' = mirror
  BY <1>6 DEF Begins, Start, UndoReject, Build, Send, Land, Confirm, PollFails
<1>7. ASSUME NEW x \in late, LandLate(x) PROVE mirror' = mirror
  BY <1>7 DEF LandLate
<1>8. ASSUME NEW p \in Page, Reload(p) PROVE mirror' = mirror
  BY <1>8 DEF Reload
<1>9. CASE TimePasses \/ UNCHANGED vars
  BY <1>3, <1>9 DEF TimePasses, vars
<1> QED
  BY <1>3, <1>4, <1>5, <1>6, <1>7, <1>8, <1>9 DEF Next, Begins, Leg

(* No row says what the ledger has not seen, however calls time out, land  *)
(* late or are repeated (docs/06-supabase.md, a display cache).            *)
THEOREM MirrorIsNeverAhead == Spec => []MirrorNeverAhead
<1>1. Init => LedgerInv /\ MirrorNeverAhead
  BY LedgerInvInit DEF Init, MirrorNeverAhead, InvoiceReached, OfferReached, Fresh
<1>2. LedgerInv /\ MirrorNeverAhead /\ [Next]_vars => (LedgerInv /\ MirrorNeverAhead)'
  BY LedgerInvStep, MirrorStep
<1> QED
  BY <1>1, <1>2, PTL DEF Spec

(* Types of the ledger, the rows, the pages and the handlers.              *)
THEOREM TypesHold == Spec => []TypeOK
<1>1. LedgerInv => TypeOK
  BY DEF LedgerInv
<1> QED
  BY <1>1, LedgerInvInit, LedgerInvStep, PTL DEF Spec

-----------------------------------------------------------------------------
(* The pages.                                                              *)

LEMMA ViewsStaySound ==
  ASSUME TypeOK, TypeOK', Advances, NEW p \in Page, Rendered(view'[p]) = Rendered(view[p])
  PROVE  /\ SoundOffers(view[p]) => SoundOffers(view[p])'
         /\ InvoiceReached(view[p].inv) => InvoiceReached(view[p].inv)'
<1>1. /\ view[p].inv \in InvoiceStatus \union {Number}
      /\ \A o \in Offer : /\ view[p].off[o] \in OfferStatus \union {Number}
                          /\ UpToTotal(view[p].repaid[o]) \in Nat
                          /\ ledger.repaid[o] \in Nat /\ ledger'.repaid[o] \in Nat
  BY Constants DEF TypeOK, UpToTotal
<1>2. view'[p].inv = view[p].inv /\ view'[p].off = view[p].off /\ view'[p].repaid = view[p].repaid
  BY DEF Rendered
<1>3. SoundOffers(view[p]) => SoundOffers(view[p])'
  BY <1>1, <1>2 DEF SoundOffers, Advances, OfferReached, UpToTotal
<1>4. InvoiceReached(view[p].inv) => InvoiceReached(view[p].inv)'
  BY <1>1, <1>2 DEF Advances, InvoiceReached
<1> QED
  BY <1>3, <1>4

LEMMA WasStaysSound ==
  ASSUME TypeOK, TypeOK', Advances, NEW t \in Task, Running(t), task'[t].was = task[t].was
  PROVE  Sound(task[t].was) => Sound(task[t].was)'
<1> DEFINE was == task[t].was
<1>1. /\ was.inv \in InvoiceStatus \union {Number}
      /\ \A o \in Offer : /\ was.off[o] \in OfferStatus \union {Number}
                          /\ UpToTotal(was.repaid[o]) \in Nat
                          /\ ledger.repaid[o] \in Nat /\ ledger'.repaid[o] \in Nat
  BY RunningIsHandler, Constants DEF TypeOK, UpToTotal, Handler, View
<1>3. SoundOffers(was) => SoundOffers(was)'
  BY <1>1 DEF SoundOffers, Advances, OfferReached, UpToTotal
<1>4. InvoiceReached(was.inv) => InvoiceReached(was.inv)'
  BY <1>1 DEF Advances, InvoiceReached
<1> QED
  BY <1>3, <1>4 DEF Sound

(* A handler whose page stays as it is, and which has confirmed no         *)
(* repayment.                                                              *)
Unseen(t) ==
  /\ Same(t)
  /\ task'[t].pc \in Early <=> task[t].pc \in Early
  /\ task'[t].kind = "repay" /\ task'[t].tx = "ok" =>
       \/ task[t].tx = "ok"
       \/ UpToTotal(task'[t].was.repaid[task'[t].offer] + task'[t].amount)
            <= ledger'.repaid[task'[t].offer]

LEMMA ShowsStay ==
  ASSUME LedgerInv, LedgerInv', Advances, NEW t \in Task, HandlerShows(t),
         Unseen(t), Rendered(view'[task[t].page]) = Rendered(view[task[t].page])
  PROVE  HandlerShows(t)'
<1> DEFINE p == task[t].page
           h == task[t]
<1>1. /\ h \in Handler /\ task'[t] \in Handler /\ p \in Page /\ TypeOK /\ TypeOK'
      /\ task'[t].page = p /\ task'[t].kind = h.kind /\ task'[t].offer = h.offer
      /\ task'[t].amount = h.amount /\ task'[t].was = h.was
  BY RunningIsHandler DEF Unseen, Same, LedgerInv, Handler, TypeOK, Running
<1>2. Sound(h.was)'
  BY <1>1, WasStaysSound DEF HandlerShows, Unseen, Same
<1>3. h.pc \in Early => Rendered(view[h.page])' = Optimistic(h.was, h.kind, h.offer, h.amount)'
  BY <1>1 DEF HandlerShows, Optimistic, Rendered
<1>4. h.pc \notin Early => /\ SoundOffers(view[h.page])'
                           /\ h.kind # "repay" => InvoiceReached(view[h.page].inv)'
  <2>1. /\ SoundOffers(view[p]) => SoundOffers(view[p])'
        /\ InvoiceReached(view[p].inv) => InvoiceReached(view[p].inv)'
    BY <1>1, ViewsStaySound
  <2> QED
    BY <1>1, <2>1 DEF HandlerShows, SoundOffers, InvoiceReached
<1>5. h.kind = "repay" /\ h.tx = "ok" =>
        UpToTotal(h.was.repaid[h.offer] + h.amount) <= ledger'.repaid[h.offer]
  <2> SUFFICES ASSUME h.kind = "repay", h.tx = "ok"
               PROVE  UpToTotal(h.was.repaid[h.offer] + h.amount) <= ledger'.repaid[h.offer]
    OBVIOUS
  <2>1. h.offer \in Offer
    BY RunningIsHandler DEF Unseen, Same, LedgerInv, ShapesOK, Shape, OfferKind, Kind
  <2>2. /\ ledger.repaid[h.offer] \in Nat /\ ledger'.repaid[h.offer] \in Nat
        /\ h.was.repaid[h.offer] + h.amount \in Nat
    BY <1>1, <2>1, Constants DEF TypeOK, Handler, View
  <2> QED
    BY <2>1, <2>2, Constants DEF HandlerShows, Advances, UpToTotal
<1> QED
  BY <1>1, <1>2, <1>3, <1>4, <1>5 DEF HandlerShows, Unseen

(* A page on which nothing is seen of the step.                            *)
LEMMA PageKept ==
  ASSUME LedgerInv, LedgerInv', Advances, NEW q \in Page, PageSound(q),
         overlapped'[q] = overlapped[q], Rendered(view'[q]) = Rendered(view[q]),
         \A t \in Task : \/ task'[t] = task[t]
                         \/ ~On(t, q) /\ ~On(t, q)'
                         \/ Unseen(t)
  PROVE  PageSound(q)'
<1> SUFFICES ASSUME ~overlapped[q] PROVE PageSound(q)'
  BY DEF PageSound
<1>1. \A t \in Task : On(t, q)' <=> On(t, q)
  BY DEF On, Unseen, Same, Running
<1>2. Busy(q)' <=> Busy(q)
  BY <1>1 DEF Busy, On
<1>3. (\A t, u \in Task : On(t, q) /\ On(u, q) => t = u)'
  BY <1>1 DEF PageSound
<1>4. ~Busy(q)' => Sound(view[q])'
  BY <1>2, ViewsStaySound DEF PageSound, Sound, LedgerInv
<1>5. ASSUME NEW t \in Task, On(t, q)' PROVE HandlerShows(t)'
  <2>1. On(t, q) /\ HandlerShows(t) /\ Running(t) /\ task[t].page = q
    BY <1>1, <1>5 DEF PageSound, On
  <2>2. Unseen(t)
    <3>1. CASE task'[t] = task[t]
      BY <2>1, <3>1 DEF Unseen, Same, Running
    <3> QED
      BY <1>5, <2>1, <3>1
  <2> QED
    BY <2>1, <2>2, ShowsStay
<1> QED
  BY <1>3, <1>4, <1>5 DEF PageSound

(* A page whose handler ends.                                              *)
LEMMA PageCleared ==
  ASSUME PagesSound, TypeOK, NEW t \in Task, Running(t), NEW q \in Page, task[t].page = q,
         \A u \in Task : task'[u] = IF u = t THEN Free ELSE task[u],
         overlapped'[q] = overlapped[q], ~overlapped[q] => Sound(view[q])'
  PROVE  PageSound(q)'
<1> SUFFICES ASSUME ~overlapped[q] PROVE PageSound(q)'
  BY DEF PageSound
<1>1. \A u \in Task : ~On(u, q)'
  BY DEF PagesSound, PageSound, On, Running
<1> QED
  BY <1>1 DEF PageSound

(* What the handler of a page that never overlapped two shows.             *)
LEMMA RunningShows ==
  ASSUME PagesSound, TypeOK, NEW t \in Task, Running(t), ~overlapped[task[t].page]
  PROVE  HandlerShows(t)
BY RunningIsHandler DEF PagesSound, PageSound, On, Handler

LEMMA OthersKept ==
  ASSUME LedgerInv, LedgerInv', PagesSound, UNCHANGED <<ledger, overlapped>>, NEW t \in Task, Running(t),
         NEW q \in Page, q # task[t].page, view'[q] = view[q],
         \A u \in Task : u # t => task'[u] = task[u],
         task'[t] = Free \/ Same(t)
  PROVE  PageSound(q)'
<1>1. Advances
  BY Unchanging DEF LedgerInv, TypeOK, Ledger
<1>2. ~On(t, q) /\ ~On(t, q)'
  BY DEF On, Same, Running
<1> QED
  BY <1>1, <1>2, PageKept DEF PagesSound, Rendered

LEMMA OptimisticRepayment ==
  ASSUME NEW w \in View, NEW k, k = "repay", NEW o \in Offer, NEW n \in 0 .. Total
  PROVE  \A u \in Offer \ {o} : /\ Optimistic(w, k, o, n).off[u] = w.off[u]
                               /\ Optimistic(w, k, o, n).repaid[u] = w.repaid[u]
<1> DEFINE m == w.repaid[o] + n
<1>1. CASE m >= Total
  <2>1. Optimistic(w, k, o, n) = [w EXCEPT !.inv = "Repaid", !.off[o] = "Repaid", !.repaid[o] = m]
    BY <1>1 DEF Optimistic
  <2> QED
    BY <2>1 DEF View
<1>2. CASE ~(m >= Total)
  <2>1. Optimistic(w, k, o, n) = [w EXCEPT !.inv = "Financed", !.off[o] = "Financed", !.repaid[o] = m]
    BY <1>2 DEF Optimistic
  <2> QED
    BY <2>1 DEF View
<1> QED
  BY <1>1, <1>2

LEMMA RollbackSound ==
  ASSUME ledger \in Ledger, NEW v \in ViewType, NEW w \in View, NEW k \in Kind, NEW o,
         NEW n \in 0 .. Total, k \in OfferKind => o \in Offer, k # "undo", Rendered(v) = Optimistic(w, k, o, n), Sound(w)
  PROVE  Sound(Rollback(v, k, o, w))
<1> DEFINE r == Rollback(v, k, o, w)
<1>1. v.inv = Optimistic(w, k, o, n).inv /\ v.off = Optimistic(w, k, o, n).off
      /\ v.repaid = Optimistic(w, k, o, n).repaid
  BY DEF Rendered
<1>2. CASE k = "repay"
  <2>1. o \in Offer
    BY <1>2 DEF OfferKind, Kind
  <2>2. /\ r.inv = w.inv /\ r.off = [v.off EXCEPT ![o] = w.off[o]]
        /\ r.repaid = [v.repaid EXCEPT ![o] = w.repaid[o]]
    BY <1>2 DEF Rollback, ViewType
  <2>3. \A u \in Offer \ {o} : v.off[u] = w.off[u] /\ v.repaid[u] = w.repaid[u]
    BY <1>1, <1>2, <2>1, OptimisticRepayment
  <2>4. \A u \in Offer : r.off[u] = w.off[u] /\ r.repaid[u] = w.repaid[u]
    BY <2>1, <2>2, <2>3 DEF ViewType
  <2> QED
    BY <2>2, <2>4 DEF Sound, SoundOffers
<1>3. CASE k = "accept"
  <2>1. o \in Offer
    BY <1>3 DEF OfferKind, Kind
  <2>2. v.off = [w.off EXCEPT ![o] = "Accepted"] /\ v.repaid = w.repaid
    BY <1>1, <1>3 DEF Optimistic, View
  <2>3. r.inv = w.inv /\ r.off = [v.off EXCEPT ![o] = w.off[o]] /\ r.repaid = v.repaid
    BY <1>3 DEF Rollback, ViewType
  <2>4. r.off = w.off /\ r.repaid = w.repaid
    BY <2>1, <2>2, <2>3 DEF View
  <2> QED
    BY <2>3, <2>4 DEF Sound, SoundOffers
<1>4. CASE k = "submit"
  <2>1. o \in Offer
    BY <1>4 DEF OfferKind, Kind
  <2>2. v.inv = w.inv /\ v.off = [w.off EXCEPT ![o] = "Pending"] /\ v.repaid = w.repaid
    BY <1>1, <1>4 DEF Optimistic, View
  <2>3. r.inv = v.inv /\ r.off = [v.off EXCEPT ![o] = "None"] /\ r.repaid = v.repaid
    BY <1>4 DEF Rollback, ViewType
  <2>4. \A u \in Offer : r.off[u] = IF u = o THEN "None" ELSE w.off[u]
    BY <2>1, <2>2, <2>3 DEF View
  <2>5. OfferReached("None", o)
    BY DEF OfferReached, Financing, Number
  <2> QED
    BY <2>2, <2>3, <2>4, <2>5 DEF Sound, SoundOffers
<1>5. CASE k \notin {"submit", "accept", "repay"}
  BY <1>1, <1>5 DEF Rollback, Optimistic, Sound, SoundOffers
<1> QED
  BY <1>2, <1>3, <1>4, <1>5

(* What the page shows once the call is confirmed, and once the rows are   *)
(* written, is sound.                                                      *)
LEMMA ConfirmedSound ==
  ASSUME LedgerInv, NEW t \in Task, Running(t), task[t].pc = "sent", task[t].tx = "ok",
         NEW v \in ViewType, HandlerShows(t), v = view[task[t].page]
  PROVE  LET h == task[t] IN
         LET w == Confirmed(v, h.kind, h.offer, h.amount, h.was) IN
           SoundOffers(w) /\ (h.kind # "repay" => InvoiceReached(w.inv))
<1> DEFINE h == task[t]
           w == Confirmed(v, h.kind, h.offer, h.amount, h.was)
<1>1. /\ h \in Handler /\ Shape(h) /\ h.kind # "undo" /\ Done(h.kind, h.offer)
      /\ h.kind \in OfferKind => h.offer \in Offer
      /\ Rendered(v) = Optimistic(h.was, h.kind, h.offer, h.amount) /\ Sound(h.was)
      /\ h.was \in View /\ h.kind \in Kind
  BY RunningIsHandler DEF LedgerInv, ShapesOK, Shape, HandlersConfirmed, HandlerShows, Early, Handler
<1>2. /\ v.inv = Optimistic(h.was, h.kind, h.offer, h.amount).inv
      /\ v.off = Optimistic(h.was, h.kind, h.offer, h.amount).off
      /\ v.repaid = Optimistic(h.was, h.kind, h.offer, h.amount).repaid
  BY <1>1 DEF Rendered
<1>3. CASE h.kind = "repay"
  <2>1. h.offer \in Offer /\ Accepted(h.offer)
    BY <1>1, <1>3 DEF OfferKind, Done
  <2>2. /\ w.off = [v.off EXCEPT ![h.offer] = "Financed"]
        /\ w.repaid = [v.repaid EXCEPT ![h.offer] = h.was.repaid[h.offer] + h.amount]
    BY <1>3 DEF Confirmed, AfterRepayment, Raw, Number, ViewType
  <2>3. \A o \in Offer \ {h.offer} : v.off[o] = h.was.off[o] /\ v.repaid[o] = h.was.repaid[o]
    <3>1. h.amount \in 0 .. Total
      BY <1>1 DEF Handler
    <3> QED
      BY <1>1, <1>2, <1>3, <2>1, <3>1, OptimisticRepayment
  <2>4. \A o \in Offer :
          /\ w.off[o] = IF o = h.offer THEN "Financed" ELSE h.was.off[o]
          /\ w.repaid[o] = IF o = h.offer THEN h.was.repaid[o] + h.amount ELSE h.was.repaid[o]
    BY <2>1, <2>2, <2>3 DEF ViewType
  <2>5. OfferReached("Financed", h.offer)
    BY <2>1 DEF OfferReached, Accepted, Financing, Number
  <2>6. UpToTotal(h.was.repaid[h.offer] + h.amount) <= ledger.repaid[h.offer]
    BY <1>3 DEF HandlerShows
  <2> QED
    BY <1>1, <1>3, <2>4, <2>5, <2>6 DEF Sound, SoundOffers
<1>4. CASE h.kind = "accept"
  <2>1. h.offer \in Offer /\ ledger.inv \notin {"Pending", "Cancelled"}
    BY <1>1, <1>4 DEF OfferKind, Done
  <2>2. /\ v.inv = "Financed" /\ v.repaid = h.was.repaid
        /\ v.off = [h.was.off EXCEPT ![h.offer] = "Accepted"]
    BY <1>1, <1>2, <1>4 DEF Optimistic, View
  <2>3. w.inv = v.inv /\ w.off = [v.off EXCEPT ![h.offer] = Number] /\ w.repaid = v.repaid
    BY <1>4 DEF Confirmed, Raw, ViewType
  <2>4. \A o \in Offer : w.off[o] = IF o = h.offer THEN Number ELSE h.was.off[o]
    BY <1>1, <2>1, <2>2, <2>3 DEF View
  <2>5. OfferReached(Number, h.offer) /\ InvoiceReached("Financed")
    BY <2>1 DEF OfferReached, InvoiceReached, Financing, Number
  <2> QED
    BY <1>1, <2>2, <2>3, <2>4, <2>5 DEF Sound, SoundOffers
<1>5. CASE h.kind = "submit"
  <2>1. h.offer \in Offer
    BY <1>1, <1>5 DEF OfferKind
  <2>2. /\ w.inv = h.was.inv /\ w.repaid = h.was.repaid
        /\ w.off = [h.was.off EXCEPT ![h.offer] = "Pending"]
    BY <1>1, <1>2, <1>5 DEF Optimistic, Confirmed, View
  <2>3. OfferReached("Pending", h.offer)
    BY DEF OfferReached, Financing, Number
  <2> QED
    BY <1>1, <2>1, <2>2, <2>3 DEF Sound, SoundOffers, View
<1>6. CASE h.kind \in {"reject", "reclaim"}
  <2>1. h.offer \in Offer
    BY <1>1, <1>6 DEF OfferKind
  <2>2. /\ w.inv = h.was.inv /\ w.repaid = h.was.repaid
        /\ w.off = [h.was.off EXCEPT ![h.offer] = Number]
    BY <1>1, <1>2, <1>6 DEF Optimistic, Confirmed, Raw, View, ViewType
  <2>3. OfferReached(Number, h.offer)
    BY DEF OfferReached, Financing, Number
  <2> QED
    BY <1>1, <2>1, <2>2, <2>3 DEF Sound, SoundOffers, View
<1>7. CASE h.kind \in {"overdue", "cancel"}
  BY <1>1, <1>2, <1>7 DEF Optimistic, Confirmed, Sound, SoundOffers
<1> QED
  BY <1>1, <1>3, <1>4, <1>5, <1>6, <1>7 DEF Kind

LEMMA SettledSound ==
  ASSUME LedgerInv, NEW t \in Task, Running(t), HandlerShows(t),
         (task[t].pc = "offerRow" /\ task[t].kind \notin {"accept", "repay"})
           \/ task[t].pc = "invoiceRow"
  PROVE  Sound(Settled(view[task[t].page], task[t].kind, task[t].offer))
<1> DEFINE h == task[t]
           v == view[h.page]
           w == Settled(v, h.kind, h.offer)
<1>1. /\ h \in Handler /\ Shape(h) /\ (h.kind # "undo" => Done(h.kind, h.offer))
      /\ h.kind \in OfferKind => h.offer \in Offer
      /\ v \in ViewType /\ h.kind \in Kind
  BY RunningIsHandler DEF LedgerInv, TypeOK, ShapesOK, Shape, HandlersConfirmed, Early, Handler, ViewType
<1>2. SoundOffers(v) /\ (h.kind # "repay" => InvoiceReached(v.inv))
  BY DEF HandlerShows, Early
<1>3. CASE h.kind \in {"submit", "undo"}
  <2>1. h.offer \in Offer
    BY <1>1, <1>3 DEF OfferKind
  <2>2. /\ w.inv = v.inv /\ w.repaid = v.repaid
        /\ \E s \in {"Pending", Number} : w.off = [v.off EXCEPT ![h.offer] = s]
    BY <1>1, <1>3 DEF Settled, Raw, ViewType
  <2>3. OfferReached("Pending", h.offer) /\ OfferReached(Number, h.offer)
    BY DEF OfferReached, Financing, Number
  <2> QED
    BY <1>1, <1>2, <1>3, <2>1, <2>2, <2>3 DEF Sound, SoundOffers, ViewType
<1>4. CASE h.kind \in {"accept", "repay", "overdue", "cancel"}
  <2>1. w.off = v.off /\ w.repaid = v.repaid
    BY <1>1, <1>4 DEF Settled, ViewType
  <2>2. InvoiceReached(w.inv)
    BY <1>1, <1>4 DEF Settled, Raw, ViewType, InvoiceReached, Number, Done
  <2> QED
    BY <1>2, <2>1, <2>2 DEF Sound, SoundOffers
<1>5. CASE h.kind \in {"reject", "reclaim"}
  <2>1. w.inv = v.inv /\ w.off = v.off /\ w.repaid = v.repaid
    BY <1>1, <1>5 DEF Settled, ViewType
  <2> QED
    BY <1>2, <1>5, <2>1 DEF Sound, SoundOffers
<1> QED
  BY <1>1, <1>3, <1>4, <1>5 DEF Kind

LEMMA OptimisticRendered ==
  ASSUME NEW v \in ViewType, NEW k \in Kind, NEW o, NEW n \in 0 .. Total,
         k \in OfferKind => o \in Offer
  PROVE  Rendered(Optimistic(v, k, o, n)) = Optimistic(Rendered(v), k, o, n)
<1> DEFINE r == Rendered(v)
           paid == v.repaid[o] + n
<1>1. r \in View /\ r.inv = v.inv /\ r.off = v.off /\ r.repaid = v.repaid
  BY DEF Rendered, View, ViewType
<1> HIDE DEF r, paid
<1>3. CASE k = "repay"
  <2>1. CASE paid >= Total
    <3> DEFINE shown == [inv |-> "Repaid", off |-> [v.off EXCEPT ![o] = "Repaid"],
                         repaid |-> [v.repaid EXCEPT ![o] = paid]]
    <3>1. Rendered(Optimistic(v, k, o, n)) = shown
      <4>1. Optimistic(v, k, o, n) = [v EXCEPT !.inv = "Repaid", !.off[o] = "Repaid", !.repaid[o] = paid]
        BY <1>3, <2>1 DEF Optimistic, paid
      <4> QED
        BY <4>1 DEF Rendered, ViewType
    <3>2. Optimistic(r, k, o, n) = shown
      <4>1. Optimistic(r, k, o, n) = [r EXCEPT !.inv = "Repaid", !.off[o] = "Repaid", !.repaid[o] = paid]
        BY <1>1, <1>3, <2>1 DEF Optimistic, paid
      <4> QED
        BY <1>1, <4>1 DEF View
    <3> QED
      BY <3>1, <3>2 DEF r
  <2>2. CASE ~(paid >= Total)
    <3> DEFINE shown == [inv |-> "Financed", off |-> [v.off EXCEPT ![o] = "Financed"],
                         repaid |-> [v.repaid EXCEPT ![o] = paid]]
    <3>1. Rendered(Optimistic(v, k, o, n)) = shown
      <4>1. Optimistic(v, k, o, n) = [v EXCEPT !.inv = "Financed", !.off[o] = "Financed", !.repaid[o] = paid]
        BY <1>3, <2>2 DEF Optimistic, paid
      <4> QED
        BY <4>1 DEF Rendered, ViewType
    <3>2. Optimistic(r, k, o, n) = shown
      <4>1. Optimistic(r, k, o, n) = [r EXCEPT !.inv = "Financed", !.off[o] = "Financed", !.repaid[o] = paid]
        BY <1>1, <1>3, <2>2 DEF Optimistic, paid
      <4> QED
        BY <1>1, <4>1 DEF View
    <3> QED
      BY <3>1, <3>2 DEF r
  <2> QED
    BY <2>1, <2>2
<1>4. CASE k = "accept"
  <2> DEFINE shown == [inv |-> "Financed", off |-> [v.off EXCEPT ![o] = "Accepted"],
                       repaid |-> v.repaid]
  <2>1. Rendered(Optimistic(v, k, o, n)) = shown
    BY <1>4 DEF Optimistic, Rendered, ViewType
  <2>2. Optimistic(r, k, o, n) = shown
    BY <1>1, <1>4 DEF Optimistic, View
  <2> QED
    BY <2>1, <2>2 DEF r
<1>5. CASE k = "submit"
  <2> DEFINE shown == [inv |-> v.inv, off |-> [v.off EXCEPT ![o] = "Pending"],
                       repaid |-> v.repaid]
  <2>1. Rendered(Optimistic(v, k, o, n)) = shown
    BY <1>5 DEF Optimistic, Rendered, ViewType
  <2>2. Optimistic(r, k, o, n) = shown
    BY <1>1, <1>5 DEF Optimistic, View
  <2> QED
    BY <2>1, <2>2 DEF r
<1>6. CASE k \notin {"submit", "accept", "repay"}
  BY <1>6 DEF Optimistic, r
<1> QED
  BY <1>3, <1>4, <1>5, <1>6

LEMMA BeginSound ==
  ASSUME LedgerInv, LedgerInv', PagesSound, NEW p \in Page, NEW t \in Task,
         \/ \E k \in Kind : \E o \in Targets(k), n \in Amounts(k) : Start(p, t, k, o, n)
         \/ \E o \in Offer : UndoReject(p, t, o)
  PROVE  PagesSound'
<1>1. /\ ~Running(t) /\ task'[t].page = p /\ Running(t)'
      /\ \A u \in Task : u # t => task'[u] = task[u]
      /\ task'[t].was = Rendered(view[p])
      /\ \A q \in Page : q # p => view'[q] = view[q] /\ overlapped'[q] = overlapped[q]
      /\ overlapped'[p] = (overlapped[p] \/ Busy(p))
      /\ UNCHANGED ledger
  BY DEF Start, UndoReject, LedgerInv, TypeOK, Rendered, Running, Free
<1>2. Advances
  BY <1>1, Unchanging DEF LedgerInv, TypeOK, Ledger
<1>3. ASSUME NEW q \in Page, q # p PROVE PageSound(q)'
  <2>1. ~On(t, q) /\ ~On(t, q)'
    BY <1>1, <1>3 DEF On
  <2> QED
    BY <1>1, <1>2, <1>3, <2>1, PageKept DEF PagesSound, Rendered
<1>4. PageSound(p)'
  <2> SUFFICES ASSUME ~overlapped'[p] PROVE PageSound(p)'
    BY DEF PageSound
  <2>1. ~overlapped[p] /\ ~Busy(p)
    BY <1>1 DEF LedgerInv, TypeOK
  <2>2. Sound(view[p])
    BY <2>1 DEF PagesSound, PageSound
  <2>3. \A u \in Task : On(u, p)' => u = t
    BY <1>1, <2>1 DEF On, Busy, Running
  <2>4. Busy(p)'
    BY <1>1 DEF Busy
  <2>5. Sound(task'[t].was) /\ Sound(task[t].was)'
    BY <1>1, <2>2 DEF Rendered, Sound, SoundOffers, InvoiceReached, OfferReached
  <2>6. CASE \E k \in Kind : \E o \in Targets(k), n \in Amounts(k) : Start(p, t, k, o, n)
    <3> PICK k \in Kind : \E o \in Targets(k), n \in Amounts(k) : Start(p, t, k, o, n)
      BY <2>6
    <3>1. PICK o \in Targets(k), n \in Amounts(k) : Start(p, t, k, o, n)
      OBVIOUS
    <3>2. /\ task'[t].kind = k /\ task'[t].offer = o /\ task'[t].amount = n
          /\ task'[t].pc = "build" /\ task'[t].tx = "none"
          /\ view'[p] = Optimistic(view[p], k, o, n) /\ view[p] \in ViewType
      BY <3>1 DEF Start, LedgerInv, TypeOK, ViewType
    <3>3. Rendered(Optimistic(view[p], k, o, n)) = Optimistic(Rendered(view[p]), k, o, n)
      <4>1. n \in 0 .. Total
        BY Constants DEF Amounts
      <4>2. k \in OfferKind => o \in Offer
        BY DEF Targets
      <4> QED
        BY <3>2, <4>1, <4>2, OptimisticRendered
    <3>4. HandlerShows(t)'
      BY <1>1, <2>5, <3>2, <3>3 DEF HandlerShows, Early, Rendered, Optimistic
    <3> QED
      BY <2>3, <2>4, <3>4 DEF PageSound
  <2>7. CASE \E o \in Offer : UndoReject(p, t, o)
    <3>1. PICK o \in Offer : UndoReject(p, t, o)
      BY <2>7
    <3>2. /\ task'[t].kind = "undo" /\ task'[t].pc = "offerRow" /\ task'[t].tx = "none"
          /\ Rendered(view'[p]) = Rendered(view[p])
      BY <3>1 DEF UndoReject, LedgerInv, TypeOK, ViewType, Rendered
    <3>3. Sound(view[p])'
      BY <1>2, <2>2, <3>2, ViewsStaySound DEF LedgerInv, Sound
    <3>4. HandlerShows(t)'
      BY <1>1, <2>5, <3>2, <3>3 DEF HandlerShows, Early, Sound, SoundOffers, InvoiceReached
    <3> QED
      BY <2>3, <2>4, <3>4 DEF PageSound
  <2> QED
    BY <2>6, <2>7
<1> QED
  BY <1>3, <1>4 DEF PagesSound

(* A handler that throws, whatever late transactions remain.               *)
LEMMA ThrowSound ==
  ASSUME LedgerInv, LedgerInv', PagesSound, UNCHANGED <<ledger, overlapped>>, NEW t \in Task,
         Running(t), task[t].pc \in Early, Throw(t)
  PROVE  PagesSound'
<1> DEFINE h == task[t]
           p == h.page
<1>1. /\ h \in Handler /\ p \in Page /\ Shape(h) /\ h.kind # "undo" /\ view[p] \in ViewType
      /\ view'[p] = Rollback(view[p], h.kind, h.offer, h.was)
      /\ \A q \in Page : q # p => view'[q] = view[q]
      /\ \A u \in Task : task'[u] = IF u = t THEN Free ELSE task[u]
  BY RunningIsHandler, FinishEnds
     DEF LedgerInv, TypeOK, ShapesOK, Shape, Throw, Handler, ViewType
<1>2. ASSUME NEW q \in Page, q = p, ~overlapped[q] PROVE Sound(view[q])'
  <2>1. HandlerShows(t)
    BY <1>2, RunningShows DEF LedgerInv
  <2>2. /\ Rendered(view[p]) = Optimistic(h.was, h.kind, h.offer, h.amount) /\ Sound(h.was)
        /\ h.was \in View /\ h.kind \in Kind /\ h.amount \in 0 .. Total
        /\ h.kind \in OfferKind => h.offer \in Offer
    BY <1>1, <2>1 DEF HandlerShows, Handler, Shape
  <2>3. Sound(Rollback(view[p], h.kind, h.offer, h.was))
    BY <1>1, <2>2, RollbackSound DEF LedgerInv, TypeOK, Ledger
  <2>4. view'[q] = Rollback(view[p], h.kind, h.offer, h.was)
    BY <1>1, <1>2
  <2> QED
    BY <2>3, <2>4 DEF Sound, SoundOffers, InvoiceReached, OfferReached
<1>3. ASSUME NEW q \in Page PROVE PageSound(q)'
  <2>1. CASE q = p
    BY <1>1, <1>2, <2>1, PageCleared DEF LedgerInv
  <2>2. CASE q # p
    BY <1>1, <2>2, OthersKept
  <2> QED
    BY <2>1, <2>2
<1> QED
  BY <1>3 DEF PagesSound

(* A handler that goes on without touching its page.                       *)
LEMMA GoesOnUnseen ==
  ASSUME LedgerInv, LedgerInv', PagesSound, Advances, UNCHANGED <<view, overlapped>>,
         \A u \in Task : task'[u] = task[u] \/ Unseen(u)
  PROVE  PagesSound'
BY PageKept DEF PagesSound, Rendered

(* The page of a handler that ends without touching it.                    *)
LEMMA FinishSound ==
  ASSUME LedgerInv, LedgerInv', PagesSound, UNCHANGED <<ledger, overlapped>>, NEW t \in Task,
         Running(t), Finish(t), \A q \in Page : q # task[t].page => view'[q] = view[q],
         ~overlapped[task[t].page] => Sound(view'[task[t].page])
  PROVE  PagesSound'
<1> DEFINE p == task[t].page
<1>1. \A u \in Task : task'[u] = IF u = t THEN Free ELSE task[u]
  BY FinishEnds DEF LedgerInv
<1>2. ASSUME NEW q \in Page, q = p, ~overlapped[q] PROVE Sound(view[q])'
  BY <1>2 DEF Sound, SoundOffers, InvoiceReached, OfferReached
<1>3. ASSUME NEW q \in Page PROVE PageSound(q)'
  <2>1. CASE q = p
    BY <1>1, <1>2, <2>1, PageCleared DEF LedgerInv
  <2>2. CASE q # p
    BY <1>1, <2>2, OthersKept
  <2> QED
    BY <2>1, <2>2
<1> QED
  BY <1>3 DEF PagesSound

LEMMA CallSound ==
  ASSUME LedgerInv, LedgerInv', PagesSound, Advances, NEW t \in Task,
         Build(t) \/ Send(t) \/ Confirm(t) \/ PollFails(t)
  PROVE  PagesSound'
<1> DEFINE h == task[t]
<1>1. /\ Running(t) /\ h \in Handler /\ h.pc \in Early /\ Shape(h)
      /\ UNCHANGED <<ledger, overlapped>>
  BY RunningIsHandler
     DEF LedgerInv, ShapesOK, At, Early, Build, Send, Confirm, PollFails, history
<1>2. CASE Throw(t)
  BY <1>1, <1>2, ThrowSound
<1>3. CASE Build(t) /\ ~Throw(t)
  <2>1. /\ task'[t] = [h EXCEPT !.pc = "sign", !.tx = "open"]
        /\ \A u \in Task : u # t => task'[u] = task[u]
    BY <1>3 DEF Build, LedgerInv, TypeOK
  <2>2. Unseen(t)
    BY <1>1, <2>1 DEF Unseen, Same, Running, Handler, Free, Kind, Early
  <2> QED
    BY <1>1, <1>3, <2>1, <2>2, GoesOnUnseen DEF Build
<1>4. CASE Send(t) /\ ~Throw(t)
  <2>1. Same(t) /\ Went(t, h.pc, "sent") /\ \A u \in Task : u # t => task'[u] = task[u]
    BY <1>1, <1>4, GotoContinues DEF Send, LedgerInv
  <2>2. Unseen(t)
    BY <1>1, <2>1 DEF Unseen, Same, Went, Early
  <2> QED
    BY <1>1, <1>4, <2>1, <2>2, GoesOnUnseen DEF Send
<1>5. CASE Confirm(t)
  <2> DEFINE p == h.page
             w == Confirmed(view[p], h.kind, h.offer, h.amount, h.was)
  <2>1. /\ Same(t) /\ task'[t].pc \notin Early /\ task'[t].tx = "ok"
        /\ \A u \in Task : u # t => task'[u] = task[u]
    <3>1. Same(t) /\ Went(t, "sent", IF h.kind \in OfferKind THEN "offerRow" ELSE "invoiceRow")
          /\ \A u \in Task : u # t => task'[u] = task[u]
      BY <1>1, <1>5, GotoContinues DEF Confirm, LedgerInv, At
    <3> QED
      BY <1>5, <3>1 DEF Went, Early, Confirm
  <2>2. /\ p \in Page /\ view[p] \in ViewType /\ view'[p] = w
        /\ \A q \in Page : q # p => view'[q] = view[q]
    BY <1>1, <1>5 DEF Confirm, LedgerInv, TypeOK, ViewType, Handler
  <2>3. ASSUME NEW q \in Page, q # p PROVE PageSound(q)'
    BY <1>1, <2>1, <2>2, <2>3, OthersKept
  <2>4. ASSUME NEW q \in Page, q = p PROVE PageSound(q)'
    <3> SUFFICES ASSUME ~overlapped[q] PROVE PageSound(q)'
      BY <1>1 DEF PageSound
    <3>1. HandlerShows(t)
      BY <1>1, <2>4, RunningShows DEF LedgerInv
    <3>2. SoundOffers(w) /\ (h.kind # "repay" => InvoiceReached(w.inv))
      BY <1>1, <1>5, <2>2, <3>1, ConfirmedSound DEF Confirm, At
    <3>3. HandlerShows(t)'
      <4>1. Sound(h.was)
        BY <3>1 DEF HandlerShows
      <4>2. task'[t].page = p /\ task'[t].was = h.was /\ task'[t].kind = h.kind
            /\ task'[t].offer = h.offer /\ task'[t].amount = h.amount
        BY <2>1 DEF Same
      <4>3. Sound(task[t].was)'
        BY <1>1, <4>1, <4>2, WasStaysSound DEF LedgerInv
      <4>4. SoundOffers(view[task[t].page])'
        BY <1>1, <2>2, <3>2, <4>2 DEF SoundOffers, OfferReached
      <4>5. task'[t].kind # "repay" => InvoiceReached(view[task[t].page].inv)'
        BY <1>1, <2>2, <3>2, <4>2 DEF InvoiceReached
      <4>6. h.kind = "repay" =>
              UpToTotal(h.was.repaid[h.offer] + h.amount) <= ledger.repaid[h.offer]
        BY <1>5, <3>1 DEF HandlerShows, Confirm
      <4> QED
        BY <1>1, <2>1, <4>2, <4>3, <4>4, <4>5, <4>6 DEF HandlerShows
    <3>4. \A u \in Task : On(u, q)' => u = t
      BY <1>1, <2>1, <2>4 DEF PagesSound, PageSound, On, Running
    <3>5. Busy(q)'
      BY <2>1, <2>4 DEF Busy, Same
    <3> QED
      BY <3>3, <3>4, <3>5 DEF PageSound
  <2> QED
    BY <2>3, <2>4 DEF PagesSound
<1> QED
  BY <1>2, <1>3, <1>4, <1>5 DEF PollFails

(* A transaction that is included, by its handler or late.                 *)
LEMMA IncludedSound ==
  ASSUME LedgerInv, LedgerInv', PagesSound, Advances,
         (\E t \in Task : Land(t)) \/ (\E x \in late : LandLate(x))
  PROVE  PagesSound'
<1>1. UNCHANGED <<view, overlapped>>
  BY DEF Land, LandLate, history
<1>2. ASSUME NEW p, NEW u \in Task, task'[u] = Superseded(u, p)
      PROVE  task'[u] = task[u] \/ Unseen(u)
  BY <1>2, SupersededMoves DEF LedgerInv, Unseen
<1>3. ASSUME NEW t \in Task, Land(t) PROVE task'[t] = task[t] \/ Unseen(t) \/ overlapped[task[t].page]
  <2> DEFINE h == task[t]
  <2>1. /\ Running(t) /\ h \in Handler /\ Shape(h) /\ h.pc = "sent" /\ Included(h)
    BY <1>3, RunningIsHandler DEF Land, At, LedgerInv, ShapesOK
  <2>2. PICK s \in {"ok", "failed"} :
          /\ task'[t] = [h EXCEPT !.tx = s]
          /\ s = "ok" => Succeeds(ledger, due, h.kind, h.offer)
    BY <1>3 DEF Land
  <2>3. Same(t) /\ task'[t].pc = h.pc /\ task'[t].tx = s
    BY <2>1, <2>2 DEF Same, Running, Handler, Free, Kind
  <2>4. ASSUME ~overlapped[h.page], h.kind = "repay", s = "ok"
        PROVE  UpToTotal(h.was.repaid[h.offer] + h.amount) <= ledger'.repaid[h.offer]
    <3>1. h.offer \in Offer /\ h.amount \in 0 .. Total /\ h.was \in View
      BY <2>1, <2>4 DEF Shape, OfferKind, Kind, Handler
    <3>2. PICK r \in 0 .. Total :
            /\ ledger'.repaid = [ledger.repaid EXCEPT ![h.offer] = r]
            /\ r = UpToTotal(ledger.repaid[h.offer] + h.amount)
      BY <2>1, <2>2, <2>4, <3>1, RepaymentIncluded DEF LedgerInv, TypeOK, Ledger
    <3>3. UpToTotal(h.was.repaid[h.offer]) <= ledger.repaid[h.offer]
      BY <2>1, <2>4, <3>1, RunningShows DEF LedgerInv, HandlerShows, Sound, SoundOffers
    <3>4. ledger'.repaid[h.offer] = r /\ ledger.repaid[h.offer] \in 0 .. Total
      BY <3>1, <3>2 DEF LedgerInv, TypeOK
    <3>5. h.was.repaid[h.offer] \in Nat /\ h.amount \in Nat
      BY <3>1, Constants DEF View
    <3> QED
      BY <3>2, <3>3, <3>4, <3>5, Constants DEF UpToTotal
  <2> QED
    BY <2>3, <2>4 DEF Unseen, Same
<1>4. ASSUME NEW t \in Task, Land(t), NEW q \in Page PROVE PageSound(q)'
  <2>1. \A u \in Task : u # t => task'[u] = task[u] \/ Unseen(u)
    BY <1>2, <1>4 DEF Land
  <2>2. CASE overlapped[q]
    BY <1>1, <2>2 DEF PageSound
  <2>3. CASE ~overlapped[q]
    <3>1. task'[t] = task[t] \/ Unseen(t) \/ (~On(t, q) /\ ~On(t, q)')
      <4>1. CASE task[t].page = q
        BY <1>3, <1>4, <2>3, <4>1
      <4>2. CASE task[t].page # q
        <5>1. task'[t].page = task[t].page
          BY <1>4, RunningIsHandler DEF Land, At, LedgerInv, Handler
        <5> QED
          BY <4>2, <5>1 DEF On
      <4> QED
        BY <4>1, <4>2
    <3> QED
      BY <1>1, <2>1, <3>1, PageKept DEF PagesSound, Rendered
  <2> QED
    BY <2>2, <2>3
<1>5. ASSUME NEW x \in late, LandLate(x) PROVE PagesSound'
  BY <1>1, <1>2, <1>5, GoesOnUnseen DEF LandLate
<1> QED
  BY <1>4, <1>5 DEF PagesSound

LEMMA RowsSound ==
  ASSUME LedgerInv, LedgerInv', PagesSound, Advances, NEW t \in Task,
         WriteOfferRow(t) \/ WriteInvoiceRow(t)
  PROVE  PagesSound'
<1> DEFINE h == task[t]
           p == h.page
           w == Settled(view[p], h.kind, h.offer)
<1>1. /\ Running(t) /\ h \in Handler /\ h.pc \notin Early /\ p \in Page
      /\ view[p] \in ViewType /\ UNCHANGED <<ledger, overlapped>>
  BY RunningIsHandler
     DEF LedgerInv, TypeOK, ViewType, Handler, At, Early, WriteOfferRow, WriteInvoiceRow, history
<1>2. CASE WriteOfferRow(t) /\ h.kind \in {"accept", "repay"}
  <2>1. Same(t) /\ Went(t, h.pc, "invoiceRow") /\ \A u \in Task : u # t => task'[u] = task[u]
    BY <1>1, <1>2, GotoContinues DEF WriteOfferRow, LedgerInv
  <2>2. Unseen(t)
    BY <1>1, <2>1 DEF Unseen, Same, Went, Early
  <2> QED
    BY <1>1, <1>2, <2>1, <2>2, GoesOnUnseen DEF WriteOfferRow
<1>3. CASE (WriteOfferRow(t) /\ h.kind \notin {"accept", "repay"}) \/ WriteInvoiceRow(t)
  <2>1. view'[p] = w /\ \A q \in Page : q # p => view'[q] = view[q]
    BY <1>1, <1>3 DEF WriteOfferRow, WriteInvoiceRow, LedgerInv, TypeOK
  <2>2. ~overlapped[p] => Sound(w) /\ HandlerShows(t)
    BY <1>1, <1>3, SettledSound, RunningShows DEF LedgerInv, WriteOfferRow, WriteInvoiceRow, At
  <2>3. ~overlapped[p] => Sound(view'[p])
    BY <2>1, <2>2
  <2>4. CASE Finish(t)
    BY <1>1, <2>1, <2>3, <2>4, FinishSound
  <2>5. CASE WriteInvoiceRow(t) /\ h.kind = "accept" /\ Goto(t, "deploy")
    <3>1. Same(t) /\ Went(t, h.pc, "deploy") /\ \A u \in Task : u # t => task'[u] = task[u]
      BY <1>1, <2>5, GotoContinues DEF LedgerInv
    <3>2. ASSUME NEW q \in Page, q # p PROVE PageSound(q)'
      BY <1>1, <2>1, <3>1, <3>2, OthersKept
    <3>3. ASSUME NEW q \in Page, q = p PROVE PageSound(q)'
      <4> SUFFICES ASSUME ~overlapped[q] PROVE PageSound(q)'
        BY <1>1 DEF PageSound
      <4>1. /\ task'[t].page = p /\ task'[t].was = h.was /\ task'[t].kind = "accept"
            /\ task'[t].pc = "deploy" /\ Running(t)'
        BY <2>5, <3>1 DEF Same, Went
      <4>2. Sound(h.was) /\ Sound(w)
        BY <2>2, <3>3 DEF HandlerShows
      <4>3. Sound(task[t].was)'
        BY <1>1, <4>1, <4>2, WasStaysSound DEF LedgerInv
      <4>4. /\ SoundOffers(view[task[t].page])'
            /\ InvoiceReached(view[task[t].page].inv)'
        BY <1>1, <2>1, <4>1, <4>2 DEF Sound, SoundOffers, OfferReached, InvoiceReached
      <4>5. HandlerShows(t)'
        BY <4>1, <4>3, <4>4 DEF HandlerShows, Early
      <4>6. \A u \in Task : On(u, q)' => u = t
        BY <1>1, <3>1, <3>3 DEF PagesSound, PageSound, On, Running
      <4>7. Busy(q)'
        BY <3>3, <4>1 DEF Busy
      <4> QED
        BY <4>5, <4>6, <4>7 DEF PageSound
    <3> QED
      BY <3>2, <3>3 DEF PagesSound
  <2> QED
    BY <1>3, <2>4, <2>5 DEF WriteOfferRow, WriteInvoiceRow
<1> QED
  BY <1>2, <1>3

LEMMA LegSound ==
  ASSUME LedgerInv, LedgerInv', PagesSound, Advances, NEW t \in Task, Leg(t)
  PROVE  PagesSound'
<1> DEFINE h == task[t]
<1>1. /\ Running(t) /\ h \in Handler /\ h.pc \in EscrowLeg /\ h.kind = "accept"
      /\ UNCHANGED <<ledger, view, overlapped>>
  BY RunningIsHandler
     DEF LedgerInv, ShapesOK, Shape, At, EscrowLeg, Leg, DeployEscrow, ResolveEscrow,
         FundEscrow, PersistEscrow, EscrowStep, EscrowFails, history
<1>2. CASE Finish(t)
  <2>1. ~overlapped[h.page] => Sound(view[h.page])
    BY <1>1, RunningShows DEF LedgerInv, HandlerShows, Sound, EscrowLeg, Early
  <2> QED
    BY <1>1, <1>2, <2>1, FinishSound
<1>3. CASE \E pc \in EscrowLeg : Goto(t, pc)
  <2>1. PICK pc \in EscrowLeg : Goto(t, pc)
    BY <1>3
  <2>2. Same(t) /\ Went(t, h.pc, pc) /\ \A u \in Task : u # t => task'[u] = task[u]
    BY <1>1, <2>1, GotoContinues DEF LedgerInv
  <2>3. Unseen(t)
    BY <1>1, <2>2 DEF Unseen, Same, Went, Early, EscrowLeg
  <2> QED
    BY <1>1, <2>2, <2>3, GoesOnUnseen
<1> QED
  BY <1>2, <1>3 DEF Leg, DeployEscrow, ResolveEscrow, FundEscrow, PersistEscrow, EscrowStep,
     EscrowFails, EscrowLeg

LEMMA ReloadSound ==
  ASSUME LedgerInv, LedgerInv', MirrorNeverAhead, PagesSound, NEW p \in Page, Reload(p)
  PROVE  PagesSound'
<1> DEFINE shown == Shown([inv |-> ledger.inv, off |-> mirror.off, repaid |-> Fresh.repaid])
<1>1. /\ ledger' = ledger
      /\ view'[p] = shown
      /\ \A q \in Page : q # p => view'[q] = view[q] /\ overlapped'[q] = overlapped[q]
      /\ \A t \in Task : task'[t] = IF On(t, p) THEN Free ELSE task[t]
  BY DEF Reload, LedgerInv, TypeOK, On
<1>2. Advances
  BY <1>1, Unchanging DEF LedgerInv, TypeOK, Ledger
<1>3. ASSUME NEW q \in Page, q # p PROVE PageSound(q)'
  <2>1. \A t \in Task : task'[t] = task[t] \/ (~On(t, q) /\ ~On(t, q)')
    BY <1>1, <1>3 DEF On, Running
  <2> QED
    BY <1>1, <1>2, <1>3, <2>1, PageKept DEF PagesSound, Rendered
<1>4. PageSound(p)'
  <2>1. \A t \in Task : ~On(t, p)'
    BY <1>1 DEF On, Running
  <2>2. InvoiceReached(ledger.inv)
    BY DEF InvoiceReached, LedgerInv, TypeOK, InvoiceStatus
  <2>3. \A o \in Offer : UpToTotal(shown.repaid[o]) <= ledger.repaid[o]
    BY Constants DEF Shown, Fresh, UpToTotal, LedgerInv, TypeOK
  <2>4. Sound(shown)
    BY <2>2, <2>3 DEF Sound, SoundOffers, Shown, MirrorNeverAhead
  <2>5. Sound(view[p])'
    BY <1>1, <2>4 DEF Sound, SoundOffers, InvoiceReached, OfferReached
  <2> QED
    BY <2>1, <2>5 DEF PageSound
<1> QED
  BY <1>3, <1>4 DEF PagesSound

LEMMA PagesStep ==
  ASSUME LedgerInv, MirrorNeverAhead, PagesSound, [Next]_vars
  PROVE  PagesSound'
<1>1. LedgerInv' /\ Advances
  BY LedgerInvStep, LedgerAdvances DEF LedgerInv
<1>2. CASE TimePasses \/ UNCHANGED vars
  <2>1. UNCHANGED <<view, overlapped, task>>
    BY <1>2 DEF TimePasses, vars, tasks, history
  <2> QED
    BY <1>1, <2>1, GoesOnUnseen
<1>3. ASSUME NEW p \in Page, NEW t \in Task,
             \/ \E k \in Kind : \E o \in Targets(k), n \in Amounts(k) : Start(p, t, k, o, n)
             \/ \E o \in Offer : UndoReject(p, t, o)
      PROVE  PagesSound'
  BY <1>1, <1>3, BeginSound
<1> QED
  BY <1>1, <1>2, <1>3, CallSound, IncludedSound, RowsSound, LegSound, ReloadSound DEF Next, Leg

LEMMA PagesInit == ASSUME Init PROVE PagesSound
<1>1. \A t \in Task : ~Running(t)
  BY DEF Init, Running
<1>2. ASSUME NEW p \in Page PROVE Sound(view[p])
  <2>1. /\ view[p].inv = "Pending"
        /\ \A o \in Offer : /\ view[p].off[o] \in {"None", "Pending"} /\ view[p].repaid[o] = 0
                            /\ ledger.repaid[o] = 0
    BY <1>2 DEF Init, Shown, Fresh
  <2>2. UpToTotal(0) <= 0
    BY Constants DEF UpToTotal
  <2> QED
    BY <2>1, <2>2 DEF Sound, SoundOffers, InvoiceReached, OfferReached, Financing, Number
<1> QED
  BY <1>1, <1>2 DEF PagesSound, PageSound, On

(* "Rollback: revert to the previous states on failure" (OfferList.tsx): a *)
(* page at rest that never ran two handlers at once shows no status and no *)
(* repayment the ledger has not seen.                                      *)
THEOREM RollbackIsSound == Spec => []RollbackRestores
<1> DEFINE Inv == LedgerInv /\ MirrorNeverAhead /\ PagesSound
<1>1. Init => Inv
  BY LedgerInvInit, PagesInit DEF Init, MirrorNeverAhead, InvoiceReached, OfferReached, Fresh
<1>2. Inv /\ [Next]_vars => Inv'
  BY LedgerInvStep, MirrorStep, PagesStep
<1>3. Inv => RollbackRestores
  BY DEF PagesSound, PageSound, RollbackRestores, Sound, SoundOffers
<1> QED
  BY <1>1, <1>2, <1>3, PTL DEF Spec

-----------------------------------------------------------------------------
(* The escrow leg.                                                         *)

(* A second acceptance of an offer cannot succeed.                         *)
LEMMA AcceptsMoves ==
  ASSUME LedgerInv, [Next]_vars, NEW o \in Offer, NEW t \in Task, Accepts(t, o)'
  PROVE  \/ /\ Accepts(t, o)
            /\ task'[t].pc = "persist" <=> (task[t].pc = "persist" \/ Went(t, "fund", "persist"))
         \/ Land(t) /\ ledger.off[o] = "Pending" /\ task'[t].pc = "sent"
<1>1. CASE task'[t] = task[t]
  BY <1>1 DEF Accepts, Running, Went
<1>2. CASE Begins(t)
  BY <1>2, BeginsFresh DEF LedgerInv, Accepts
<1>3. CASE Continues(t)
  BY <1>3 DEF Continues, Same, Went, Accepts, Succeeds
<1> QED
  BY <1>1, <1>2, <1>3, HandlersMove DEF Moves, LedgerInv, Accepts, Running

LEMMA EscrowKept ==
  ASSUME LedgerInv, LedgerInv', EscrowInv, [Next]_vars, NEW o \in Offer,
         escrow'[o].fundings = escrow[o].fundings,
         escrow'[o].deployed => escrow[o].deployed \/ Accepted(o),
         mirror'.escrow[o] => escrow[o].fundings = 1,
         \A t \in Task : ~(Accepts(t, o) /\ Went(t, "fund", "persist"))
  PROVE  EscrowSound(o)'
<1>1. Accepted(o) => Accepted(o)'
  BY LedgerAdvances DEF LedgerInv, Advances
<1>2. EscrowSound(o)
  BY DEF EscrowInv
<1>3. ASSUME NEW t \in Task, Accepts(t, o)', ~Accepts(t, o)
      PROVE  /\ Land(t) /\ ledger.off[o] = "Pending" /\ task'[t].pc = "sent"
             /\ \A u \in Task : ~Accepts(u, o)
             /\ escrow[o].fundings = 0
  <2>1. Land(t) /\ ledger.off[o] = "Pending" /\ task'[t].pc = "sent"
    BY <1>3, AcceptsMoves
  <2>2. ~Accepted(o)
    BY <2>1 DEF Accepted, Financing
  <2>3. \A u \in Task : Accepts(u, o) => Done("accept", o)
    BY DEF LedgerInv, HandlersConfirmed, Accepts
  <2> QED
    BY <1>2, <2>1, <2>2, <2>3 DEF Done, EscrowSound
<1>4. (\A t, u \in Task : Accepts(t, o) /\ Accepts(u, o) => t = u)'
  <2> SUFFICES ASSUME NEW t \in Task, NEW u \in Task, Accepts(t, o)', Accepts(u, o)' PROVE t = u
    OBVIOUS
  <2>1. CASE Accepts(t, o) /\ Accepts(u, o)
    BY <1>2, <2>1 DEF EscrowSound
  <2>2. CASE ~Accepts(t, o) /\ ~Accepts(u, o)
    <3>1. At(t, "sent") /\ At(u, "sent") /\ Land(t) /\ Land(u)
      BY <1>3, <2>2 DEF Land
    <3>2. ASSUME t # u PROVE FALSE
      <4>1. task'[t] = Superseded(t, task[u].page)
        BY <3>1, <3>2 DEF Land
      <4>2. task'[t].tx # "ok" \/ task'[t] = task[t]
        BY <4>1, SupersededMoves DEF LedgerInv
      <4> QED
        BY <2>2, <4>2 DEF Accepts, Running
    <3> QED
      BY <3>2
  <2> QED
    BY <1>3, <2>1, <2>2
<1>5. ASSUME NEW t \in Task, Accepts(t, o)'
      PROVE  (task[t].pc = "persist" <=> escrow[o].fundings = 1)'
  <2>1. CASE Accepts(t, o)
    <3>1. task'[t].pc = "persist" <=> task[t].pc = "persist"
      BY <1>5, <2>1, AcceptsMoves DEF Went, Land, Accepts
    <3> QED
      BY <1>2, <2>1, <3>1 DEF EscrowSound
  <2>2. CASE ~Accepts(t, o)
    BY <1>3, <1>5, <2>2
  <2> QED
    BY <2>1, <2>2
<1> QED
  BY <1>1, <1>2, <1>4, <1>5 DEF EscrowSound

LEMMA LegEscrow ==
  ASSUME LedgerInv, LedgerInv', EscrowInv, [Next]_vars, NEW t \in Task, Leg(t)
  PROVE  EscrowInv'
<1> DEFINE h == task[t]
           a == h.offer
<1>1. /\ Running(t) /\ h \in Handler /\ h.kind = "accept" /\ h.tx = "ok" /\ a \in Offer
      /\ \A u \in Task : u # t => task'[u] = task[u]
      /\ ledger' = ledger
  <2>1. Running(t) /\ h.pc \in EscrowLeg /\ ledger' = ledger
    BY DEF At, EscrowLeg, Leg, DeployEscrow, ResolveEscrow, FundEscrow, PersistEscrow,
       EscrowStep, EscrowFails
  <2>2. h \in Handler /\ Shape(h)
    BY <2>1, RunningIsHandler DEF LedgerInv, ShapesOK
  <2>3. \A u \in Task : u # t => task'[u] = task[u]
    BY DEF Leg, DeployEscrow, ResolveEscrow, FundEscrow, PersistEscrow, EscrowStep, EscrowFails,
       Goto, Finish, LedgerInv, TypeOK
  <2> QED
    BY <2>1, <2>2, <2>3 DEF Shape, EscrowLeg, Early, OfferKind, Kind
<1>2. Accepts(t, a) /\ Accepted(a) /\ EscrowSound(a)
  BY <1>1 DEF Accepts, LedgerInv, HandlersConfirmed, Done, EscrowInv
<1>3. ASSUME NEW o \in Offer, o # a PROVE EscrowSound(o)'
  <2>1. escrow'[o] = escrow[o]
    BY <1>1, <1>3 DEF Leg, DeployEscrow, ResolveEscrow, FundEscrow, PersistEscrow, LedgerInv, TypeOK
  <2>2. mirror'.escrow[o] = mirror.escrow[o]
    BY <1>1, <1>3 DEF Leg, DeployEscrow, ResolveEscrow, FundEscrow, PersistEscrow, MirrorWrite,
       LedgerInv, TypeOK
  <2>3. \A u \in Task : ~(Accepts(u, o) /\ Went(u, "fund", "persist"))
    BY <1>1, <1>3 DEF Accepts, Went
  <2> QED
    BY <2>1, <2>2, <2>3, EscrowKept DEF EscrowInv, EscrowSound
<1>4. ASSUME NEW o \in Offer, o = a PROVE EscrowSound(o)'
  <2>1. CASE DeployEscrow(t) \/ ResolveEscrow(t) \/ PersistEscrow(t)
    <3>1. escrow'[o].fundings = escrow[o].fundings
      BY <1>1, <1>4, <2>1 DEF DeployEscrow, ResolveEscrow, PersistEscrow, LedgerInv, TypeOK
    <3>2. mirror'.escrow[o] => escrow[o].fundings = 1
      BY <1>2, <1>4, <2>1 DEF DeployEscrow, ResolveEscrow, PersistEscrow, MirrorWrite, EscrowFails,
         At, EscrowSound, LedgerInv, TypeOK
    <3>3. \A u \in Task : ~(Accepts(u, o) /\ Went(u, "fund", "persist"))
      <4>1. ~Went(t, "fund", "persist")
        BY <2>1 DEF Went, DeployEscrow, ResolveEscrow, PersistEscrow, EscrowStep, EscrowFails, At
      <4> QED
        BY <1>1, <4>1 DEF Accepts, Went
    <3> QED
      BY <1>2, <1>4, <3>1, <3>2, <3>3, EscrowKept
  <2>2. CASE FundEscrow(t)
    <3>1. h.pc = "fund" /\ escrow[a].fundings = 0 /\ mirror' = mirror
      BY <1>2, <2>2 DEF FundEscrow, EscrowStep, EscrowFails, At, EscrowSound
    <3>2. escrow'[a].deployed = escrow[a].deployed /\ escrow'[a].fundings \in {0, 1}
      <4> DEFINE funded == [escrow EXCEPT ![a].fundings = escrow[a].fundings + 1]
      <4>1. escrow' = escrow \/ escrow' = funded
        BY <2>2 DEF FundEscrow
      <4>2. escrow \in [Offer -> [deployed : BOOLEAN, fundings : Nat]]
        BY DEF LedgerInv, TypeOK
      <4>3. funded[a].deployed = escrow[a].deployed /\ funded[a].fundings = escrow[a].fundings + 1
        BY <1>1, <4>2
      <4>4. funded[a].fundings = 1
        BY <3>1, <4>3
      <4> HIDE DEF funded, a
      <4> QED
        BY <3>1, <4>1, <4>3, <4>4
    <3>3. \A u \in Task : Accepts(u, o) => u = t
      BY <1>2, <1>4 DEF EscrowSound
    <3>4. Accepted(o)'
      BY <1>1, <1>2, <1>4 DEF Accepted
    <3>5. ~mirror.escrow[o]
      BY <1>2, <1>4, <3>1 DEF EscrowSound
    <3>6. CASE EscrowStep(t, "fund", "persist") /\ escrow'[a].fundings = 1
      <4>1. Same(t) /\ task'[t].pc = "persist"
        BY <1>1, <3>6, GotoContinues DEF EscrowStep, LedgerInv, Went
      <4>2. \A u \in Task : Accepts(u, o)' => u = t
        BY <1>1, <3>3 DEF Accepts, Running
      <4> QED
        BY <1>4, <3>1, <3>4, <3>5, <3>6, <4>1, <4>2 DEF EscrowSound
    <3>7. CASE EscrowFails(t, "fund")
      <4>1. task'[t] = Free
        BY <3>7, FinishEnds DEF EscrowFails, LedgerInv
      <4>2. \A u \in Task : ~Accepts(u, o)'
        BY <1>1, <3>3, <4>1 DEF Accepts, Running
      <4> QED
        BY <1>4, <3>1, <3>2, <3>4, <3>5, <4>2 DEF EscrowSound
    <3>8. CASE EscrowStep(t, "fund", "persist") /\ escrow' = [escrow EXCEPT ![a].fundings = @ + 1]
      BY <1>1, <3>1, <3>6, <3>8 DEF LedgerInv, TypeOK
    <3> QED
      BY <2>2, <3>7, <3>8 DEF FundEscrow
  <2> QED
    BY <2>1, <2>2 DEF Leg
<1> QED
  BY <1>3, <1>4 DEF EscrowInv

LEMMA EscrowStepKeeps ==
  ASSUME LedgerInv, EscrowInv, [Next]_vars
  PROVE  EscrowInv'
<1>1. LedgerInv'
  BY LedgerInvStep
<1>2. CASE \E t \in Task : Leg(t)
  BY <1>1, <1>2, LegEscrow
<1>3. CASE /\ UNCHANGED escrow /\ mirror'.escrow = mirror.escrow
           /\ \A t \in Task : ~Went(t, "fund", "persist")
  BY <1>1, <1>3, EscrowKept DEF EscrowInv, EscrowSound
<1>4. ASSUME ~\E t \in Task : Leg(t)
      PROVE  UNCHANGED escrow /\ mirror'.escrow = mirror.escrow
  <2>1. ASSUME NEW t \in Task,
               Begins(t) \/ Build(t) \/ Send(t) \/ Land(t) \/ Confirm(t) \/ PollFails(t)
        PROVE  UNCHANGED <<escrow, mirror>>
    BY <2>1 DEF Begins, Start, UndoReject, Build, Send, Land, Confirm, PollFails
  <2>2. ASSUME NEW t \in Task, WriteOfferRow(t) \/ WriteInvoiceRow(t)
        PROVE  UNCHANGED escrow /\ mirror'.escrow = mirror.escrow
    BY <2>2 DEF WriteOfferRow, WriteInvoiceRow, MirrorWrite, LedgerInv, TypeOK
  <2>3. ASSUME NEW x \in late, LandLate(x) PROVE UNCHANGED <<escrow, mirror>>
    BY <2>3 DEF LandLate
  <2>4. ASSUME NEW p \in Page, Reload(p) PROVE UNCHANGED <<escrow, mirror>>
    BY <2>4 DEF Reload
  <2>5. CASE TimePasses \/ UNCHANGED vars
    BY <2>5 DEF TimePasses, vars
  <2> QED
    BY <1>4, <2>1, <2>2, <2>3, <2>4, <2>5 DEF Next, Begins, Leg
<1>5. ASSUME NEW t \in Task, Went(t, "fund", "persist") PROVE Leg(t)
  <2>1. ~Begins(t)
    BY <1>5, BeginsFresh DEF Went, Same, LedgerInv
  <2> QED
    BY <1>5, <2>1, HandlersMove DEF LedgerInv, Moves, Continues, Went, Same, Running, Leg
<1> QED
  BY <1>2, <1>3, <1>4, <1>5

(* The escrow leg is entered only for an offer accepted for good, funds at *)
(* most once, and an id in a row is one that was funded (ADR-0010).        *)
THEOREM EscrowIsFundedOnce == Spec => []EscrowFollowsAcceptance
<1> DEFINE Inv == LedgerInv /\ EscrowInv
<1>1. Init => Inv
  <2>1. ASSUME Init PROVE \A t \in Task : ~Running(t)
    BY <2>1 DEF Init, Running
  <2> QED
    BY <2>1, LedgerInvInit DEF Init, EscrowInv, EscrowSound, Accepts
<1>2. Inv /\ [Next]_vars => Inv'
  BY LedgerInvStep, EscrowStepKeeps
<1>3. Inv => EscrowFollowsAcceptance
  BY DEF EscrowInv, EscrowSound, EscrowFollowsAcceptance, Accepted
<1> QED
  BY <1>1, <1>2, <1>3, PTL DEF Spec
=============================================================================

------------------------------ MODULE MockClient ------------------------------
(***************************************************************************)
(* The SDK's in-memory client (mock.ts): one invoice with its offers, the  *)
(* token balances, the event log and the failure rules of its testing      *)
(* surface.  Parties are the originator and the lender of all offers; a    *)
(* call names the party that makes it.  Of the contracts' conditions on    *)
(* statuses (InvoiceContracts) the mock checks none.                       *)
(***************************************************************************)
EXTENDS Naturals, Sequences, FiniteSetsExt, SequencesExt

CONSTANTS Offers,
          TotalDue,               \* of every offer, in payments
          Balance,                \* the demo wallet's seeded balance
          Configured,             \* options.failures: sequence of [on, times]
          MaxCalls                \* bound on calls

Parties == {"originator", "lender"}
Times == 1        \* the times left of a one-shot rule

VARIABLES book,        \* the maps: the invoice status, offer statuses, amounts repaid
          balances,    \* position tokens of each party
          trustlines,
          events,      \* the event log: [type, names: the offer it names, amount]
          rules,       \* failures: the rules in the order they are tried
          threw,       \* did the last call throw?
              \* history: a call went through that the contracts refuse
          calls

vars == <<book, balances, trustlines, events, rules, threw, calls>>

Seed == [inv |-> "None", off |-> [o \in Offers |-> "None"], repaid |-> [o \in Offers |-> 0]]
SeedBalances == [p \in Parties |-> IF p = "lender" THEN Balance ELSE 0]

Init == /\ book = Seed /\ balances = SeedBalances /\ trustlines = {"lender"} /\ events = << >>
        /\ rules = Configured /\ threw = FALSE /\ calls = 0

-----------------------------------------------------------------------------
(* takeFailure: the first rule that matches the method is spent once.      *)
Matching(m) == {i \in DOMAIN rules : rules[i].on \in {m, "*"}}
Spent(i) == IF rules[i].times = Times THEN RemoveAt(rules, i)
                                      ELSE [rules EXCEPT ![i].times = @ - 1]

Throws == threw' = TRUE /\ UNCHANGED <<book, balances, trustlines, events>>

(* A call of method m that may go through under "allowed" (the checks the  *)
(* mock makes) and then does "effect": an injected failure comes first.    *)
Called(m, allowed, effect) ==
  /\ calls < MaxCalls /\ calls' = calls + 1
  /\ IF Matching(m) /= {} THEN rules' = Spent(Min(Matching(m))) /\ Throws
     ELSE /\ UNCHANGED rules
          /\ IF allowed THEN threw' = FALSE /\ effect ELSE Throws

Logs(type, names, amount) ==
  events' = Append(events, [type |-> type, names |-> names, amount |-> amount])

(* A call that changes the book: what is stored and what is logged.        *)
Changes(b, type, names, amount) ==
  /\ book' = b /\ Logs(type, names, amount)
  /\ UNCHANGED <<balances, trustlines>>

-----------------------------------------------------------------------------
RegisterInvoice ==
  Called("registerInvoice", book.inv = "None",
         Changes([book EXCEPT !.inv = "Pending"], "inv_reg", "none", 0))

Known(o) == book.inv /= "None" /\ book.off[o] /= "None"

CancelInvoice(p) ==
  Called("cancelInvoice", book.inv /= "None" /\ p = "originator",
         Changes([book EXCEPT !.inv = "Cancelled"], "inv_cxl", "none", 0))

CreateOffer(o) ==
  Called("createOffer", book.off[o] = "None" /\ book.inv /= "None",
         Changes([book EXCEPT !.off[o] = "Pending"], "off_new", o, 0))

Accepts(o) ==
  Changes([book EXCEPT !.off[o] = "Accepted", !.inv = "Financed"], "off_acc", o, 0)
AcceptByOriginator(o, p) ==
  Called("acceptOffer", Known(o) /\ p = "originator", Accepts(o))
\* Mutant: the event is logged before the check of the originator.
AcceptLogsFirst(o, p) ==
  Called("acceptOffer", Known(o),
         IF p = "originator" THEN Accepts(o)
         ELSE Logs("off_acc", o, 0) /\ UNCHANGED <<book, balances, trustlines>>)
AcceptOffer(o, p) == AcceptByOriginator(o, p)

RejectOffer(o, p) ==
  Called("rejectOffer", Known(o) /\ p = "originator",
         Changes([book EXCEPT !.off[o] = "Rejected"], "off_rej", o, 0))

RepayInvoice(o, amount) ==
  Called("repayInvoice", Known(o),
         LET paid == book.repaid[o] + amount
             status == IF paid >= TotalDue THEN "Repaid" ELSE "Financed"
         IN  Changes([book EXCEPT !.repaid[o] = paid, !.off[o] = status, !.inv = status],
                     "inv_rep", o, amount))

MarkOverdue ==
  Called("markOverdue", book.inv /= "None",
         Changes([book EXCEPT !.inv = "Overdue"], "inv_ovd", "none", 0))

(* reclaimInvoice leaves the invoice as it is, and its event names the     *)
(* invoice and the lender only.                                            *)
ReclaimInvoice(o, p) ==
  Called("reclaimInvoice", Known(o) /\ p = "lender",
         Changes([book EXCEPT !.off[o] = "Defaulted"], "off_def", "none", 0))

(* transferPositionToken: the receiver's balance is read after the         *)
(* sender's was written.  Mutant: both are read first.                     *)
Moved(from, to, n) ==
  LET less == [balances EXCEPT ![from] = @ - n] IN [less EXCEPT ![to] = @ + n]
MovedFromReads(from, to, n) ==
  [balances EXCEPT ![from] = balances[from] - n, ![to] = balances[to] + n]
AfterTransfer(from, to, n) == Moved(from, to, n)

TransferPositionToken(from, to, n) ==
  Called("transferPositionToken", n <= balances[from],
         balances' = AfterTransfer(from, to, n) /\ UNCHANGED <<book, trustlines, events>>)

AddPositionTrustline(p) ==
  Called("addPositionTrustline", TRUE,
         trustlines' = trustlines \cup {p} /\ UNCHANGED <<book, balances, events>>)

(* failNext puts a one-shot rule in front; reset restores the seeds and    *)
(* the configured rules, of which it kept its own copy.                    *)
FailNext(m) == /\ calls < MaxCalls /\ calls' = calls + 1
               /\ rules' = <<[on |-> m, times |-> Times]>> \o rules
               /\ UNCHANGED <<book, balances, trustlines, events, threw>>
Reset == /\ calls < MaxCalls /\ calls' = calls + 1
         /\ book' = Seed /\ balances' = SeedBalances /\ trustlines' = {"lender"}
         /\ events' = << >> /\ rules' = Configured
         /\ UNCHANGED <<threw>>

Next == \/ RegisterInvoice \/ MarkOverdue \/ Reset
        \/ \E p \in Parties : CancelInvoice(p) \/ AddPositionTrustline(p)
        \/ \E o \in Offers : CreateOffer(o) \/ \E n \in 1..TotalDue : RepayInvoice(o, n)
        \/ \E o \in Offers, p \in Parties : AcceptOffer(o, p) \/ RejectOffer(o, p) \/ ReclaimInvoice(o, p)
        \/ \E p, q \in Parties : TransferPositionToken(p, q, 1)
        \/ FailNext("acceptOffer")
Spec == Init /\ [][Next]_vars

-----------------------------------------------------------------------------
TypeOK == /\ DOMAIN book.off = Offers /\ calls \in 0..MaxCalls
          /\ trustlines \subseteq Parties /\ Len(events) <= calls

(* The log tells the state: an offer has been repaid what its events say   *)
(* and has the status its last event gives it, unless it has been defaulted *)
(* since (off_def names no offer); so a test that reads the events and one *)
(* that reads the maps see the same, also after calls that threw.          *)
Named(o) == {i \in DOMAIN events : events[i].names = o}
Paid(o) == MapThenSumSet(LAMBDA i : events[i].amount, Named(o))
StatusFrom(o) ==
  IF Named(o) = {} THEN "None"
  ELSE LET type == events[Max(Named(o))].type IN
       CASE type = "off_new" -> "Pending"
         [] type = "off_acc" -> "Accepted"
         [] type = "off_rej" -> "Rejected"
         [] type = "inv_rep" -> IF Paid(o) >= TotalDue THEN "Repaid" ELSE "Financed"
DefaultedSince(o) ==
  \E i \in DOMAIN events : events[i].type = "off_def" /\ \A j \in Named(o) : j < i
EventsTellTheState ==
  \A o \in Offers :
    /\ book.repaid[o] = Paid(o)
    /\ book.off[o] = StatusFrom(o) \/ (book.off[o] = "Defaulted" /\ DefaultedSince(o))

(* No transfer makes or loses tokens, a transfer to oneself included.      *)
TransfersConserve == balances["originator"] + balances["lender"] = Balance
(* Both: a test may trust the log, the maps and the balances alike.        *)
MockIsConsistent == EventsTellTheState /\ TransfersConserve
=============================================================================

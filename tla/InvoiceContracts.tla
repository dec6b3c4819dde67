-------------------------- MODULE InvoiceContracts --------------------------
(***************************************************************************)
(* The part of the registry, financing and repayment contracts the invoice *)
(* page relies on, for one invoice and its offers: when a call succeeds    *)
(* and what it does.  The contracts are not in this repository; this is    *)
(* what docs/03-smart-contract.md and README.md say of them.  A ledger is  *)
(* a record [inv, off, repaid]: the status of the invoice, and for each    *)
(* offer its status ("None" before create_offer) and the amount repaid.    *)
(***************************************************************************)
EXTENDS Naturals

Financing == {"Accepted", "Financed"}

(* Would the call succeed, for an invoice that is due since "due" ("no",  *)
(* "past", or "grace" once the grace period is over too)?                  *)
Succeeds(ledger, due, kind, o) ==
  CASE kind = "submit"  -> ledger.inv = "Pending" /\ ledger.off[o] = "None"
    [] kind \in {"accept", "reject"}
                        -> ledger.inv = "Pending" /\ ledger.off[o] = "Pending"
    [] kind = "repay"   -> ledger.inv = "Financed" /\ ledger.off[o] \in Financing
    [] kind = "overdue" -> ledger.inv = "Financed" /\ due # "no"
    [] kind = "reclaim" -> /\ ledger.inv = "Overdue"
                           /\ ledger.off[o] \in Financing
                           /\ due = "grace"
    [] kind = "cancel"  -> ledger.inv = "Pending"

(* The ledger after a call that succeeds; total is what offer o is due.    *)
After(ledger, kind, o, amount, total) ==
  LET both(i, s) == [ledger EXCEPT !.inv = i, !.off[o] = s] IN
  CASE kind = "submit"  -> [ledger EXCEPT !.off[o] = "Pending"]
    [] kind = "accept"  -> both("Financed", "Accepted")
    [] kind = "reject"  -> [ledger EXCEPT !.off[o] = "Rejected"]
    [] kind = "repay"   ->
         LET paid == ledger.repaid[o] + amount IN
         IF paid >= total
           THEN [both("Repaid", "Repaid") EXCEPT !.repaid[o] = total]
           ELSE [both("Financed", "Financed") EXCEPT !.repaid[o] = paid]
    [] kind = "overdue" -> [ledger EXCEPT !.inv = "Overdue"]
    [] kind = "reclaim" -> both("Defaulted", "Defaulted")
    [] kind = "cancel"  -> [ledger EXCEPT !.inv = "Cancelled"]
=============================================================================

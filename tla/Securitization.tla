--------------------------- MODULE Securitization ---------------------------
(***************************************************************************)
(* One invoice split into fractions that lenders buy (lib/securitization.ts,*)
(* 002_securitization.sql, app/securitize): the originator's pages publish *)
(* and cancel records and distribute dividends, working on what they read  *)
(* when they opened; purchases run through a procedure that locks the row. *)
(* Amounts are stroops (formatAmount and amountToStroops lose nothing).    *)
(***************************************************************************)
EXTENDS Naturals, Sequences, FiniteSetsExt

CONSTANTS
  Lenders,
  Pages,       \* the originator's open pages
  Purchases,   \* the purchases of a run
  Splits,      \* into how many fractions the invoice may be split
  Amounts,     \* dividends the originator may enter
  Currencies,
  MaxRecords, MaxDividends

VARIABLES
  records,     \* fractionalization_records of the invoice, in creation order
  held,        \* fractional_positions: fraction_count by record and lender
  points,      \* price_history: record and volume
  dividends,   \* dividend_distributions
  page,        \* each page: the record it shows (0: none), as it was read
  purchase

vars == <<records, held, points, dividends, page, purchase>>

NoRecord == [id |-> 0, status |-> "cancelled", publishing |-> FALSE]

Init ==
  /\ records = <<>> /\ points = <<>> /\ dividends = <<>>
  /\ held = [r \in 1..MaxRecords, l \in Lenders |-> 0]
  /\ page = [t \in Pages |-> NoRecord]
  /\ purchase = [q \in Purchases |-> [pc |-> "new"]]

Ids == 1..Len(records)
Open(r) == records[r].status # "cancelled"
Showing(r) == [id |-> r, status |-> records[r].status, publishing |-> FALSE]

(* fetchFractionalizationRecord, when a page opens or is loaded again.     *)
OpenPage(t) ==
  /\ ~page[t].publishing
  /\ page' = [page EXCEPT ![t] =
       IF \E r \in Ids : Open(r) THEN Showing(CHOOSE r \in Ids : Open(r)) ELSE NoRecord]
  /\ UNCHANGED <<records, held, points, dividends, purchase>>

(* Mutant: no unique index.                                                *)
PublishAnyway(t, n) ==
  /\ page[t].status = "cancelled" /\ ~page[t].publishing
  /\ Len(records) < MaxRecords
  /\ records' = Append(records, [total |-> n, available |-> n, status |-> "active"])
  /\ page' = [page EXCEPT ![t] = [id |-> Len(records'), status |-> "active", publishing |-> TRUE]]
  /\ UNCHANGED <<held, points, dividends, purchase>>

(* createFractionalization inserts the record, unless the unique index     *)
(* knows an open one.                                                      *)
Publish(t, n) ==
  /\ page[t].status = "cancelled" /\ ~page[t].publishing
  /\ Len(records) < MaxRecords
  /\ \A r \in Ids : ~Open(r)
  /\ records' = Append(records, [total |-> n, available |-> n, status |-> "active"])
  /\ page' = [page EXCEPT ![t] = [id |-> Len(records'), status |-> "active", publishing |-> TRUE]]
  /\ UNCHANGED <<held, points, dividends, purchase>>

(* recordPricePoint: price_history has no insert policy, so the first      *)
(* point is refused; the error is not looked at, and the rollback of       *)
(* createFractionalization, which waits for an exception, never runs.      *)
SeedPrice(t) ==
  /\ page[t].publishing
  /\ page' = [page EXCEPT ![t].publishing = FALSE]
  /\ UNCHANGED <<records, held, points, dividends, purchase>>

(* handleCancel: the button is there while the page shows an active record;*)
(* the status is written whatever the record has become since.             *)
Cancel(t) ==
  /\ page[t].status = "active" /\ ~page[t].publishing
  /\ records' = [records EXCEPT ![page[t].id].status = "cancelled"]
  /\ page' = [page EXCEPT ![t].status = "cancelled"]
  /\ UNCHANGED <<held, points, dividends, purchase>>

(* purchaseFraction reads the record and checks it before the procedure.   *)
StartPurchase(q, l, r, n) ==
  /\ purchase[q].pc = "new"
  /\ records[r].status = "active" /\ n <= records[r].available
  /\ purchase' = [purchase EXCEPT ![q] =
       [pc |-> "rpc", lender |-> l, record |-> r, count |-> n]]
  /\ UNCHANGED <<records, held, points, dividends, page>>

StatusOf(available) == IF available = 0 THEN "sold_out" ELSE "active"

(* Mutants: the procedure leaves the status to the caller's check; a       *)
(* repeat buyer's position is overwritten.                                 *)
AddUnchecked(q) ==
  LET p == purchase[q] IN
  /\ p.pc = "rpc" /\ p.count <= records[p.record].available
  /\ records' = [records EXCEPT ![p.record].available = @ - p.count,
                   ![p.record].status = StatusOf(records[p.record].available - p.count)]
  /\ held' = [held EXCEPT ![<<p.record, p.lender>>] = @ + p.count]
  /\ points' = Append(points, [record |-> p.record, volume |-> p.count])
  /\ purchase' = [purchase EXCEPT ![q].pc = "bought"]
  /\ UNCHANGED <<dividends, page>>
AddOverwrites(q) ==
  LET p == purchase[q] IN
  /\ p.pc = "rpc"
  /\ records[p.record].status = "active" /\ p.count <= records[p.record].available
  /\ records' = [records EXCEPT ![p.record].available = @ - p.count,
                   ![p.record].status = StatusOf(records[p.record].available - p.count)]
  /\ held' = [held EXCEPT ![<<p.record, p.lender>>] = p.count]
  /\ points' = Append(points, [record |-> p.record, volume |-> p.count])
  /\ purchase' = [purchase EXCEPT ![q].pc = "bought"]
  /\ UNCHANGED <<dividends, page>>

(* add_fractional_position, one transaction on the locked record.          *)
AddFractionalPosition(q) ==
  LET p == purchase[q] IN
  /\ p.pc = "rpc"
  /\ \/ /\ records[p.record].status = "active" /\ p.count <= records[p.record].available
        /\ records' = [records EXCEPT ![p.record].available = @ - p.count,
                         ![p.record].status = StatusOf(records[p.record].available - p.count)]
        /\ held' = [held EXCEPT ![<<p.record, p.lender>>] = @ + p.count]
        /\ points' = Append(points, [record |-> p.record, volume |-> p.count])
        /\ purchase' = [purchase EXCEPT ![q].pc = "bought"]
     \/ /\ ~(records[p.record].status = "active" /\ p.count <= records[p.record].available)
        /\ purchase' = [purchase EXCEPT ![q].pc = "failed"]
        /\ UNCHANGED <<records, held, points>>
  /\ UNCHANGED <<dividends, page>>

(* Mutant: the share is rounded up.                                        *)
ShareRoundedUp(amount, fractions) == (amount + fractions - 1) \div fractions

Share(amount, fractions) == amount \div fractions

(* createDividend, for the record the page shows.                          *)
Distribute(t, amount, currency) ==
  /\ page[t].status # "cancelled" /\ ~page[t].publishing
  /\ Len(dividends) < MaxDividends
  /\ dividends' = Append(dividends,
       [record |-> page[t].id, total |-> amount, currency |-> currency,
        share |-> Share(amount, records[page[t].id].total)])
  /\ UNCHANGED <<records, held, points, page, purchase>>

Next ==
  \/ \E t \in Pages :
       \/ OpenPage(t) \/ SeedPrice(t) \/ Cancel(t)
       \/ \E n \in Splits : Publish(t, n)
       \/ \E a \in Amounts, c \in Currencies : Distribute(t, a, c)
  \/ \E q \in Purchases :
       \/ AddFractionalPosition(q)
       \/ \E l \in Lenders, r \in Ids : \E n \in 1..records[r].total :
            StartPurchase(q, l, r, n)

Spec == Init /\ [][Next]_vars

-----------------------------------------------------------------------------
(* What the pages show.                                                    *)

Distributed(r) == {i \in 1..Len(dividends) : dividends[i].record = r}

(* buildPositionViews: what the fractions of a lender have earned, counting*)
(* every dividend of the record, whenever the fractions were bought.       *)
Earned(r, l, currency) ==
  held[r, l] * MapThenSumSet(LAMBDA i : dividends[i].share,
                 {i \in Distributed(r) : dividends[i].currency = currency})

Held(r) == MapThenSumSet(LAMBDA l : held[r, l], Lenders)

-----------------------------------------------------------------------------
(* Properties                                                              *)

TypeOK ==
  /\ \A r \in Ids :
       /\ records[r].total \in Splits /\ records[r].available \in 0..records[r].total
       /\ records[r].status \in {"active", "sold_out", "cancelled"}
  /\ \A t \in Pages : page[t].id \in 0..Len(records)
  /\ \A q \in Purchases : purchase[q].pc \in {"new", "rpc", "bought", "failed"}

(* Whatever purchases, cancellations and publications overlap, every       *)
(* fraction of a record is either still available or held by one lender,   *)
(* the price history has as much volume as was sold, and at most one       *)
(* record of the invoice is open.                                          *)
SupplyIsConserved ==
  /\ \A r \in Ids :
       /\ records[r].available + Held(r) = records[r].total
       /\ Held(r) = MapThenSumSet(LAMBDA i : points[i].volume,
                                  {i \in 1..Len(points) : points[i].record = r})
  /\ \A r, s \in Ids : Open(r) /\ Open(s) => r = s

(* "No new purchases can be made": after a cancellation nothing of the     *)
(* record is sold, not even by a purchase that had checked it before, and  *)
(* the record stays cancelled.                                             *)
StaysClosed ==
  \A r \in Ids : ~Open(r) =>
    /\ records'[r] = records[r]
    /\ \A l \in Lenders : held'[r, l] = held[r, l]

NoSaleAfterCancel == [][StaysClosed]_vars

(* "never promises more than total_amount": what the lenders of a record   *)
(* are shown to have earned is covered by what was distributed.            *)
DividendsAreCovered ==
  \A r \in Ids, c \in Currencies :
    MapThenSumSet(LAMBDA l : Earned(r, l, c), Lenders)
      <= MapThenSumSet(LAMBDA i : dividends[i].total,
                       {i \in Distributed(r) : dividends[i].currency = c})
=============================================================================

------------------------------ MODULE Matching -------------------------------
(***************************************************************************)
(* The invoice-lender matching engine (lib/matching.ts) over the rows and  *)
(* the repayment records useMatchedInvoices.ts fetches.  Days are whole,   *)
(* amounts whole XLM below 10^7; scores are rounded half up, the rounding  *)
(* error of the floating-point sums left out.                              *)
(***************************************************************************)
EXTENDS Integers, Sequences, FiniteSetsExt

CONSTANTS Rows,       \* pending invoices: [id, originator, xlm, currency, days, source]
          Prefs,      \* preferences a lender can save: [risk, currency, minYield, min, max, maxDays]
          Limit, MinScore,   \* options of useMatchedInvoices
          MaxOffers   \* bound: settled or running offers per originator

\* Stands for NaN: no day count, yield or score has this value.
NaN == -1000000

Originators == {r.originator : r \in Rows}

VARIABLES prefs,    \* the preferences of the page
          rows,     \* invoices with status Pending
          record    \* per originator: [total, repaid, defaulted] of its offers

vars == <<prefs, rows, record>>

Clean == [total |-> 0, repaid |-> 0, defaulted |-> 0]

Init == prefs \in Prefs /\ rows = {} /\ record = [o \in Originators |-> Clean]

-----------------------------------------------------------------------------
\* The value of the first band whose limit x does not exceed; NaN exceeds every limit.
Band(bands, default, x) ==
  LET fits == {k \in DOMAIN bands : x # NaN /\ x <= bands[k][1]}
  IN IF fits = {} THEN default ELSE bands[Min(fits)][2]

\* What the engine reads in a row.  The mock store holds stroops and a Unix
\* time.  The mirror holds display units, taken for stroops, and a timestamp
\* string, which is not a number.
Xlm(row)  == IF row.source = "mirror" THEN row.xlm \div 10000000 ELSE row.xlm
Days(row) == IF row.source = "mirror" THEN NaN ELSE row.days

Rounded(n, d) == (2 * n + d) \div (2 * d)
Least(a, b) == IF a < b THEN a ELSE b
Most(a, b) == IF a > b THEN a ELSE b

Weights == [conservative |-> <<30, 15, 10, 30, 15>>,
            moderate     |-> <<20, 15, 25, 20, 20>>,
            aggressive   |-> <<15, 10, 40, 15, 20>>]

\* computeRiskScore, doubled: the mean of an amount and a duration score,
\* mirrored for an aggressive lender.
RiskTwice(row, p) ==
  LET amount == Band(<< <<10000, 100>>, <<50000, 80>>, <<100000, 55>>, <<500000, 30>> >>, 10, Xlm(row))
      horizon == Band(<< <<-1, 5>>, <<6, 30>>, <<29, 70>>, <<89, 90>> >>, 75, Days(row))
  IN IF p.risk = "aggressive" THEN 200 - (amount + horizon) ELSE amount + horizon

CurrencyScore(row, p) == IF p.currency \in {"both", row.currency} THEN 100 ELSE 20

\* estimateYieldBps: the base rate of the amount's tier and a bonus for a longer term.
EstimateYield(row) ==
  IF Days(row) = NaN THEN NaN
  ELSE Band(<< <<10000, 500>>, <<100000, 800>> >>, 1200, Xlm(row))
       + Least(200, 40 * (Most(0, Days(row)) \div 30))

YieldScore(row, p) ==
  LET est == EstimateYield(row)  min == p.minYield
  IN CASE min = 0 -> 100
       [] min # 0 /\ est = NaN -> NaN
       [] min # 0 /\ est # NaN /\ est >= min -> Least(100, 80 + Least(20, (20 * (est - min)) \div min))
       [] OTHER -> Rounded(80 * est, min)

\* The points a record loses for its defaults.
Penalty(r) == Least(40, 10 * r.defaulted)
\* Mutant: the penalty counts the repaid offers.
PenaltyOnRepaid(r) == Least(40, 10 * r.repaid)

Lost(r) == Penalty(r)

\* computeHistoryScore: the repayment rate, less the penalty, with a bonus for volume.
HistoryScore(r) ==
  LET base == 100 * r.repaid - Lost(r) * r.total
      bonus(n, points, at) == IF r.repaid >= at THEN Least(100 * r.total, n + points * r.total) ELSE n
  IN IF r.total = 0 THEN 50
     ELSE Most(0, Rounded(bonus(bonus(base, 10, 5), 5, 10), r.total))

\* computeDurationScore: zero when overdue, a linear penalty beyond the horizon.
DurationScore(row, p) ==
  LET d == Days(row)  over == d - p.maxDays
  IN CASE d = NaN -> 60
       [] d # NaN /\ d < 0 -> 0
       [] d # NaN /\ d >= 0 /\ p.maxDays > 0 /\ d > p.maxDays ->
            Rounded(80 * (p.maxDays - Least(over, p.maxDays)), p.maxDays)
       [] OTHER -> Band(<< <<0, 10>>, <<6, 50>>, <<89, 100>>, <<179, 80>> >>, 60, d)

\* scoreInvoice: the weighted sum, NaN as soon as one part is.
Score(row, p, r) ==
  LET w == Weights[p.risk]  y == YieldScore(row, p)
  IN IF y = NaN THEN NaN
     ELSE Rounded(w[1] * RiskTwice(row, p)
                  + 2 * (w[2] * CurrencyScore(row, p) + w[3] * y
                         + w[4] * HistoryScore(r) + w[5] * DurationScore(row, p)), 200)

\* matchInvoices: the hard filters on the amount, then the score; NaN is below every minimum.
Candidates(p, rs, rec) ==
  {row \in rs : /\ p.min > 0 => Xlm(row) >= p.min
                /\ p.max > 0 => Xlm(row) <= p.max
                /\ Score(row, p, rec[row.originator]) # NaN
                /\ Score(row, p, rec[row.originator]) >= MinScore}

\* a is listed before b: by score, then by the sooner due date.
Before(a, b, p, rec) ==
  LET sa == Score(a, p, rec[a.originator])  sb == Score(b, p, rec[b.originator])
  IN sa > sb \/ (sa = sb /\ Days(a) # NaN /\ Days(b) # NaN /\ Days(a) < Days(b))

\* A row is suggested when fewer than Limit candidates are listed before it.
Suggested(p, rs, rec) ==
  {row \in Candidates(p, rs, rec) :
     Cardinality({x \in Candidates(p, rs, rec) : Before(x, row, p, rec)}) < Limit}

-----------------------------------------------------------------------------
\* The lender saves preferences; an invoice is registered or leaves Pending.
Save(p) == prefs' = p /\ p # prefs /\ UNCHANGED <<rows, record>>

Register(row) ==
  /\ row \notin rows /\ \A x \in rows : x.id # row.id
  /\ rows' = rows \cup {row} /\ UNCHANGED <<prefs, record>>

Leave(row) == row \in rows /\ rows' = rows \ {row} /\ UNCHANGED <<prefs, record>>

\* fetchOriginatorHistory counts one more offer that is Financed, Repaid or Defaulted.
Counted(r, status) == [total     |-> r.total + 1,
                       repaid    |-> r.repaid + (IF status = "Repaid" THEN 1 ELSE 0),
                       defaulted |-> r.defaulted + (IF status = "Defaulted" THEN 1 ELSE 0)]

OfferSettles(o, status) ==
  /\ record[o].total < MaxOffers
  /\ record' = [record EXCEPT ![o] = Counted(@, status)]
  /\ UNCHANGED <<prefs, rows>>

Next == \/ \E p \in Prefs : Save(p)
        \/ \E row \in Rows : Register(row) \/ Leave(row)
        \/ \E o \in Originators, s \in {"Financed", "Repaid", "Defaulted"} : OfferSettles(o, s)

Spec == Init /\ [][Next]_vars

-----------------------------------------------------------------------------
\* The record never counts more outcomes than offers.
TypeOK == /\ prefs \in Prefs /\ rows \subseteq Rows
          /\ \A o \in Originators : record[o].repaid + record[o].defaulted <= record[o].total

\* A score is a percentage; one more repaid offer never lowers it, one more
\* default never raises it, and asking for a higher yield never raises it:
\* the caps and the bonuses do not turn the order of two records around.
ScoringIsSound ==
  \A row \in rows : LET r == record[row.originator]  s(p, rec) == Score(row, p, rec) IN
    s(prefs, r) # NaN =>
      /\ s(prefs, r) \in 0..100
      /\ s(prefs, Counted(r, "Repaid")) >= s(prefs, r)
      /\ s(prefs, Counted(r, "Defaulted")) <= s(prefs, r)
      /\ \A p \in Prefs : [p EXCEPT !.minYield = 0] = [prefs EXCEPT !.minYield = 0]
                          /\ p.minYield > prefs.minYield => s(p, r) <= s(prefs, r)

\* useMatchedInvoices.ts, on minScore: "Defaults to 1 (show everything that
\* scores > 0)".  A row of the mirror is suggested whenever the same invoice
\* held by the mock store would be.
MirrorRowsAreMatched ==
  \A row \in rows : row.source = "mirror" =>
    LET twin == [row EXCEPT !.source = "mock"]
    IN twin \in Suggested(prefs, {twin}, record) => row \in Suggested(prefs, {row}, record)
=============================================================================

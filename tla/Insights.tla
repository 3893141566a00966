------------------------------ MODULE Insights ------------------------------
(***************************************************************************)
(* What InsightsService composes of the aggregates, and the search of      *)
(* transactions.  Currencies and the order of equal entries in a list are  *)
(* left out.                                                               *)
(***************************************************************************)
EXTENDS Analytics

\* "Resolved bounds: requested dates win; otherwise what the data spans."
SpendingSummary(q, totals, categories, merchants) ==
    LET start == IF q.start # <<>> THEN q.start ELSE totals.first
        end == IF q.end # <<>> THEN q.end ELSE totals.last
        days == IF start # <<>> /\ end # <<>> THEN Ordinal(end) - Ordinal(start) + 1 ELSE 0
    IN  [start |-> start, end |-> end, days |-> days,
         spending |-> totals.spending, income |-> totals.income, net |-> totals.spending - totals.income,
         average |-> IF totals.outflows = 0 THEN <<>> ELSE <<RoundHalfEven(totals.spending, totals.outflows)>>,
         daily |-> IF days = 0 THEN <<>> ELSE <<RoundHalfEven(totals.spending, days)>>,
         top_category |-> IF categories = <<>> THEN <<>>
                          ELSE <<NameOf(categories[1].group), categories[1].total>>,
         top_merchant |-> IF merchants = <<>> THEN <<>> ELSE <<merchants[1].merchant, merchants[1].total>>]

\* Mutant: the previous period ends on the day the current one starts.
DefaultPeriodsTouching(today) ==
    LET comparison_start == <<today[1], today[2], 1>>
        last == DayBefore(comparison_start)
    IN  <<<<<<last[1], last[2], 1>>, comparison_start>>, <<comparison_start, today>>>>

\* The previous full month, and the current month to date.
DefaultPeriods(today) ==
    LET comparison_start == <<today[1], today[2], 1>>
        baseline_end == DayBefore(comparison_start)
    IN  <<<<<<baseline_end[1], baseline_end[2], 1>>, baseline_end>>, <<comparison_start, today>>>>

\* The dictionaries are keyed by name: of several groups with one name the
\* last stays.
ByName(groups) ==
    [n \in {NameOf(groups[i].group) : i \in DOMAIN groups} |->
       groups[Max({i \in DOMAIN groups : NameOf(groups[i].group) = n})].total]

CategoryChanges(base_groups, comp_groups) ==
    LET base == ByName(base_groups) comp == ByName(comp_groups)
        at(f, n) == IF n \in DOMAIN f THEN f[n] ELSE 0
    IN  [n \in DOMAIN base \cup DOMAIN comp |->
           [base |-> at(base, n), comp |-> at(comp, n), change |-> at(comp, n) - at(base, n),
            pct |-> IF at(base, n) = 0 THEN <<>> ELSE <<Pct(at(comp, n) - at(base, n), at(base, n))>>]]

CompareSpending(base, comp, base_groups, comp_groups) ==
    [baseline |-> base.spending, comparison |-> comp.spending,
     change |-> comp.spending - base.spending,
     pct |-> IF base.spending = 0 THEN <<>> ELSE <<Pct(comp.spending - base.spending, base.spending)>>,
     categories |-> CategoryChanges(base_groups, comp_groups)]

-----------------------------------------------------------------------------
(* Recurring transactions                                                  *)

CADENCE_BANDS == <<<<5, 9, "weekly">>, <<12, 17, "biweekly">>, <<26, 35, "monthly">>,
                   <<80, 100, "quarterly">>, <<350, 380, "yearly">>>>
GAP_TOLERANCE_DAYS == 4

RecurringCandidates(rows, user, since, min_occurrences) ==
    LET S == {t \in rows : t.user = user /\ t.amount > 0 /\ t.merchant # NoMerchant /\ since <= Ordinal(t.date)}
    IN  {t \in S : Cardinality({u \in S : u.merchant = t.merchant}) >= min_occurrences}

Abs(n) == IF n < 0 THEN -n ELSE n

\* statistics.median, doubled.
Median2(sorted) ==
    LET n == Len(sorted)
    IN  IF n % 2 = 1 THEN 2 * sorted[(n + 1) \div 2] ELSE sorted[n \div 2] + sorted[(n \div 2) + 1]

\* Mutant: only the band of the median gap is looked at.
SteadyAny(gaps) == TRUE

\* Every gap is near the median gap.
Steady(gaps) == \A i \in DOMAIN gaps : Abs(2 * gaps[i] - Median2(SortSeq(gaps, <))) <= 2 * GAP_TOLERANCE_DAYS

\* The amount in the middle, the upper one of two, and +-20% of it.
SteadyAmounts(amounts) ==
    LET median == amounts[(Len(amounts) \div 2) + 1]
    IN  \A i \in DOMAIN amounts : 5 * Abs(amounts[i] - median) <= median

\* One merchant's charges: the recurring item, or none.
DetectPattern(charges, min_occurrences) ==
    LET dates == SetToSortSeq({Ordinal(t.date) : t \in charges}, <)
        gaps == [i \in 1..(Len(dates) - 1) |-> dates[i + 1] - dates[i]]
        median2 == Median2(SortSeq(gaps, <))
        bands == SelectSeq(CADENCE_BANDS, LAMBDA b : 2 * b[1] <= median2 /\ median2 <= 2 * b[2])
        ordered == SetToSortSeq(charges, LAMBDA a, b : a.amount < b.amount)
        amounts == [i \in DOMAIN ordered |-> ordered[i].amount]
    IN  IF Len(dates) < min_occurrences \/ ~Steady(gaps) \/ bands = <<>> \/ ~SteadyAmounts(amounts) THEN {}
        ELSE {[merchant |-> ordered[1].merchant, cadence |-> bands[1][3],
               average |-> RoundHalfEven(Spending(charges), Cardinality(charges)),
               occurrences |-> Len(dates), first |-> dates[1], last |-> Last(dates),
               next |-> Last(dates) + RoundHalfEven(median2, 2)]}

RecurringItems(candidates, min_occurrences) ==
    UNION {DetectPattern({t \in candidates : t.merchant = m}, min_occurrences) : m \in {t.merchant : t \in candidates}}

-----------------------------------------------------------------------------
(* TransactionRepository.search                                            *)

\* categorization.classify: codes with a fixed meaning, and the sign.
Classify(category, amount) ==
    CASE category = <<>> -> "unknown"
      [] category # <<>> /\ category[1] = "INCOME" -> "income"
      [] category # <<>> /\ category[1] \in {"TRANSFER_IN", "TRANSFER_OUT", "LOAN_PAYMENTS"} -> "transfer"
      [] category # <<>> /\ category[1] = "BANK_FEES" -> "fee"
      [] OTHER -> IF amount < 0 THEN "refund" ELSE "expense"

\* A filter is <<>> when it is not given and <<value>> when it is; the empty
\* list is a filter nothing passes.
Among(filter, x) == filter = <<>> \/ x \in filter[1]

\* The conditions.  A merchant filter is the set of names that contain the
\* text, literally and whatever the case, which is what the escaped ILIKE
\* selects; the labels are a semi-join.
Matching(rows, q, f) ==
    {t \in rows : /\ t.user = q.user
                  /\ Among(f.accounts, t.account)
                  /\ Among(f.categories, t.category)
                  /\ Among(f.classifications, Classify(t.category, t.amount))
                  /\ Among(f.merchants, t.merchant)
                  /\ f.labels # <<>> => t.labels \cap f.labels[1] # {}
                  /\ q.start # <<>> => NotAfter(q.start, t.date)
                  /\ q.end # <<>> => NotAfter(t.date, q.end)
                  /\ f.min # <<>> => f.min[1] <= t.amount
                  /\ f.max # <<>> => t.amount <= f.max[1]}

\* PostgreSQL puts NULL after everything, so first in a descending order.
SortKey(t, sort_by) ==
    CASE sort_by = "transaction_date" -> Ordinal(t.date)
      [] sort_by = "amount" -> t.amount
      [] sort_by = "merchant_name" -> IF t.merchant = NoMerchant THEN 1000000 ELSE t.merchant

KeyBefore(a, b, f) ==
    IF f.desc THEN SortKey(a, f.sort_by) > SortKey(b, f.sort_by) ELSE SortKey(a, f.sort_by) < SortKey(b, f.sort_by)

\* Mutant: rows with equal keys come in any order.
RowBeforeNoTiebreak(a, b, f) == KeyBefore(a, b, f)

\* "id as tiebreaker keeps pagination stable across equal sort keys".
RowBefore(a, b, f) == KeyBefore(a, b, f) \/ (~KeyBefore(b, a, f) /\ a.id < b.id)

\* What LIMIT and OFFSET can leave of the ordered rows.
Pages(rows, q, f, page) ==
    LET offset == (page - 1) * f.page_size
    IN  {SubSeq(o, offset + 1, IF offset + f.page_size < Len(o) THEN offset + f.page_size ELSE Len(o)) :
           o \in Orders(Matching(rows, q, f), LAMBDA a, b : RowBefore(a, b, f))}

Counted(rows, q, f) ==
    [total |-> Cardinality(Matching(rows, q, f)),
     amount |-> MapThenSumSet(LAMBDA t : t.amount, Matching(rows, q, f))]

TotalPages(total, page_size) == (total + page_size - 1) \div page_size

=============================================================================

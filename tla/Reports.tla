------------------------------ MODULE Reports -------------------------------
(***************************************************************************)
(* The read side: a request of AnalyticsService, InsightsService or        *)
(* TransactionQueryService runs its SELECTs one after the other in a READ  *)
(* COMMITTED session, and transaction syncs and changes of the category    *)
(* mappings commit between them.  A client walks the pages of a search with*)
(* one request after the other.                                            *)
(*                                                                         *)
(* A scenario fixes the rows at the start, the rows a sync can bring, the  *)
(* mappings a user can set, and the requests.                              *)
(***************************************************************************)
EXTENDS Insights

CONSTANTS
    Today,
    Scenarios,
    MaxCommits     \* commits that can come between (a bound)

ASSUME ReportsAssumption ==
    /\ MaxCommits \in Nat
    /\ \A s \in Scenarios : \A t, u \in s.rows : t.id = u.id => t = u
    /\ \A s \in Scenarios : \A r \in s.requests :
         /\ r.q.start # <<>> /\ r.q.end # <<>> => NotAfter(r.q.start, r.q.end)
         /\ r.kind = "mom" => r.months >= 2
         /\ r.kind = "recurring" => r.min_occurrences >= 2
         /\ r.kind = "search" => r.f.page_size >= 1

VARIABLES
    scenario,
    rows,        \* committed transactions
    mappings,    \* committed category mappings
    req,         \* the request, Idle: none
    page,        \* the page a search asks for
    seen,        \* rows of the pages before it
    got,         \* what the SELECTs have returned
    response,    \* <<>> until the request is answered
    torn,        \* history: a commit came after the request began
    commits

vars == <<scenario, rows, mappings, req, page, seen, got, response, torn, commits>>

Idle == [kind |-> "idle"]

TypeOK ==
    /\ req \in scenario.requests \cup {Idle}
    /\ \A t, u \in rows : t.id = u.id => t = u
    /\ \A m, n \in mappings : m.user = n.user /\ m.category = n.category => m = n
    /\ Len(got) <= 4 /\ Len(response) <= 1
    /\ req = Idle => got = <<>> /\ response = <<>>
    /\ commits \in 0..MaxCommits
    /\ torn \in BOOLEAN

-----------------------------------------------------------------------------
(* Commits of others                                                       *)

\* A sync adds, changes or removes a transaction.
SyncCommits ==
    /\ commits < MaxCommits
    /\ \/ \E t \in scenario.brought \ rows : rows' = {u \in rows : u.id # t.id} \cup {t}
       \/ \E t \in scenario.brought \cap rows : rows' = rows \ {t}
    /\ commits' = commits + 1
    /\ torn' = TRUE
    /\ UNCHANGED <<scenario, mappings, req, page, seen, got, response>>

\* "Create the mapping, or repoint it if one already exists".
MappingCommits ==
    /\ commits < MaxCommits
    /\ \E m \in scenario.mapped \ mappings :
         mappings' = {n \in mappings : n.user # m.user \/ n.category # m.category} \cup {m}
    /\ commits' = commits + 1
    /\ torn' = TRUE
    /\ UNCHANGED <<scenario, rows, req, page, seen, got, response>>

-----------------------------------------------------------------------------
(* Requests                                                                *)

Begin(r) ==
    /\ req = Idle
    /\ req' = r
    /\ page' = 1
    /\ torn' = FALSE
    /\ UNCHANGED <<scenario, rows, mappings, seen, got, response, commits>>

\* A SELECT returns; the request goes on.
Select(result) ==
    /\ got' = Append(got, result)
    /\ UNCHANGED <<scenario, rows, mappings, req, page, seen, response, torn, commits>>

\* The last SELECT has returned.
Answer(result) ==
    /\ response' = <<result>>
    /\ UNCHANGED <<scenario, rows, mappings, req, page, seen, got, torn, commits>>

Open(kind, selects) == req.kind = kind /\ response = <<>> /\ Len(got) = selects

\* monthly_spending, category_breakdown, top_merchants and month_over_month.
MonthlySpending == Open("monthly", 0) /\ Answer(MonthlyTotals(rows, req.q))

CategoryBreakdown ==
    /\ Open("breakdown", 0)
    /\ \E groups \in CategoryTotals(rows, mappings, req.q) : Answer(Breakdown(groups))

TopMerchants == Open("merchants", 0) /\ Answer(MerchantTotals(rows, req.q, req.limit))

\* From the first of the first month, with no end.
MonthsReport ==
    LET start == ShiftMonth(MonthOf(Today), -(req.months - 1))
        totals == MonthlyTotals(rows, Query(req.q.user, <<start[1], start[2], 1>>, <<>>, None))
    IN  Open("mom", 0) /\ Answer(MonthOverMonth(totals, start, req.months))

\* get_spending_summary: no transactions, no further SELECTs.
SummaryTotals == Open("summary", 0) /\ Select(PeriodTotals(rows, req.q))

\* Mutant: the top category is that of all history and all accounts.
SummaryCategoriesAllTime ==
    /\ Open("summary", 1)
    /\ \/ got[1].count = 0 /\ Answer(SpendingSummary(req.q, got[1], <<>>, <<>>))
       \/ /\ got[1].count > 0
          /\ \E groups \in CategoryTotals(rows, mappings, Query(req.q.user, <<>>, <<>>, None)) : Select(groups)

SummaryCategories ==
    /\ Open("summary", 1)
    /\ \/ got[1].count = 0 /\ Answer(SpendingSummary(req.q, got[1], <<>>, <<>>))
       \/ /\ got[1].count > 0
          /\ \E groups \in CategoryTotals(rows, mappings, req.q) : Select(groups)

SummaryMerchants ==
    /\ Open("summary", 2)
    /\ Answer(SpendingSummary(req.q, got[1], got[2], MerchantTotals(rows, req.q, 1)))

\* compare_spending: the totals of both periods, then the categories of both.
Periods == IF req.periods = <<>> THEN DefaultPeriods(Today) ELSE req.periods
PeriodQuery(i) == Query(req.q.user, Periods[i][1], Periods[i][2], None)

CompareTotals ==
    /\ req.kind = "compare" /\ response = <<>> /\ Len(got) < 2
    /\ Select(PeriodTotals(rows, PeriodQuery(Len(got) + 1)))

CompareCategories ==
    /\ Open("compare", 2)
    /\ \E groups \in CategoryTotals(rows, mappings, PeriodQuery(1)) : Select(groups)

CompareAnswer ==
    /\ Open("compare", 3)
    /\ \E groups \in CategoryTotals(rows, mappings, PeriodQuery(2)) :
         Answer(CompareSpending(got[1], got[2], got[3], groups))

Recurring ==
    /\ Open("recurring", 0)
    /\ Answer(RecurringItems(RecurringCandidates(rows, req.q.user, Ordinal(Today) - req.lookback_days,
                                                 req.min_occurrences),
                             req.min_occurrences))

\* list_transactions: the count, then the page.
SearchCount == Open("search", 0) /\ Select(Counted(rows, req.q, req.f))

SearchPage ==
    /\ Open("search", 1)
    /\ \E items \in Pages(rows, req.q, req.f, page) :
         Answer([items |-> items, total |-> got[1].total, amount |-> got[1].amount,
                 total_pages |-> TotalPages(got[1].total, req.f.page_size)])

\* The client asks for the next page.
NextPage ==
    /\ req.kind = "search" /\ response # <<>>
    /\ page < response[1].total_pages
    /\ page' = page + 1
    /\ seen' = seen \o response[1].items
    /\ got' = <<>> /\ response' = <<>>
    /\ UNCHANGED <<scenario, rows, mappings, req, torn, commits>>

Close ==
    /\ response # <<>>
    /\ req' = Idle /\ page' = 1 /\ seen' = <<>> /\ got' = <<>> /\ response' = <<>>
    /\ UNCHANGED <<scenario, rows, mappings, torn, commits>>

-----------------------------------------------------------------------------

Init ==
    /\ scenario \in Scenarios
    /\ rows = scenario.rows
    /\ mappings = {}
    /\ req = Idle
    /\ page = 1
    /\ seen = <<>>
    /\ got = <<>>
    /\ response = <<>>
    /\ torn = FALSE
    /\ commits = 0

Next ==
    \/ SyncCommits
    \/ MappingCommits
    \/ \E r \in scenario.requests : Begin(r)
    \/ MonthlySpending
    \/ CategoryBreakdown
    \/ TopMerchants
    \/ MonthsReport
    \/ SummaryTotals
    \/ SummaryCategories
    \/ SummaryMerchants
    \/ CompareTotals
    \/ CompareCategories
    \/ CompareAnswer
    \/ Recurring
    \/ SearchCount
    \/ SearchPage
    \/ NextPage
    \/ Close

Spec == Init /\ [][Next]_vars

-----------------------------------------------------------------------------
(* Properties.  What is compared is what the database held all along.      *)

Answered(kind) == req.kind = kind /\ response # <<>>
Alone(kind) == Answered(kind) /\ ~torn

\* The reference: the user's rows from one day to another.
Owned(from, to) == {t \in rows : t.user = req.q.user /\ Ordinal(t.date) \in Ordinal(from)..Ordinal(to)}
Asked ==
    {t \in Owned(IF req.q.start = <<>> THEN <<1, 1, 1>> ELSE req.q.start,
                 IF req.q.end = <<>> THEN <<9999, 12, 31>> ELSE req.q.end) :
       req.q.account = None \/ t.account = req.q.account}
SumOf(s, f(_)) == MapThenSumSet(LAMBDA i : f(s[i]), DOMAIN s)

\* "Analytics rollups never double-count a transaction": whatever categories
\* are mapped to which, by this user or by others, the rows of a breakdown add
\* up to what was spent, the shares to 100% but for their rounding, and the
\* months to the same spending, income and number of transactions.  (A category
\* has one mapping per user, which is part of TypeOK.)
AggregatesConserve ==
    /\ TypeOK
    /\ Alone("breakdown") =>
         LET b == response[1]
         IN  /\ SumTotals(b) = Spending(Asked)
             /\ b # <<>> => 2 * Abs(SumOf(b, LAMBDA g : g.share) - 10000) <= Len(b)
    /\ Alone("monthly") =>
         /\ SumOf(response[1], LAMBDA m : m.spending) = Spending(Asked)
         /\ SumOf(response[1], LAMBDA m : m.income) = Income(Asked)
         /\ SumOf(response[1], LAMBDA m : m.count) = Cardinality(Asked)
    /\ Alone("merchants") => SumTotals(response[1]) <= Spending(Asked)

\* A summary is about one period: whatever commits between its SELECTs, its
\* resolved bounds span at least a day (the daily average divides by it); and
\* when nothing does, there is a top category exactly when something was spent
\* in the period and the account asked for, and it is no more than the whole.
SummaryAddsUp ==
    Answered("summary") =>
      LET r == response[1]
      IN  /\ r.start # <<>> /\ r.end # <<>> => r.days >= 1
          /\ ~torn => /\ r.spending = Spending(Asked) /\ r.net = r.spending - Income(Asked)
                      /\ r.spending > 0 <=> r.top_category # <<>>
                      /\ r.top_category # <<>> => r.top_category[2] <= r.spending
                      /\ r.top_merchant # <<>> => r.top_merchant[2] <= r.spending

Groups == UNION {GroupsOf(mappings, t, req.q.user) : t \in Outflows(rows)}
NamesDistinct == \A g, h \in Groups : NameOf(g) = NameOf(h) => g = h

\* The two periods of a comparison partition the time between them: together
\* they hold what was spent from the start of the first to today, no
\* transaction twice, and the changes of the categories add up to the change
\* in spending as long as no two categories have one name.
CompareAddsUp ==
    Alone("compare") =>
      LET r == response[1]
      IN  /\ req.periods = <<>> =>
               r.baseline + r.comparison =
                 Spending(Owned(LET d == DayBefore(<<Today[1], Today[2], 1>>) IN <<d[1], d[2], 1>>, Today))
          /\ NamesDistinct => MapThenSumSet(LAMBDA n : r.categories[n].change, DOMAIN r.categories) = r.change

\* The months of a month-over-month report are consecutive and end with this
\* one, across the turn of the year, each has what was spent in it, and a month
\* without transactions is there with 0.
MonthsCovered ==
    Alone("mom") =>
      LET p == response[1]
      IN  /\ Last(p).month = MonthOf(Today)
          /\ \A i \in 1..(Len(p) - 1) :
               p[i + 1].month = IF p[i].month[2] = 12 THEN <<p[i].month[1] + 1, 1>>
                                ELSE <<p[i].month[1], p[i].month[2] + 1>>
          /\ \A i \in DOMAIN p : p[i].spending = Spending({t \in rows : t.user = req.q.user /\ MonthOf(t.date) = p[i].month})

\* A client that walks all pages while nothing is committed sees every
\* matching transaction once, as many as the total says, rows with equal sort
\* keys included.
PagesPartition ==
    Alone("search") /\ page = response[1].total_pages =>
      LET all == seen \o response[1].items
      IN  /\ Len(all) = response[1].total
          /\ {all[i] : i \in DOMAIN all} = Matching(rows, req.q, req.f)
          /\ SumOf(all, LAMBDA t : t.amount) = response[1].amount

Charges(m) == {t \in rows : /\ t.user = req.q.user /\ t.merchant = m /\ t.amount > 0
                            /\ Ordinal(t.date) >= Ordinal(Today) - req.lookback_days}

\* What is reported as recurring is: often enough, no two gaps more than 8 days
\* apart, no amount more than half again another, and the next charge expected
\* when a charge of that cadence is due.
SoundItem(item) ==
    LET days == {Ordinal(t.date) : t \in Charges(item.merchant)}
        gaps == {d - Max({e \in days : e < d}) : d \in {x \in days : x # Min(days)}}
        amounts == {t.amount : t \in Charges(item.merchant)}
        band == CHOOSE b \in ToSet(CADENCE_BANDS) : b[3] = item.cadence
    IN  /\ item.occurrences = Cardinality(days) /\ item.occurrences >= req.min_occurrences
        /\ Max(gaps) - Min(gaps) <= 2 * GAP_TOLERANCE_DAYS
        /\ 2 * Max(amounts) <= 3 * Min(amounts)
        /\ item.next - Max(days) \in band[1]..band[2]

\* A charge of the same amount on the same day, up to the 28th, of at least
\* min_occurrences consecutive months.
Subscription(m) ==
    LET C == Charges(m)
        months == {12 * t.date[1] + t.date[2] : t \in C}
    IN  /\ Cardinality(C) >= req.min_occurrences
        /\ \A t, u \in C : t.amount = u.amount /\ t.date[3] = u.date[3] /\ t.date[3] <= 28
        /\ Cardinality(months) = Cardinality(C) /\ Max(months) - Min(months) = Cardinality(C) - 1

\* Recurring detection is sound, item by item, and finds every subscription, as
\* monthly and with its amount.
RecurringRight ==
    Alone("recurring") =>
      /\ \A item \in response[1] : SoundItem(item)
      /\ \A m \in {t.merchant : t \in rows} \ {NoMerchant} : Subscription(m) =>
           \E item \in response[1] :
             item.merchant = m /\ item.cadence = "monthly" /\ item.average = (CHOOSE t \in Charges(m) : TRUE).amount

=============================================================================

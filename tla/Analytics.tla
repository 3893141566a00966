----------------------------- MODULE Analytics ------------------------------
(***************************************************************************)
(* The aggregates of AnalyticsRepository and what AnalyticsService makes of*)
(* them.  Money is in cents and positive when it goes out; a date is       *)
(* <<year, month, day>>; a row carries the user it belongs to through its  *)
(* account and item.  A Plaid category is the path of its names and a user *)
(* category the path of its one name; <<>> is no category and no date.     *)
(***************************************************************************)
EXTENDS Integers, Sequences, FiniteSets, SequencesExt, FiniteSetsExt

None == "none"      \* no account
NoMerchant == 0     \* names of merchants are numbers, in their order
Uncategorized == "Uncategorized"

-----------------------------------------------------------------------------
(* External: datetime.date and decimal.Decimal                             *)

IsLeap(y) == y % 4 = 0 /\ (y % 100 # 0 \/ y % 400 = 0)
DaysIn(y, m) == IF m = 2 THEN IF IsLeap(y) THEN 29 ELSE 28
                ELSE IF m \in {4, 6, 9, 11} THEN 30 ELSE 31
Ordinal(d) ==
    LET y == d[1] - 1
    IN  365 * y + (y \div 4) - (y \div 100) + (y \div 400)
        + MapThenSumSet(LAMBDA m : DaysIn(d[1], m), 1..(d[2] - 1)) + d[3]
DayBefore(d) ==
    IF d[3] > 1 THEN <<d[1], d[2], d[3] - 1>>
    ELSE LET p == IF d[2] = 1 THEN <<d[1] - 1, 12>> ELSE <<d[1], d[2] - 1>>
         IN  <<p[1], p[2], DaysIn(p[1], p[2])>>
NotAfter(a, b) == Ordinal(a) <= Ordinal(b)

\* num / den, den > 0, to the nearest integer, a half to the even one.
RoundHalfEven(num, den) ==
    LET q == num \div den r == 2 * (num % den)
    IN  IF r > den \/ (r = den /\ q % 2 = 1) THEN q + 1 ELSE q

-----------------------------------------------------------------------------
(* AnalyticsRepository                                                     *)

Query(user, start, end, account) == [user |-> user, start |-> start, end |-> end, account |-> account]

Scoped(rows, q) ==
    {t \in rows : /\ t.user = q.user
                  /\ q.account # None => t.account = q.account
                  /\ q.start # <<>> => NotAfter(q.start, t.date)
                  /\ q.end # <<>> => NotAfter(t.date, q.end)}

Outflows(S) == {t \in S : t.amount > 0}
Spending(S) == MapThenSumSet(LAMBDA t : t.amount, Outflows(S))
Income(S) == -MapThenSumSet(LAMBDA t : t.amount, {t \in S : t.amount < 0})

MonthOf(d) == <<d[1], d[2]>>
MonthBefore(m, n) == m[1] < n[1] \/ (m[1] = n[1] /\ m[2] < n[2])

\* GROUP BY month ORDER BY month.
MonthlyTotals(rows, q) ==
    LET S == Scoped(rows, q)
        in(m) == {t \in S : MonthOf(t.date) = m}
        months == SetToSortSeq({MonthOf(t.date) : t \in S}, MonthBefore)
    IN  [i \in DOMAIN months |->
           [month |-> months[i], spending |-> Spending(in(months[i])), income |-> Income(in(months[i])),
            count |-> Cardinality(in(months[i]))]]

\* One row, possibly all zero; MIN and MAX of no dates are NULL.
PeriodTotals(rows, q) ==
    LET S == Scoped(rows, q)
        ordered == SetToSortSeq({t.date : t \in S}, LAMBDA a, b : Ordinal(a) < Ordinal(b))
    IN  [spending |-> Spending(S), income |-> Income(S), count |-> Cardinality(S),
         outflows |-> Cardinality(Outflows(S)),
         first |-> IF S = {} THEN <<>> ELSE Head(ordered),
         last |-> IF S = {} THEN <<>> ELSE Last(ordered)]

\* Mutant: the mappings of every user are joined.
MappingsAnyUser(mappings, t, user) == {m \in mappings : m.category = t.category}

\* The outer join's condition.
MappingsOf(mappings, t, user) == {m \in mappings : m.category = t.category /\ m.user = user}

\* The group a joined row falls in: the user category it is mapped to, or else
\* its own Plaid category.
GroupsOf(mappings, t, user) ==
    LET ms == MappingsOf(mappings, t, user)
    IN  IF ms = {} THEN {[custom |-> FALSE, id |-> t.category]}
        ELSE {[custom |-> TRUE, id |-> m.target] : m \in ms}

NameOf(group) == IF group.id = <<>> THEN Uncategorized ELSE Last(group.id)

\* The sequences of S that ORDER BY may return, given what comes before what.
Orders(S, before(_, _)) ==
    {o \in SetToSeqs(S) : \A i, j \in DOMAIN o : before(o[i], o[j]) => i < j}

CategoryTotals(rows, mappings, q) ==
    LET joined == UNION {{<<t, g>> : g \in GroupsOf(mappings, t, q.user)} : t \in Outflows(Scoped(rows, q))}
        in(g) == {j \in joined : j[2] = g}
        total(g) == MapThenSumSet(LAMBDA j : j[1].amount, in(g))
    IN  Orders({[group |-> g, total |-> total(g), count |-> Cardinality(in(g))] : g \in {j[2] : j \in joined}},
               LAMBDA a, b : a.total > b.total)

\* Ties are broken by the name, so there is one order.
MerchantTotals(rows, q, limit) ==
    LET S == {t \in Outflows(Scoped(rows, q)) : t.merchant # NoMerchant}
        in(m) == {t \in S : t.merchant = m}
        all == SetToSortSeq({[merchant |-> m, total |-> Spending(in(m)), count |-> Cardinality(in(m))] :
                               m \in {t.merchant : t \in S}},
                            LAMBDA a, b : a.total > b.total \/ (a.total = b.total /\ a.merchant < b.merchant))
    IN  SubSeq(all, 1, IF limit < Len(all) THEN limit ELSE Len(all))

-----------------------------------------------------------------------------
(* AnalyticsService                                                        *)

\* In hundredths of a percent.
Pct(part, whole) == RoundHalfEven(part * 10000, whole)

SumTotals(groups) == MapThenSumSet(LAMBDA i : groups[i].total, DOMAIN groups)

Breakdown(groups) ==
    [i \in DOMAIN groups |->
       [name |-> NameOf(groups[i].group), custom |-> groups[i].group.custom, total |-> groups[i].total,
        share |-> IF SumTotals(groups) = 0 THEN 0 ELSE Pct(groups[i].total, SumTotals(groups))]]

\* Mutant: months counted from 1 are not shifted to 0 before the division.
ShiftMonthFromOne(month, delta) ==
    LET total == month[1] * 12 + month[2] + delta
    IN  <<total \div 12, (total % 12) + 1>>

ShiftMonth(month, delta) ==
    LET total == month[1] * 12 + (month[2] - 1) + delta
    IN  <<total \div 12, (total % 12) + 1>>

\* The first month of the window has no change, and there is no percentage
\* against nothing spent.
MonthOverMonth(totals, window_start, months) ==
    LET key(i) == ShiftMonth(window_start, i - 1)
        spent(i) == LET r == {j \in DOMAIN totals : totals[j].month = key(i)}
                    IN  IF r = {} THEN 0 ELSE totals[CHOOSE j \in r : TRUE].spending
    IN  [i \in 1..months |->
           [month |-> key(i), spending |-> spent(i),
            change |-> IF i = 1 THEN <<>> ELSE <<spent(i) - spent(i - 1)>>,
            pct |-> IF i = 1 THEN <<>> ELSE IF spent(i - 1) = 0 THEN <<>>
                    ELSE <<Pct(spent(i) - spent(i - 1), spent(i - 1))>>]]

=============================================================================

----------------------------- MODULE MCReports ------------------------------
(* Scenarios of Reports for TLC. *)
EXTENDS Reports, TLC

SmallToday == <<2024, 3, 5>>

Tx(id, user, account, date, merchant, amount, category, labels) ==
    [id |-> id, user |-> user, account |-> account, date |-> date, merchant |-> merchant,
     amount |-> amount, category |-> category, labels |-> labels]

Coffee == <<"FOOD", "Coffee">>
TravelOther == <<"TRAVEL", "Other">>
FoodOther == <<"FOOD", "Other">>

\* A ledger around the turn of the year and a leap day, with another user's row.
Ledger == {Tx(1, "u", "a", <<2023, 12, 31>>, 1, 1000, Coffee, {"l"}),
           Tx(2, "u", "a", <<2024, 2, 1>>, 2, 1000, TravelOther, {"k"}),
           Tx(3, "u", "b", <<2024, 2, 29>>, 0, 333, <<>>, {"k", "l"}),
           Tx(4, "u", "a", <<2024, 3, 1>>, 1, 250, Coffee, {}),
           Tx(5, "u", "b", <<2024, 3, 1>>, 0, -4000, <<"INCOME">>, {}),
           Tx(9, "v", "c", <<2024, 3, 1>>, 1, 777, Coffee, {"l"})}

Brought == {Tx(2, "u", "a", <<2024, 2, 1>>, 2, 1250, TravelOther, {"k"}),
            Tx(3, "u", "b", <<2024, 2, 29>>, 0, 333, <<>>, {"k", "l"}),
            Tx(6, "u", "a", <<2024, 3, 5>>, 2, 1000, FoodOther, {})}

\* Two targets for one category, and another user's mapping of it.
Mapped == {[user |-> "u", category |-> Coffee, target |-> <<"Fun">>],
           [user |-> "u", category |-> TravelOther, target |-> <<"Fun">>],
           [user |-> "u", category |-> Coffee, target |-> <<"Work">>],
           [user |-> "v", category |-> Coffee, target |-> <<"Vices">>]}

All == Query("u", <<>>, <<>>, None)
February == Query("u", <<2024, 2, 1>>, <<2024, 2, 29>>, None)
From(account) == Query("u", <<2024, 1, 1>>, <<>>, account)
Until == Query("u", <<>>, <<2024, 2, 29>>, "b")

Filter(sort_by, desc, size) ==
    [accounts |-> <<>>, categories |-> <<>>, classifications |-> <<>>, merchants |-> <<>>, labels |-> <<>>,
     min |-> <<>>, max |-> <<>>, sort_by |-> sort_by, desc |-> desc, page_size |-> size]

Filters == {Filter("amount", TRUE, 2), Filter("merchant_name", FALSE, 2), Filter("transaction_date", TRUE, 3),
            [Filter("merchant_name", TRUE, 1) EXCEPT !.labels = <<{"k", "l"}>>],
            [Filter("amount", FALSE, 2) EXCEPT !.classifications = <<{"expense"}>>, !.accounts = <<{"a"}>>,
                                              !.min = <<300>>, !.max = <<1000>>],
            [Filter("amount", FALSE, 2) EXCEPT !.categories = <<{}>>],
            [Filter("amount", FALSE, 2) EXCEPT !.merchants = <<{1}>>]}

LedgerRequests ==
    {[kind |-> k, q |-> q] : k \in {"monthly", "breakdown", "summary"}, q \in {All, February, From(None), From("b"), Until}}
    \cup {[kind |-> "merchants", q |-> q, limit |-> 1] : q \in {All, February}}
    \cup {[kind |-> "mom", q |-> All, months |-> n] : n \in {2, 4, 15}}
    \cup {[kind |-> "compare", q |-> All, periods |-> p] :
            p \in {<<>>, <<<<<<2023, 12, 1>>, <<2023, 12, 31>>>>, <<<<2024, 2, 1>>, <<2024, 3, 31>>>>>>}}
    \cup {[kind |-> "search", q |-> q, f |-> f] : q \in {All, February}, f \in Filters}

LedgerScenario == [rows |-> Ledger, brought |-> Brought, mapped |-> Mapped, requests |-> LedgerRequests]

\* Charges of one merchant: by the gaps between them, and month by month.
Days == UNION {{<<2023, m, d>> : d \in 1..DaysIn(2023, m)} : m \in 10..12}
Date == [n \in Ordinal(<<2023, 10, 1>>)..Ordinal(<<2023, 12, 31>>) |-> CHOOSE d \in Days : Ordinal(d) = n]

Charge(id, date, amount) == Tx(id, "u", "a", date, 1, amount, Coffee, {})

ByGaps(a, b, c, amount) ==
    LET n == Ordinal(<<2023, 10, 1>>)
    IN  {Charge(1, Date[n], 1000), Charge(2, Date[n + a], amount), Charge(3, Date[n + a + b], 1000),
         Charge(4, Date[n + a + b + c], 1000)}

Monthly(day, n) == {Charge(i, IF i <= 3 THEN <<2023, 9 + i, day>> ELSE <<2024, i - 3, day>>, 999) : i \in 1..n}

RecurringRequests == {[kind |-> "recurring", q |-> All, lookback_days |-> 180, min_occurrences |-> n] : n \in {2, 3, 4}}

RecurringScenario(charges) == [rows |-> charges, brought |-> {}, mapped |-> {}, requests |-> RecurringRequests]

Gaps == {0, 5, 7, 9, 10, 13, 17, 30}

SmallScenarios ==
    {LedgerScenario}
    \cup {RecurringScenario(ByGaps(a, b, c, amount)) : a \in Gaps, b \in Gaps, c \in Gaps, amount \in {1000, 1200, 1201}}
    \cup {RecurringScenario(Monthly(day, n)) : day \in {1, 15, 28}, n \in 2..5}

=============================================================================

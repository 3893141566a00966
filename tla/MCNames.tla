------------------------------ MODULE MCNames -------------------------------
(* A small instance of Names for TLC. *)
EXTENDS Names, TLC

Food == <<"food">>
Coffee == <<"food", "coffee">>
Travel == <<"travel">>

\* A name, the same name with blanks around it, and nothing but blanks.
SmallRawNames == {[blanks |-> FALSE, text |-> "n"], [blanks |-> TRUE, text |-> "n"], [blanks |-> TRUE, text |-> ""]}

SmallCategories == {Food, Coffee, Travel}

SmallTransactions == {<<"t1">>}

\* Two windows that create the same categories in opposite orders.
SmallWindows == {<<Coffee, Travel>>, <<Travel, Coffee>>}

=============================================================================

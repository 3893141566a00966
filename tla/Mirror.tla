------------------------------- MODULE Mirror -------------------------------
(***************************************************************************)
(* What a transaction sync promises, without sessions, pages, locks or     *)
(* failures: the tables of an item hold what a prefix of its history at    *)
(* Plaid amounts to, the prefix only grows, and it grows for one item at a *)
(* time with the rows that belong to it.                                   *)
(***************************************************************************)
EXTENDS Naturals, Sequences, FiniteSetsExt

CONSTANTS Items, Txns, TxnItem(_), Absent

VARIABLES
    history,  \* [Items -> Seq(change)] at Plaid
    prefix,   \* [Items -> Nat]: how much of it the tables stand for
    trail,    \* [Txns -> payload or Absent]: the audit trail
    shown     \* [Txns -> payload or Absent]: the transactions users see

mirrorVars == <<history, prefix, trail, shown>>

Told(t) == {k \in 1..prefix[TxnItem(t)] : history[TxnItem(t)][k].txn = t}
Upserted(t) == {k \in Told(t) : history[TxnItem(t)][k].op # "removed"}

\* The audit trail has the last payload of every transaction of the prefix; a
\* transaction that is shown has that payload and has not been removed.  One
\* on an account that is not held is not shown.
Faithful(i) ==
    /\ prefix[i] \in 0..Len(history[i])
    /\ \A t \in Txns : TxnItem(t) = i =>
         /\ trail[t] = IF Upserted(t) = {} THEN Absent ELSE history[i][Max(Upserted(t))].val
         /\ shown[t] = Absent \/ (shown[t] = trail[t] /\ Told(t) = Upserted(t))

Init == \A i \in Items : Faithful(i)

\* Plaid appends a change.
Change ==
    /\ \E i \in Items : /\ \A j \in Items \ {i} : history'[j] = history[j]
                        /\ Len(history'[i]) = Len(history[i]) + 1
                        /\ \A k \in DOMAIN history[i] : history'[i][k] = history[i][k]
    /\ UNCHANGED <<prefix, trail, shown>>

\* One item's tables move to a later prefix.  What is shown stays shown
\* unless it is removed.
Advance(i) ==
    /\ prefix'[i] >= prefix[i]
    /\ Faithful(i)'
    /\ \A t \in Txns : TxnItem(t) = i /\ shown[t] # Absent /\ shown'[t] = Absent => Told(t)' # Upserted(t)'
    /\ \A j \in Items \ {i} : prefix'[j] = prefix[j]
    /\ \A t \in Txns : TxnItem(t) # i => trail'[t] = trail[t] /\ shown'[t] = shown[t]
    /\ UNCHANGED history

Next == Change \/ \E i \in Items : Advance(i)

Spec == Init /\ [][Next]_mirrorVars

=============================================================================

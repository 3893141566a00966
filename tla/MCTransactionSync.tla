-------------------------- MODULE MCTransactionSync --------------------------
(* Small instances of TransactionSync for TLC. *)
EXTENDS SyncRefinement, TLC

CONSTANTS i1, i2, a1, a2, t1, t2

SessionSymmetry == Permutations(Sessions)
PayloadSymmetry == Permutations(Vals)

\* Sessions, payloads, and two accounts each with its transaction.
Swapped == a1 :> a2 @@ a2 :> a1 @@ t1 :> t2 @@ t2 :> t1
OverlapSymmetry ==
    {s @@ v @@ a : s \in SessionSymmetry, v \in PayloadSymmetry, a \in {<<>>, Swapped}}

OneItemOneAcct == a1 :> i1
OnlyT1 == t1 :> a1
TwoAcctsOneItem == a1 :> i1 @@ a2 :> i1
OneAcctEach == a1 :> i1 @@ a2 :> i2
OneTxnEach == t1 :> a1 @@ t2 :> a2

\* The requests and the changes at Plaid alone.  The standalone account sync,
\* relinking and new accounts write rows that decide neither when a request
\* waits nor when it ends.
QuietNext ==
    \/ \E s \in Sessions : SyncTransactions(s) \/ Progress(s) \/ Crash(s)
    \/ PlaidChange

QuietInit == opened = Accounts /\ Init

QuietFairSpec == QuietInit /\ [][QuietNext]_vars /\ Fairness

\* Statuses of the items, which no table depends on, change between requests.
AtRest == \A s \in Sessions : pc[s] = "idle"
RelinkNext ==
    \/ QuietNext
    \/ AtRest /\ SyncAccountsLoginRequired
    \/ AtRest /\ Relink

RelinkSpec == QuietInit /\ [][RelinkNext]_vars

\* New accounts are opened and synced at any moment of the requests.
OverlapNext ==
    \/ QuietNext
    \/ OpenAccount
    \/ SyncAccounts

OverlapSpec == Init /\ [][OverlapNext]_vars

=============================================================================

-------------------------- MODULE TransactionSync --------------------------
(***************************************************************************)
(* POST /transactions/sync: TransactionSyncService, PlaidService paging,   *)
(* and the PostgreSQL rows they share, for the items of one user.          *)
(*                                                                         *)
(* Every request runs in one SQLAlchemy session under READ COMMITTED, so   *)
(* requests interleave at every await.  What a session has flushed but not *)
(* committed is kept with the session and is applied to the tables by the  *)
(* step that commits; the row lock that its first UPDATE (or INSERT) of    *)
(* plaid_sync_state takes is `lock'.  SQLAlchemy emits an UPDATE only for  *)
(* an attribute that differs from the value the session loaded: `Net'.     *)
(*                                                                         *)
(* Plaid is external: an item's history is an append-only log of changes,  *)
(* a cursor is a position in that log (0 is "no cursor": full history).    *)
(***************************************************************************)
EXTENDS Naturals, Sequences, FiniteSets

CONSTANTS
    Items,         \* plaid_items of the user
    Accounts,      \* accounts at Plaid
    Txns,          \* Plaid transaction ids
    Vals,          \* payloads (everything normalisation copies, a category included)
    Sessions,      \* concurrently served requests
    ItemOf,        \* [Accounts -> Items]
    AcctOf,        \* [Txns -> Accounts]
    SyncedAccts,   \* accounts whose type is in ACCOUNT_TYPES_TO_SYNC
    PageSize,      \* _SYNC_PAGE_SIZE
    MaxLog,        \* bound: changes per item at Plaid
    Nobody,        \* not a session: the lock is free
    Absent         \* not a row: no such row

RawRow == [val : Vals, status : {"processed", "skipped"}]
TxRow == [val : Vals, enriched : BOOLEAN]

ASSUME ConstantsAssumption ==
    /\ ItemOf \in [Accounts -> Items]
    /\ AcctOf \in [Txns -> Accounts]
    /\ SyncedAccts \subseteq Accounts
    /\ PageSize \in Nat \ {0}
    /\ MaxLog \in Nat
    /\ Items # {}
    /\ Nobody \notin Sessions
    /\ Absent \notin RawRow
    /\ Absent \notin TxRow
    /\ Absent \notin Vals

VARIABLES
    log,         \* Plaid: [Items -> Seq(change)]
    opened,      \* Plaid: accounts that exist at the bank
    cursor,      \* plaid_sync_state.cursor
    syncStatus,  \* plaid_sync_state.sync_status, "none": no row
    itemStatus,  \* plaid_items.status
    accounts,    \* accounts: the rows we hold
    raw,         \* raw_plaid_transactions
    tx,          \* transactions
    lock,        \* session holding the plaid_sync_state row
    pc, todo, item, known, seen, upto, attempt, mine, revive, view,
    stale,       \* history: a commit replaced a cursor its session had not read
    unlocked     \* history: such a commit, or a later one, by a session that loaded 'syncing'

plaidVars == <<log, opened>>
dbVars == <<cursor, syncStatus, itemStatus, accounts, raw, tx, stale, unlocked>>
sessVars == <<pc, todo, item, known, seen, upto, attempt, mine, revive, view>>
vars == <<log, opened, cursor, syncStatus, itemStatus, accounts, raw, tx, lock,
          pc, todo, item, known, seen, upto, attempt, mine, revive, view, stale, unlocked>>

TxnItem(t) == ItemOf[AcctOf[t]]

Change == [txn : Txns, op : {"added", "modified", "removed"}, val : Vals]
SyncStatus == {"none", "idle", "syncing", "error"}
PlaidItemStatus == {"active", "login_required", "disconnected"}

\* The three maps _apply_changes loads: accounts, raw rows, transaction rows.
View == [acc : SUBSET Accounts,
         raw : [Txns -> RawRow \cup {Absent}],
         tx : [Txns -> TxRow \cup {Absent}]]

NoView == [acc |-> {}, raw |-> [t \in Txns |-> Absent], tx |-> [t \in Txns |-> Absent]]

\* What an idle session holds, in place of what it last worked on.
NoItem == CHOOSE i \in Items : TRUE
NoStatus == [i \in Items |-> "active"]
NoState == [cursor |-> 0, status |-> "idle"]

TypeOK ==
    /\ log \in [Items -> Seq(Change)]
    /\ opened \subseteq Accounts
    /\ cursor \in [Items -> Nat]
    /\ syncStatus \in [Items -> SyncStatus]
    /\ itemStatus \in [Items -> PlaidItemStatus]
    /\ accounts \subseteq Accounts
    /\ raw \in [Txns -> RawRow \cup {Absent}]
    /\ tx \in [Txns -> TxRow \cup {Absent}]
    /\ lock \in [Items -> Sessions \cup {Nobody}]
    /\ pc \in [Sessions -> {"idle", "load", "insert", "fetch", "flush", "accts",
                            "list", "raws", "txs", "commit"}]
    /\ todo \in [Sessions -> SUBSET Items]
    /\ item \in [Sessions -> Items]
    /\ known \in [Sessions -> [Items -> PlaidItemStatus]]
    /\ seen \in [Sessions -> [cursor : Nat, status : SyncStatus]]
    /\ upto \in [Sessions -> Nat]
    /\ attempt \in [Sessions -> {1, 2}]
    /\ mine \in [Sessions -> SUBSET Accounts]
    /\ revive \in [Sessions -> BOOLEAN]
    /\ view \in [Sessions -> View]
    /\ stale \in [Items -> BOOLEAN]
    /\ unlocked \in [Items -> BOOLEAN]

-----------------------------------------------------------------------------
(* The window a session has fetched, and what the code makes of it.        *)

\* Positions of the window (loaded cursor, next_cursor] that concern t.
Positions(s, t) ==
    {k \in (seen[s].cursor + 1)..upto[s] : log[item[s]][k].txn = t}

Upserts(s, t) == {k \in Positions(s, t) : log[item[s]][k].op # "removed"}

\* result.added + result.modified, by transaction id.
ChangedIds(s) == {t \in Txns : Upserts(s, t) # {}}

RemovedIds(s) == {t \in Txns : Positions(s, t) # Upserts(s, t)}

\* `changed' lists every added entry before every modified one, each in page
\* order; the loop over it leaves the payload of the last entry for an id.
Payload(s, t) ==
    LET mods == {k \in Upserts(s, t) : log[item[s]][k].op = "modified"}
        from == IF mods # {} THEN mods ELSE Upserts(s, t)
    IN  log[item[s]][CHOOSE k \in from : \A j \in from : j <= k].val

\* Accounts in the mapping of _apply_changes; the others are skipped.
Normalized(s, t) == AcctOf[t] \in view[s].acc

\* An attribute after the session's flush: written only if it was changed
\* from the loaded value, else whatever the row holds by now.
Net(loaded, new, current) == IF new = loaded THEN current ELSE new

\* Mutant: processing_status is left at its default.
RawAfterPending(s, t) ==
    [val |-> Payload(s, t), status |-> IF Normalized(s, t) THEN "pending" ELSE "skipped"]

\* Mutant: an existing raw row keeps its old payload.
RawAfterKeepsPayload(s, t) ==
    [val |-> IF view[s].raw[t] = Absent THEN Payload(s, t) ELSE view[s].raw[t].val,
     status |-> IF Normalized(s, t) THEN "processed" ELSE "skipped"]

RawAfter(s, t) ==
    LET old == view[s].raw[t]
        new == [val |-> Payload(s, t),
                status |-> IF Normalized(s, t) THEN "processed" ELSE "skipped"]
    IN  IF old = Absent
          THEN new
          ELSE [val |-> Net(old.val, new.val, raw[t].val),
                status |-> Net(old.status, new.status, raw[t].status)]

TxAfter(s, t) ==
    LET old == view[s].tx[t]
    IN  IF old = Absent
          THEN [val |-> Payload(s, t), enriched |-> TRUE]
          ELSE IF tx[t] = Absent
          THEN Absent
          ELSE [val |-> Net(old.val, Payload(s, t), tx[t].val), enriched |-> TRUE]

\* An INSERT of a key that exists by now (IntegrityError), or an UPDATE of a
\* row that is gone (StaleDataError): the transaction rolls back.
Conflict(s) ==
    \/ mine[s] \cap accounts # {}
    \/ \E t \in ChangedIds(s) :
         \/ view[s].raw[t] = Absent /\ raw[t] # Absent
         \/ /\ Normalized(s, t)
            /\ view[s].tx[t] = Absent
            /\ tx[t] # Absent
         \/ /\ Normalized(s, t)
            /\ view[s].tx[t] # Absent
            /\ tx[t] = Absent
            /\ view[s].tx[t].val # Payload(s, t) \/ ~view[s].tx[t].enriched

-----------------------------------------------------------------------------
(* Request life cycle.                                                     *)

Free(s) == [i \in Items |-> IF lock[i] = s THEN Nobody ELSE lock[i]]

\* The request is answered and its session closed; what was not committed is
\* rolled back and the row locks are gone.
EndRequest(s) ==
    /\ pc' = [pc EXCEPT ![s] = "idle"]
    /\ todo' = [todo EXCEPT ![s] = {}]
    /\ seen' = [seen EXCEPT ![s] = NoState]
    /\ upto' = [upto EXCEPT ![s] = 0]
    /\ attempt' = [attempt EXCEPT ![s] = 1]
    /\ mine' = [mine EXCEPT ![s] = {}]
    /\ revive' = [revive EXCEPT ![s] = FALSE]
    /\ view' = [view EXCEPT ![s] = NoView]
    /\ lock' = Free(s)
    /\ item' = [item EXCEPT ![s] = NoItem]
    /\ known' = [known EXCEPT ![s] = NoStatus]

\* sync_transactions: one item by id (whatever its status) or all items that
\* are not disconnected, as their rows read when the request arrives.
SyncTransactions(s) ==
    /\ pc[s] = "idle"
    /\ \E targets \in {{i} : i \in Items}
                      \cup {{i \in Items : itemStatus[i] # "disconnected"}} :
         /\ targets # {}
         /\ todo' = [todo EXCEPT ![s] = targets]
    /\ known' = [known EXCEPT ![s] = itemStatus]
    /\ pc' = [pc EXCEPT ![s] = "load"]
    /\ UNCHANGED <<plaidVars, dbVars, lock, item, seen, upto, attempt, mine, revive, view>>

\* _sync_item reads the plaid_sync_state row; sync_status = SYNCING is set in
\* memory only and reaches the database with the next flush.
LoadState(s) ==
    /\ pc[s] = "load"
    /\ \E i \in todo[s] :
         /\ item' = [item EXCEPT ![s] = i]
         /\ IF syncStatus[i] = "none"
              THEN /\ pc' = [pc EXCEPT ![s] = "insert"]
                   /\ UNCHANGED <<seen, upto>>
              ELSE /\ pc' = [pc EXCEPT ![s] = "fetch"]
                   /\ seen' = [seen EXCEPT ![s] = [cursor |-> cursor[i], status |-> syncStatus[i]]]
                   /\ upto' = [upto EXCEPT ![s] = cursor[i]]
    /\ UNCHANGED <<plaidVars, dbVars, lock, todo, known, attempt, mine, revive, view>>

\* create_for_item: the INSERT waits for another uncommitted INSERT of the
\* same item's row and fails if that one commits.
CreateState(s) ==
    /\ pc[s] = "insert"
    /\ \/ /\ syncStatus[item[s]] = "none"
          /\ lock[item[s]] = Nobody
          /\ lock' = [lock EXCEPT ![item[s]] = s]
          /\ pc' = [pc EXCEPT ![s] = "fetch"]
          /\ seen' = [seen EXCEPT ![s] = NoState]
          /\ upto' = [upto EXCEPT ![s] = 0]
          /\ UNCHANGED <<todo, item, known, attempt, mine, revive, view>>
       \/ /\ syncStatus[item[s]] # "none"
          /\ EndRequest(s)
    /\ UNCHANGED <<plaidVars, dbVars>>

-----------------------------------------------------------------------------
(* PlaidService.sync_transactions: paging and the one restart.             *)

\* One page of _sync_from; the last one hands the window to _sync_item.
FetchPage(s) ==
    LET end == Len(log[item[s]])
        next == IF upto[s] + PageSize < end THEN upto[s] + PageSize ELSE end
    IN  /\ pc[s] = "fetch"
        /\ upto' = [upto EXCEPT ![s] = next]
        /\ pc' = [pc EXCEPT ![s] = IF next < end THEN "fetch" ELSE "flush"]
        /\ UNCHANGED <<plaidVars, dbVars, lock, todo, item, known, seen, attempt,
                       mine, revive, view>>

\* Mutant: every mutation restarts the paging, not only the first.
RestartFetchAlways(s) ==
    /\ pc[s] = "fetch"
    /\ upto[s] # seen[s].cursor
    /\ attempt' = [attempt EXCEPT ![s] = 2]
    /\ upto' = [upto EXCEPT ![s] = seen[s].cursor]
    /\ UNCHANGED <<plaidVars, dbVars, lock, pc, todo, item, known, seen, mine, revive, view>>

\* Plaid reports a mutation between two pages: the pages are discarded and
\* the first attempt starts again from the original cursor.
RestartFetch(s) ==
    /\ pc[s] = "fetch"
    /\ upto[s] # seen[s].cursor
    /\ attempt[s] = 1
    /\ attempt' = [attempt EXCEPT ![s] = 2]
    /\ upto' = [upto EXCEPT ![s] = seen[s].cursor]
    /\ UNCHANGED <<plaidVars, dbVars, lock, pc, todo, item, known, seen, mine, revive, view>>

\* Mutant: the cursor of the last page is committed with the error.
FetchFailsSavesCursor(s) ==
    LET i == item[s]
    IN  /\ pc[s] = "fetch"
        /\ lock[i] \in {s, Nobody} \/ seen[s].status = "error"
        /\ syncStatus' = [syncStatus EXCEPT ![i] = Net(seen[s].status, "error", @)]
        /\ cursor' = [cursor EXCEPT ![i] = upto[s]]
        /\ EndRequest(s)
        /\ UNCHANGED <<plaidVars, itemStatus, accounts, raw, tx, stale, unlocked>>

\* Any other Plaid error (a second mutation included) is committed as ERROR,
\* a login failure also as login_required, and raised: the remaining items
\* of the request are not synced.
FetchFails(s) ==
    LET i == item[s]
    IN  /\ pc[s] = "fetch"
        /\ lock[i] \in {s, Nobody} \/ seen[s].status = "error"
        /\ syncStatus' = [syncStatus EXCEPT ![i] = Net(seen[s].status, "error", @)]
        /\ \/ itemStatus' = [itemStatus EXCEPT ![i] = Net(known[s][i], "login_required", @)]
           \/ itemStatus' = itemStatus
        /\ EndRequest(s)
        /\ UNCHANGED <<plaidVars, cursor, accounts, raw, tx, stale, unlocked>>

-----------------------------------------------------------------------------
(* Applying the window.                                                    *)

\* Mutant: the row is not locked.
FlushSyncingNoLock(s) ==
    /\ pc[s] = "flush"
    /\ pc' = [pc EXCEPT ![s] =
                IF ChangedIds(s) # {} /\ ~\E a \in accounts : ItemOf[a] = item[s]
                  THEN "accts" ELSE "list"]
    /\ UNCHANGED <<plaidVars, dbVars, lock, todo, item, known, seen, upto, attempt,
                   mine, revive, view>>

\* The first query after the fetch flushes sync_status = 'syncing': the
\* UPDATE locks the row until the session ends.  A session that loaded
\* 'syncing' has nothing to flush and takes no lock.
FlushSyncing(s) ==
    LET i == item[s]
    IN  /\ pc[s] = "flush"
        /\ IF seen[s].status = "syncing"
             THEN lock' = lock
             ELSE /\ lock[i] \in {s, Nobody}
                  /\ lock' = [lock EXCEPT ![i] = s]
        /\ pc' = [pc EXCEPT ![s] =
                    IF ChangedIds(s) # {} /\ ~\E a \in accounts : ItemOf[a] = i
                      THEN "accts" ELSE "list"]
        /\ UNCHANGED <<plaidVars, dbVars, todo, item, known, seen, upto, attempt,
                       mine, revive, view>>

\* account_sync.sync_item of an item without accounts: its rows are flushed
\* in this transaction, and the item is set active if it was loaded otherwise.
SyncItemAccounts(s) ==
    LET i == item[s]
    IN  /\ pc[s] = "accts"
        /\ mine' = [mine EXCEPT ![s] =
                      {a \in opened \cap SyncedAccts : ItemOf[a] = i} \ accounts]
        /\ revive' = [revive EXCEPT ![s] = known[s][i] # "active"]
        /\ pc' = [pc EXCEPT ![s] = "list"]
        /\ UNCHANGED <<plaidVars, dbVars, lock, todo, item, known, seen, upto, attempt, view>>

\* ITEM_LOGIN_REQUIRED inside it: the nested handler flags the item and
\* commits, with it the 'syncing' flushed before.
SyncItemAccountsLoginRequired(s) ==
    LET i == item[s]
    IN  /\ pc[s] = "accts"
        /\ itemStatus' = [itemStatus EXCEPT ![i] = Net(known[s][i], "login_required", @)]
        /\ syncStatus' = [syncStatus EXCEPT ![i] = Net(seen[s].status, "syncing", @)]
        /\ EndRequest(s)
        /\ UNCHANGED <<plaidVars, cursor, accounts, raw, tx, stale, unlocked>>

\* Any other Plaid error inside it is caught nowhere: rollback.
SyncItemAccountsFails(s) ==
    /\ pc[s] = "accts"
    /\ EndRequest(s)
    /\ UNCHANGED <<plaidVars, dbVars>>

\* _apply_changes loads the item's accounts ...
ReadAccounts(s) ==
    /\ pc[s] = "list"
    /\ view' = [view EXCEPT ![s].acc = {a \in accounts \cup mine[s] : ItemOf[a] = item[s]}]
    /\ pc' = [pc EXCEPT ![s] = "raws"]
    /\ UNCHANGED <<plaidVars, dbVars, lock, todo, item, known, seen, upto, attempt,
                   mine, revive>>

\* ... in a second statement the raw rows of the changed ids ...
ReadRaws(s) ==
    /\ pc[s] = "raws"
    /\ view' = [view EXCEPT ![s].raw =
         [t \in Txns |-> IF t \in ChangedIds(s) THEN raw[t] ELSE Absent]]
    /\ pc' = [pc EXCEPT ![s] = "txs"]
    /\ UNCHANGED <<plaidVars, dbVars, lock, todo, item, known, seen, upto, attempt,
                   mine, revive>>

\* ... and in a third the transaction rows.
ReadTxs(s) ==
    /\ pc[s] = "txs"
    /\ view' = [view EXCEPT ![s].tx =
         [t \in Txns |-> IF t \in ChangedIds(s) THEN tx[t] ELSE Absent]]
    /\ pc' = [pc EXCEPT ![s] = "commit"]
    /\ UNCHANGED <<plaidVars, dbVars, lock, todo, item, known, seen, upto, attempt,
                   mine, revive>>

\* Raw payloads landed verbatim, never deleted.
RawCommitted(s) ==
    [t \in Txns |-> IF t \in ChangedIds(s) THEN RawAfter(s, t) ELSE raw[t]]

\* Mutant: the deletes run before the upserts.
TxCommittedDeletesFirst(s) ==
    [t \in Txns |->
       IF t \in ChangedIds(s) /\ Normalized(s, t) THEN TxAfter(s, t)
       ELSE IF t \in RemovedIds(s) \/ tx[t] = Absent THEN Absent
       ELSE [tx[t] EXCEPT !.enriched = @ \/ TxnItem(t) = item[s]]]

\* Mutant: no backfill.
TxCommittedNoBackfill(s) ==
    [t \in Txns |->
       IF t \in RemovedIds(s) THEN Absent
       ELSE IF t \in ChangedIds(s) /\ Normalized(s, t) THEN TxAfter(s, t)
       ELSE tx[t]]

\* Upserts, then the deletes, then the backfill of every row of the item
\* that is still without category or classification.
TxCommitted(s) ==
    [t \in Txns |->
       LET row == IF t \in ChangedIds(s) /\ Normalized(s, t) THEN TxAfter(s, t) ELSE tx[t]
       IN  IF t \in RemovedIds(s) \/ row = Absent
             THEN Absent
             ELSE [row EXCEPT !.enriched = @ \/ TxnItem(t) = item[s]]]

\* The rows, next_cursor and 'idle' are committed together; the next item of
\* the request follows.  Plaid may return a new cursor for an empty window,
\* or the loaded one, which is then not written.
CommitWindow(s) ==
    LET i == item[s]
        rest == todo[s] \ {i}
    IN  /\ pc[s] = "commit"
        /\ lock[i] \in {s, Nobody}
        /\ ~Conflict(s)
        /\ raw' = RawCommitted(s)
        /\ tx' = TxCommitted(s)
        /\ accounts' = accounts \cup mine[s]
        /\ \E c \in {upto[s], Net(seen[s].cursor, upto[s], cursor[i])} :
             cursor' = [cursor EXCEPT ![i] = c]
        /\ syncStatus' = [syncStatus EXCEPT ![i] = "idle"]
        /\ itemStatus' = [itemStatus EXCEPT ![i] = IF revive[s] THEN "active" ELSE @]
        /\ stale' = [stale EXCEPT ![i] = @ \/ seen[s].cursor # cursor[i]]
        /\ unlocked' = [unlocked EXCEPT ![i] = @ \/ (seen[s].status = "syncing" /\ stale'[i])]
        /\ lock' = Free(s)
        /\ pc' = [pc EXCEPT ![s] = IF rest = {} THEN "idle" ELSE "load"]
        /\ todo' = [todo EXCEPT ![s] = rest]
        /\ seen' = [seen EXCEPT ![s] = NoState]
        /\ upto' = [upto EXCEPT ![s] = 0]
        /\ attempt' = [attempt EXCEPT ![s] = 1]
        /\ mine' = [mine EXCEPT ![s] = {}]
        /\ revive' = [revive EXCEPT ![s] = FALSE]
        /\ view' = [view EXCEPT ![s] = NoView]
        /\ item' = [item EXCEPT ![s] = NoItem]
        /\ known' = [known EXCEPT ![s] = IF rest = {} THEN NoStatus ELSE @]
        /\ UNCHANGED plaidVars

\* A flush meets a conflicting row: IntegrityError, rollback, 500.
CommitConflict(s) ==
    /\ pc[s] = "commit"
    /\ Conflict(s)
    /\ EndRequest(s)
    /\ UNCHANGED <<plaidVars, dbVars>>

\* The process dies, the client disconnects or the database drops the
\* connection at any point before the commit.
Crash(s) ==
    /\ pc[s] # "idle"
    /\ EndRequest(s)
    /\ UNCHANGED <<plaidVars, dbVars>>

-----------------------------------------------------------------------------
(* The rest of the system, one step each.                                  *)

Append1(i, t, op, v) ==
    /\ Len(log[i]) < MaxLog
    /\ log' = [log EXCEPT ![i] = Append(@, [txn |-> t, op |-> op, val |-> v])]
    /\ UNCHANGED <<opened, dbVars, lock, sessVars>>

Mentions(i, t) == {k \in 1..Len(log[i]) : log[i][k].txn = t}
Removed(i, t) == \E k \in Mentions(i, t) : log[i][k].op = "removed"

\* Plaid: a transaction id is added once, modified while it exists, and
\* removed at most once (a posted transaction gets an id of its own).
PlaidChange ==
    \E t \in Txns, v \in Vals :
      LET i == TxnItem(t)
      IN  \/ /\ Mentions(i, t) = {}
             /\ AcctOf[t] \in opened
             /\ Append1(i, t, "added", v)
          \/ /\ Mentions(i, t) # {}
             /\ ~Removed(i, t)
             /\ \/ Append1(i, t, "modified", v)
                \/ Append1(i, t, "removed", log[i][CHOOSE k \in Mentions(i, t) : TRUE].val)

\* Plaid: the user opens another account at the bank.
OpenAccount ==
    /\ \E a \in Accounts \ opened : opened' = opened \cup {a}
    /\ UNCHANGED <<log, dbVars, lock, sessVars>>

\* POST /plaid/accounts/sync for one item ...
SyncAccounts ==
    /\ \E i \in Items :
         /\ accounts' = accounts \cup {a \in opened \cap SyncedAccts : ItemOf[a] = i}
         /\ itemStatus' = [itemStatus EXCEPT ![i] = "active"]
    /\ UNCHANGED <<plaidVars, cursor, syncStatus, raw, tx, stale, unlocked, lock, sessVars>>

\* ... and the login failure it persists.
SyncAccountsLoginRequired ==
    /\ \E i \in Items : itemStatus' = [itemStatus EXCEPT ![i] = "login_required"]
    /\ UNCHANGED <<plaidVars, cursor, syncStatus, accounts, raw, tx, stale, unlocked, lock, sessVars>>

\* PlaidLinkService: a broken connection is retired by a fresh link, or made
\* active by an update-mode link.
Relink ==
    /\ \E i \in Items :
         \/ /\ itemStatus[i] = "login_required"
            /\ itemStatus' = [itemStatus EXCEPT ![i] = "disconnected"]
         \/ itemStatus' = [itemStatus EXCEPT ![i] = "active"]
    /\ UNCHANGED <<plaidVars, cursor, syncStatus, accounts, raw, tx, stale, unlocked, lock, sessVars>>

-----------------------------------------------------------------------------

SessionInit ==
    /\ lock = [i \in Items |-> Nobody]
    /\ pc = [s \in Sessions |-> "idle"]
    /\ todo = [s \in Sessions |-> {}]
    /\ item = [s \in Sessions |-> NoItem]
    /\ known = [s \in Sessions |-> NoStatus]
    /\ seen = [s \in Sessions |-> NoState]
    /\ upto = [s \in Sessions |-> 0]
    /\ attempt = [s \in Sessions |-> 1]
    /\ mine = [s \in Sessions |-> {}]
    /\ revive = [s \in Sessions |-> FALSE]
    /\ view = [s \in Sessions |-> NoView]

\* Freshly linked items, nothing synced.
FreshInit ==
    /\ log = [i \in Items |-> <<>>]
    /\ cursor = [i \in Items |-> 0]
    /\ syncStatus = [i \in Items |-> "none"]
    /\ accounts = {}
    /\ raw = [t \in Txns |-> Absent]
    /\ tx = [t \in Txns |-> Absent]

\* A database of the release before categorization: one transaction synced,
\* its row without category and classification.
LegacyInit ==
    \E t \in Txns, v \in Vals :
      /\ AcctOf[t] \in SyncedAccts \cap opened
      /\ log = [i \in Items |-> IF i = TxnItem(t)
                                  THEN <<[txn |-> t, op |-> "added", val |-> v]>>
                                  ELSE <<>>]
      /\ cursor = [i \in Items |-> IF i = TxnItem(t) THEN 1 ELSE 0]
      /\ syncStatus = [i \in Items |-> IF i = TxnItem(t) THEN "idle" ELSE "none"]
      /\ accounts = {AcctOf[t]}
      /\ raw = [u \in Txns |-> IF u = t THEN [val |-> v, status |-> "processed"] ELSE Absent]
      /\ tx = [u \in Txns |-> IF u = t THEN [val |-> v, enriched |-> FALSE] ELSE Absent]

Init ==
    /\ opened \in SUBSET Accounts
    /\ itemStatus = [i \in Items |-> "active"]
    /\ stale = [i \in Items |-> FALSE]
    /\ unlocked = [i \in Items |-> FALSE]
    /\ FreshInit \/ LegacyInit
    /\ SessionInit

\* A step the server takes for an accepted request.
Progress(s) ==
    \/ LoadState(s)
    \/ CreateState(s)
    \/ FetchPage(s)
    \/ RestartFetch(s)
    \/ FetchFails(s)
    \/ FlushSyncing(s)
    \/ SyncItemAccounts(s)
    \/ SyncItemAccountsLoginRequired(s)
    \/ SyncItemAccountsFails(s)
    \/ ReadAccounts(s)
    \/ ReadRaws(s)
    \/ ReadTxs(s)
    \/ CommitWindow(s)
    \/ CommitConflict(s)

Next ==
    \/ \E s \in Sessions : SyncTransactions(s) \/ Progress(s) \/ Crash(s)
    \/ PlaidChange
    \/ OpenAccount
    \/ SyncAccounts
    \/ SyncAccountsLoginRequired
    \/ Relink

Spec == Init /\ [][Next]_vars

\* An accepted request keeps running: the event loop resumes its coroutine
\* and every awaited call returns or raises (Crash is not promised).  Strong
\* fairness, because a waiter for the row lock is served in PostgreSQL's
\* first-come lock queue and not overtaken for ever by later requests.
Fairness == \A s \in Sessions : SF_vars(Progress(s))

-----------------------------------------------------------------------------
(* Properties.                                                             *)

\* k is the last change of its transaction among the first c of the item.
LastAt(i, k, c) ==
    /\ k \in 1..c
    /\ \A j \in (k + 1)..c : log[i][j].txn # log[i][k].txn

\* The tables agree with change e: a removed transaction has no row; any
\* other has its payload in the audit trail and, unless it was skipped, in
\* its normalized row.
Reflected(e) ==
    IF e.op = "removed"
      THEN tx[e.txn] = Absent
      ELSE /\ raw[e.txn] # Absent
           /\ raw[e.txn].val = e.val
           /\ raw[e.txn].status = "processed" =>
                /\ tx[e.txn] # Absent
                /\ tx[e.txn].val = e.val

\* The tables are what Plaid's history up to the stored cursor amounts to.
MirrorsCursor(i) ==
    /\ cursor[i] <= Len(log[i])
    /\ \A k \in 1..cursor[i] : LastAt(i, k, cursor[i]) => Reflected(log[i][k])

\* "The cursor is committed atomically with the data it describes": whatever
\* crashes, failures, restarts and overlapping requests occur, an item whose
\* every commit came from a request that had read the cursor it replaced has
\* exactly the data its cursor stands for.
MirrorWhenSerial == \A i \in Items : ~stale[i] => MirrorsCursor(i)

\* The same without the proviso, and only for transactions Plaid will not
\* send again: a change at or before the cursor that nothing follows has
\* reached the tables ("the upserts/deletes converge to the same state").
NothingLost ==
    \A i \in Items : \A k \in 1..cursor[i] :
      LastAt(i, k, Len(log[i])) => Reflected(log[i][k])

\* The audit trail only grows, and a transaction that was normalized once is
\* not marked skipped by a request that loaded its accounts earlier: the row
\* lock keeps the requests of an item apart from the account query to the
\* commit.  A request that found 'syncing' takes no lock; if it commits over
\* another one's cursor, it may mark such a row skipped.
AuditTrailKept ==
    [][\A t \in Txns : raw[t] # Absent =>
         /\ raw'[t] # Absent
         /\ raw[t].status = "processed" /\ ~unlocked'[TxnItem(t)] =>
              raw'[t].status = "processed"]_vars

\* A normalized row stands on an account we hold and on a raw row (what
\* _backfill_enrichment joins), which is marked processed unless a request
\* without the lock committed over another's cursor, and has the same payload
\* unless any request did.
RowsBacked ==
    \A t \in Txns : tx[t] # Absent =>
      /\ AcctOf[t] \in accounts
      /\ raw[t] # Absent
      /\ ~unlocked[TxnItem(t)] => raw[t].status = "processed"
      /\ ~stale[TxnItem(t)] => raw[t].val = tx[t].val

\* "Data synced before these features existed heals itself": a commit of an
\* item's window leaves none of its rows unenriched.
HealedByCommit ==
    [][\A s \in Sessions, t \in Txns :
         CommitWindow(s) /\ TxnItem(t) = item[s] /\ tx'[t] # Absent => tx'[t].enriched]_vars

\* Only transactions of account types that are not synced are skipped
\* (README: "Transactions belonging to account types we don't sync").
SkippedOnlyUnsynced ==
    \A t \in Txns : raw[t] # Absent /\ raw[t].status = "skipped" => AcctOf[t] \notin SyncedAccts

\* "Plaid failures mark the sync state error before surfacing."
FailureMarksError ==
    [][\A s \in Sessions :
         FetchFails(s) \/ SyncItemAccountsLoginRequired(s) => syncStatus'[item[s]] = "error"]_vars

\* Every accepted request is answered: paging ends, the restart is taken at
\* most once, and nobody waits for ever for the row lock.
RequestEnds == \A s \in Sessions : pc[s] # "idle" ~> pc[s] = "idle"

=============================================================================

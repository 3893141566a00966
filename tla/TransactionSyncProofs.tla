------------------------ MODULE TransactionSyncProofs ------------------------
(***************************************************************************)
(* What holds of a transaction sync for every number of items, accounts,   *)
(* transactions, payloads and overlapping requests, every page size and    *)
(* every history of the items at Plaid.                                    *)
(*                                                                         *)
(* First TypeOK and MirrorWhenSerial.  Then what the tables promise also   *)
(* when requests commit over each other's cursor: RowsBacked,              *)
(* AuditTrailKept and HealedByCommit.  Last, that the sync implements      *)
(* Mirror as long as requests do not overlap.                              *)
(***************************************************************************)
EXTENDS SyncRefinement, WellFoundedInduction, TLAPS

-----------------------------------------------------------------------------
(* The inductive invariant.                                                *)

\* Plaid adds an id once, first, and removes it at most once, last; an
\* item's log mentions only the item's transactions.
LogWellFormed ==
    \A i \in Items : \A k \in 1..Len(log[i]) :
      /\ TxnItem(log[i][k].txn) = i
      /\ \A j \in 1..(k - 1) : log[i][j].txn = log[i][k].txn =>
           log[i][j].op # "removed" /\ log[i][k].op # "added"

Windowed == {"fetch", "flush", "accts", "list", "raws", "txs", "commit"}

\* A fetched window lies within the item's log and, unless some commit was
\* stale, does not start after the stored cursor.
WindowOK(s) ==
    pc[s] \in Windowed =>
      /\ seen[s].cursor <= upto[s]
      /\ upto[s] <= Len(log[item[s]])
      /\ ~stale[item[s]] => seen[s].cursor <= cursor[item[s]]

\* Same row, up to the enrichment columns.
SameRow(r, q) == (r = Absent <=> q = Absent) /\ (q # Absent => r.val = q.val)

\* The raw rows a session has loaded still exist, and a session that still
\* holds the stored cursor holds the current rows.
ViewOK(s) ==
    pc[s] \in {"txs", "commit"} =>
      /\ \A t \in Txns : view[s].raw[t] # Absent => raw[t] # Absent
      /\ ~stale[item[s]] /\ seen[s].cursor = cursor[item[s]] =>
           \A t \in ChangedIds(s) :
             /\ view[s].raw[t] = raw[t]
             /\ pc[s] = "commit" => SameRow(view[s].tx[t], tx[t])

\* No cursor is ahead of Plaid.
CursorsInLog == \A i \in Items : cursor[i] <= Len(log[i])

IInv ==
    /\ TypeOK
    /\ LogWellFormed
    /\ CursorsInLog
    /\ \A s \in Sessions : WindowOK(s)
    /\ \A s \in Sessions : ViewOK(s)
    /\ MirrorWhenSerial

-----------------------------------------------------------------------------
(* Facts about windows.                                                    *)

\* A bounded set of positions has a greatest one: the last entry for an id.
LEMMA MaxExists ==
  ASSUME NEW n \in Nat, NEW S, S \subseteq 0..n, S # {}
  PROVE  \E m \in S : \A j \in S : j <= m
<1> DEFINE D == {d \in Nat : \E k \in S : d = n - k}
           R == OpToRel(<, Nat)
<1>1. IsWellFoundedOn(R, Nat)
  BY NatLessThanWellFounded
<1>2. \A e, d \in Nat : e < d => <<e, d>> \in R
  BY DEF OpToRel
<1> HIDE DEF R
<1>3. D \subseteq Nat /\ D # {}
  <2>1. PICK k \in S : TRUE
    OBVIOUS
  <2>2. n - k \in D
    BY SMT
  <2> QED BY <2>2
<1>4. PICK d \in D : \A e \in D : ~(<<e, d>> \in R)
  <2> HIDE DEF D
  <2> QED BY <1>1, <1>3, WFMin
<1>5. \A e \in D : ~(e < d)
  BY <1>4, <1>2
<1>6. PICK m \in S : d = n - m
  OBVIOUS
<1>7. ASSUME NEW j \in S PROVE j <= m
  <2>1. n - j \in D
    BY SMT
  <2> QED BY <2>1, <1>5, <1>6, SMT
<1> QED BY <1>7

\* The payload of a changed id is a payload.
LEMMA PayloadType ==
  ASSUME TypeOK, NEW s \in Sessions, upto[s] <= Len(log[item[s]]),
         NEW t \in ChangedIds(s)
  PROVE  Payload(s, t) \in Vals
<1> DEFINE L == log[item[s]]
           mods == {k \in Upserts(s, t) : L[k].op = "modified"}
           from == IF mods # {} THEN mods ELSE Upserts(s, t)
           last == CHOOSE k \in from : \A j \in from : j <= k
<1>1. L \in Seq(Change) /\ upto[s] \in Nat /\ seen[s].cursor \in Nat
  BY DEF TypeOK
<1>2. from \subseteq 1..Len(L) /\ from # {}
  <2>1. Positions(s, t) \subseteq 1..Len(L)
    BY <1>1 DEF Positions
  <2>2. Upserts(s, t) \subseteq 1..Len(L) /\ Upserts(s, t) # {}
    BY <2>1 DEF ChangedIds, Upserts
  <2> QED BY <2>2
<1>3. Len(L) \in Nat /\ from \subseteq 0..Len(L)
  BY <1>1, <1>2
<1>4. \E k \in from : \A j \in from : j <= k
  <2> HIDE DEF from, L
  <2> QED BY <1>2, <1>3, MaxExists
<1>5. last \in from
  <2> HIDE DEF from
  <2> QED BY <1>4
<1>6. L[last] \in Change
  <2> HIDE DEF last, from, L
  <2> QED BY <1>1, <1>2, <1>5
<1>7. Payload(s, t) = L[last].val
  BY DEF Payload
<1> QED
  <2> HIDE DEF last, L
  <2> QED BY <1>6, <1>7 DEF Change

\* A session none of whose fields and whose item's log change keeps its window.
LEMMA SameWindow ==
  ASSUME NEW r \in Sessions, log' = log, item'[r] = item[r], seen'[r] = seen[r],
         upto'[r] = upto[r]
  PROVE  /\ ChangedIds(r)' = ChangedIds(r)
         /\ RemovedIds(r)' = RemovedIds(r)
<1>1. ASSUME NEW t \in Txns
      PROVE Positions(r, t)' = Positions(r, t) /\ Upserts(r, t)' = Upserts(r, t)
  BY DEF Positions, Upserts
<1> QED BY <1>1 DEF ChangedIds, RemovedIds

-----------------------------------------------------------------------------
(* Initially.                                                              *)

LEMMA InitInvariant == Init => IInv
<1> SUFFICES ASSUME Init PROVE IInv
  OBVIOUS
<1> USE ConstantsAssumption
<1>1. NoItem \in Items /\ NoState \in [cursor : Nat, status : SyncStatus]
  BY DEF NoItem, NoState, SyncStatus
<1>2. NoView \in View
  BY DEF NoView, View
<1>3. NoStatus \in [Items -> PlaidItemStatus]
  BY DEF NoStatus, PlaidItemStatus
<1>4. /\ lock \in [Items -> Sessions \cup {Nobody}]
      /\ pc \in [Sessions -> {"idle", "load", "insert", "fetch", "flush", "accts",
                              "list", "raws", "txs", "commit"}]
      /\ todo \in [Sessions -> SUBSET Items]
      /\ item \in [Sessions -> Items]
      /\ known \in [Sessions -> [Items -> PlaidItemStatus]]
      /\ seen \in [Sessions -> [cursor : Nat, status : SyncStatus]]
      /\ upto \in [Sessions -> Nat]
      /\ attempt \in [Sessions -> {1, 2}]
      /\ mine \in [Sessions -> SUBSET Accounts]
      /\ revive \in [Sessions -> BOOLEAN]
      /\ view \in [Sessions -> View]
      /\ stale \in [Items -> BOOLEAN]
      /\ unlocked \in [Items -> BOOLEAN]
      /\ itemStatus \in [Items -> PlaidItemStatus]
      /\ opened \subseteq Accounts
  BY <1>1, <1>2, <1>3 DEF Init, SessionInit, PlaidItemStatus
<1>5. (\A s \in Sessions : WindowOK(s)) /\ (\A s \in Sessions : ViewOK(s))
  BY DEF Init, SessionInit, WindowOK, ViewOK, Windowed
<1>6. CASE FreshInit
  <2>1. TypeOK
    BY <1>4, <1>6 DEF FreshInit, TypeOK, SyncStatus
  <2>2. LogWellFormed /\ MirrorWhenSerial /\ CursorsInLog
    BY <1>6 DEF FreshInit, LogWellFormed, MirrorWhenSerial, MirrorsCursor, CursorsInLog
  <2> QED BY <2>1, <2>2, <1>5 DEF IInv
<1>7. CASE LegacyInit
  <2>1. PICK t \in Txns, v \in Vals :
      /\ AcctOf[t] \in SyncedAccts \cap opened
      /\ log = [i \in Items |-> IF i = TxnItem(t)
                                  THEN <<[txn |-> t, op |-> "added", val |-> v]>>
                                  ELSE <<>>]
      /\ cursor = [i \in Items |-> IF i = TxnItem(t) THEN 1 ELSE 0]
      /\ syncStatus = [i \in Items |-> IF i = TxnItem(t) THEN "idle" ELSE "none"]
      /\ accounts = {AcctOf[t]}
      /\ raw = [u \in Txns |-> IF u = t THEN [val |-> v, status |-> "processed"] ELSE Absent]
      /\ tx = [u \in Txns |-> IF u = t THEN [val |-> v, enriched |-> FALSE] ELSE Absent]
    BY <1>7 DEF LegacyInit
  <2>2. /\ [txn |-> t, op |-> "added", val |-> v] \in Change
        /\ [val |-> v, status |-> "processed"] \in RawRow
        /\ [val |-> v, enriched |-> FALSE] \in TxRow
    BY DEF Change, RawRow, TxRow
  <2>3. log \in [Items -> Seq(Change)]
    BY <2>1, <2>2
  <2>4. raw \in [Txns -> RawRow \cup {Absent}] /\ tx \in [Txns -> TxRow \cup {Absent}]
    BY <2>1, <2>2
  <2>5. /\ cursor \in [Items -> Nat] /\ accounts \subseteq Accounts
        /\ syncStatus \in [Items -> SyncStatus]
    BY <2>1 DEF SyncStatus
  <2>6. TypeOK
    BY <1>4, <2>3, <2>4, <2>5 DEF TypeOK
  <2>7. ASSUME NEW i \in Items, i = TxnItem(t)
        PROVE  log[i] = <<[txn |-> t, op |-> "added", val |-> v]>> /\ Len(log[i]) = 1
    BY <2>1, <2>7
  <2>8. ASSUME NEW i \in Items, i # TxnItem(t)
        PROVE  log[i] = <<>> /\ Len(log[i]) = 0 /\ cursor[i] = 0
    BY <2>1, <2>8
  <2>9. LogWellFormed
    <3> SUFFICES ASSUME NEW i \in Items, NEW k \in 1..Len(log[i])
                 PROVE  /\ TxnItem(log[i][k].txn) = i
                        /\ 1..(k - 1) = {}
      BY DEF LogWellFormed
    <3>1. i = TxnItem(t)
      <4>1. Len(log[i]) # 0
        OBVIOUS
      <4> QED BY <2>8, <4>1, Zenon
    <3>2. k = 1
      <4>1. Len(log[i]) = 1
        BY <2>7, <3>1, Zenon
      <4> QED BY <4>1
    <3>3. log[i][k].txn = t
      BY <2>7, <3>1, <3>2
    <3> QED BY <3>1, <3>2, <3>3
  <2>10. MirrorWhenSerial /\ CursorsInLog
    <3> SUFFICES ASSUME NEW i \in Items
                 PROVE  /\ cursor[i] <= Len(log[i])
                        /\ \A k \in 1..cursor[i] : Reflected(log[i][k])
      BY DEF MirrorWhenSerial, MirrorsCursor, CursorsInLog
    <3>1. CASE i # TxnItem(t)
      BY <3>1, <2>8
    <3>2. CASE i = TxnItem(t)
      <4>1. cursor[i] = 1 /\ log[i][1] = [txn |-> t, op |-> "added", val |-> v]
        BY <3>2, <2>1, <2>7
      <4>2. Reflected([txn |-> t, op |-> "added", val |-> v])
        BY <2>1, <2>2 DEF Reflected
      <4> QED BY <4>1, <4>2, <2>7, <3>2
    <3> QED BY <3>1, <3>2
  <2> QED BY <2>6, <2>9, <2>10, <1>5 DEF IInv
<1> QED BY <1>6, <1>7 DEF Init

-----------------------------------------------------------------------------
(* Steps that leave the log, the cursors and the transaction tables alone. *)

\* If such a step changes the fields of session s only, then only s's own
\* window and view have to be checked again.
LEMMA QuietStep ==
  ASSUME IInv, TypeOK', NEW s \in Sessions,
         UNCHANGED <<log, cursor, raw, tx, stale>>,
         \A r \in Sessions \ {s} :
           /\ pc'[r] = pc[r] /\ item'[r] = item[r] /\ seen'[r] = seen[r]
           /\ upto'[r] = upto[r] /\ view'[r] = view[r],
         WindowOK(s)', ViewOK(s)'
  PROVE  IInv'
<1>1. LogWellFormed' /\ MirrorWhenSerial' /\ CursorsInLog'
  <2>1. LogWellFormed' /\ CursorsInLog'
    BY DEF IInv, LogWellFormed, CursorsInLog
  <2>2. MirrorWhenSerial'
    BY DEF IInv, MirrorWhenSerial, MirrorsCursor, LastAt, Reflected
  <2> QED BY <2>1, <2>2
<1>2. ASSUME NEW r \in Sessions PROVE WindowOK(r)'
  <2>1. CASE r = s
    BY <2>1
  <2>2. CASE r # s
    BY <2>2 DEF IInv, WindowOK
  <2> QED BY <2>1, <2>2
<1>3. ASSUME NEW r \in Sessions PROVE ViewOK(r)'
  <2>1. CASE r = s
    BY <2>1
  <2>2. CASE r # s
    <3>1. ChangedIds(r)' = ChangedIds(r)
      BY <2>2, SameWindow
    <3> QED BY <2>2, <3>1 DEF IInv, ViewOK, SameRow
  <2> QED BY <2>1, <2>2
<1> QED BY <1>1, <1>2, <1>3 DEF IInv

\* The end of a request, committed or rolled back, is such a step.
LEMMA EndRequestStep ==
  ASSUME IInv, NEW s \in Sessions, EndRequest(s),
         UNCHANGED <<log, opened, cursor, accounts, raw, tx, stale, unlocked>>,
         syncStatus' \in [Items -> SyncStatus],
         itemStatus' \in [Items -> PlaidItemStatus]
  PROVE  IInv'
<1>1. TypeOK'
  <2> USE ConstantsAssumption
  <2>1. NoItem \in Items /\ NoState \in [cursor : Nat, status : SyncStatus]
    BY DEF NoItem, NoState, SyncStatus
  <2>2. NoView \in View /\ NoStatus \in [Items -> PlaidItemStatus]
    BY DEF NoView, View, NoStatus, PlaidItemStatus
  <2>3. Free(s) \in [Items -> Sessions \cup {Nobody}]
    BY DEF Free, IInv, TypeOK
  <2> QED BY <2>1, <2>2, <2>3 DEF EndRequest, IInv, TypeOK
<1>2. pc'[s] = "idle"
  BY DEF EndRequest, IInv, TypeOK
<1>3. WindowOK(s)' /\ ViewOK(s)'
  BY <1>2 DEF WindowOK, ViewOK, Windowed
<1>4. \A r \in Sessions \ {s} :
           /\ pc'[r] = pc[r] /\ item'[r] = item[r] /\ seen'[r] = seen[r]
           /\ upto'[r] = upto[r] /\ view'[r] = view[r]
  BY DEF EndRequest, IInv, TypeOK
<1> QED BY <1>1, <1>3, <1>4, QuietStep

\* The steps of one request before its commit, one lemma step per action.
LEMMA RequestStep ==
  ASSUME IInv, NEW s \in Sessions,
         \/ SyncTransactions(s) \/ LoadState(s) \/ CreateState(s) \/ FetchPage(s)
         \/ RestartFetch(s) \/ FetchFails(s) \/ FlushSyncing(s) \/ SyncItemAccounts(s)
         \/ SyncItemAccountsLoginRequired(s) \/ SyncItemAccountsFails(s) \/ ReadAccounts(s)
         \/ ReadRaws(s) \/ ReadTxs(s) \/ CommitConflict(s) \/ Crash(s)
  PROVE  IInv'
<1> USE ConstantsAssumption
<1> DEFINE Others == \A r \in Sessions \ {s} :
                       /\ pc'[r] = pc[r] /\ item'[r] = item[r] /\ seen'[r] = seen[r]
                       /\ upto'[r] = upto[r] /\ view'[r] = view[r]
<1>0. TypeOK /\ item[s] \in Items /\ log[item[s]] \in Seq(Change) /\ WindowOK(s) /\ ViewOK(s)
  BY DEF IInv, TypeOK
<1>1. CASE SyncTransactions(s)
  <2>1. TypeOK'
    <3>1. PICK targets \in {{i} : i \in Items}
                           \cup {{i \in Items : itemStatus[i] # "disconnected"}} :
            todo' = [todo EXCEPT ![s] = targets]
      BY <1>1 DEF SyncTransactions
    <3>2. targets \in SUBSET Items
      OBVIOUS
    <3>3. /\ todo' \in [Sessions -> SUBSET Items]
          /\ known' \in [Sessions -> [Items -> PlaidItemStatus]]
          /\ pc' \in [Sessions -> {"idle", "load", "insert", "fetch", "flush", "accts",
                                   "list", "raws", "txs", "commit"}]
      BY <1>1, <1>0, <3>1, <3>2 DEF SyncTransactions, TypeOK
    <3>4. UNCHANGED <<plaidVars, dbVars, lock, item, seen, upto, attempt, mine, revive, view>>
      BY <1>1 DEF SyncTransactions
    <3> QED BY <1>0, <3>3, <3>4 DEF TypeOK, plaidVars, dbVars
  <2>2. pc'[s] = "load" /\ Others /\ UNCHANGED <<log, cursor, raw, tx, stale>>
    BY <1>1, <1>0 DEF SyncTransactions, TypeOK, plaidVars, dbVars
  <2>3. WindowOK(s)' /\ ViewOK(s)'
    BY <2>2 DEF WindowOK, ViewOK, Windowed
  <2> QED BY <2>1, <2>2, <2>3, QuietStep
<1>2. CASE LoadState(s)
  <2>1. PICK i \in todo[s] :
          /\ item' = [item EXCEPT ![s] = i]
          /\ \/ /\ pc' = [pc EXCEPT ![s] = "insert"]
                /\ UNCHANGED <<seen, upto>>
             \/ /\ pc' = [pc EXCEPT ![s] = "fetch"]
                /\ seen' = [seen EXCEPT ![s] = [cursor |-> cursor[i], status |-> syncStatus[i]]]
                /\ upto' = [upto EXCEPT ![s] = cursor[i]]
    BY <1>2 DEF LoadState
  <2>2. UNCHANGED <<plaidVars, dbVars, lock, todo, known, attempt, mine, revive, view>>
    BY <1>2 DEF LoadState
  <2>3. i \in Items
    BY <1>0 DEF TypeOK
  <2>4. TypeOK'
    <3>1. /\ pc' \in [Sessions -> {"idle", "load", "insert", "fetch", "flush", "accts",
                                   "list", "raws", "txs", "commit"}]
          /\ item' \in [Sessions -> Items]
      BY <1>0, <2>1, <2>3 DEF TypeOK
    <3>2. [cursor |-> cursor[i], status |-> syncStatus[i]] \in [cursor : Nat, status : SyncStatus]
      BY <1>0, <2>3 DEF TypeOK
    <3>3. seen' \in [Sessions -> [cursor : Nat, status : SyncStatus]]
      <4>1. \/ seen' = seen
            \/ seen' = [seen EXCEPT ![s] = [cursor |-> cursor[i], status |-> syncStatus[i]]]
        BY <2>1, Zenon
      <4>2. seen \in [Sessions -> [cursor : Nat, status : SyncStatus]]
        BY <1>0 DEF TypeOK
      <4> HIDE DEF SyncStatus
      <4> QED BY <3>2, <4>1, <4>2
    <3>4. upto' \in [Sessions -> Nat]
      <4>1. upto' = upto \/ upto' = [upto EXCEPT ![s] = cursor[i]]
        BY <2>1, Zenon
      <4>2. upto \in [Sessions -> Nat] /\ cursor[i] \in Nat
        BY <1>0, <2>3 DEF TypeOK
      <4> QED BY <4>1, <4>2
    <3> QED BY <1>0, <2>2, <3>1, <3>3, <3>4 DEF TypeOK, plaidVars, dbVars
  <2>5. Others /\ UNCHANGED <<log, cursor, raw, tx, stale>>
    BY <1>0, <2>1, <2>2 DEF TypeOK, plaidVars, dbVars
  <2>6. cursor[i] <= Len(log[i])
    BY <2>3 DEF IInv, CursorsInLog
  <2>7. WindowOK(s)'
    BY <1>0, <2>1, <2>3, <2>5, <2>6 DEF TypeOK, WindowOK, Windowed
  <2>8. ViewOK(s)'
    BY <1>0, <2>1 DEF TypeOK, ViewOK
  <2> QED BY <2>4, <2>5, <2>7, <2>8, QuietStep
<1>3. CASE CreateState(s)
  <2>1. CASE syncStatus[item[s]] # "none" /\ EndRequest(s) /\ UNCHANGED <<plaidVars, dbVars>>
    BY <1>0, <2>1, EndRequestStep DEF TypeOK, plaidVars, dbVars
  <2>2. CASE /\ lock' = [lock EXCEPT ![item[s]] = s]
             /\ pc' = [pc EXCEPT ![s] = "fetch"]
             /\ seen' = [seen EXCEPT ![s] = NoState]
             /\ upto' = [upto EXCEPT ![s] = 0]
             /\ UNCHANGED <<todo, item, known, attempt, mine, revive, view>>
             /\ UNCHANGED <<plaidVars, dbVars>>
    <3>1. NoState \in [cursor : Nat, status : SyncStatus] /\ NoState.cursor = 0
      BY DEF NoState, SyncStatus
    <3>2. TypeOK'
      BY <1>0, <2>2, <3>1 DEF TypeOK, plaidVars, dbVars
    <3>3. Others /\ UNCHANGED <<log, cursor, raw, tx, stale>>
      BY <1>0, <2>2 DEF TypeOK, plaidVars, dbVars
    <3>4. /\ pc'[s] = "fetch" /\ item'[s] = item[s] /\ seen'[s] = NoState /\ upto'[s] = 0
          /\ Len(log[item[s]]) \in Nat /\ cursor[item[s]] \in Nat
      BY <1>0, <2>2 DEF TypeOK
    <3>5. WindowOK(s)' /\ ViewOK(s)'
      BY <3>1, <3>3, <3>4 DEF WindowOK, ViewOK
    <3> QED BY <3>2, <3>3, <3>5, QuietStep
  <2> QED BY <1>3, <2>1, <2>2 DEF CreateState
<1>4. CASE FetchPage(s)
  <2> DEFINE end == Len(log[item[s]])
             next == IF upto[s] + PageSize < end THEN upto[s] + PageSize ELSE end
  <2>1. /\ pc[s] = "fetch"
        /\ upto' = [upto EXCEPT ![s] = next]
        /\ pc' = [pc EXCEPT ![s] = IF next < end THEN "fetch" ELSE "flush"]
        /\ UNCHANGED <<plaidVars, dbVars, lock, todo, item, known, seen, attempt,
                       mine, revive, view>>
    BY <1>4 DEF FetchPage
  <2>2. end \in Nat /\ next \in Nat /\ next <= end /\ seen[s].cursor <= next
    BY <1>0, <2>1 DEF TypeOK, WindowOK, Windowed
  <2> HIDE DEF next
  <2>3. TypeOK'
    BY <1>0, <2>1, <2>2 DEF TypeOK, plaidVars, dbVars
  <2>4. Others /\ UNCHANGED <<log, cursor, raw, tx, stale>>
    BY <1>0, <2>1 DEF TypeOK, plaidVars, dbVars
  <2>5. pc'[s] \in {"fetch", "flush"} /\ upto'[s] = next /\ seen' = seen /\ item' = item
    BY <1>0, <2>1 DEF TypeOK
  <2>6. WindowOK(s)' /\ ViewOK(s)'
    BY <1>0, <2>1, <2>2, <2>4, <2>5 DEF WindowOK, ViewOK, Windowed
  <2> QED BY <2>3, <2>4, <2>6, QuietStep
<1>5. CASE RestartFetch(s)
  <2>1. TypeOK'
    BY <1>0, <1>5 DEF RestartFetch, TypeOK, plaidVars, dbVars
  <2>2. Others /\ UNCHANGED <<log, cursor, raw, tx, stale>>
    BY <1>0, <1>5 DEF RestartFetch, TypeOK, plaidVars, dbVars
  <2>3. /\ pc[s] = "fetch" /\ pc' = pc /\ upto'[s] = seen[s].cursor /\ seen' = seen /\ item' = item
        /\ seen[s].cursor \in Nat /\ upto[s] \in Nat /\ Len(log[item[s]]) \in Nat
    BY <1>0, <1>5 DEF RestartFetch, TypeOK
  <2>4. WindowOK(s)' /\ ViewOK(s)'
    BY <1>0, <2>2, <2>3 DEF WindowOK, ViewOK, Windowed
  <2> QED BY <2>1, <2>2, <2>4, QuietStep
<1>6. CASE FetchFails(s)
  <2>1. /\ syncStatus' \in [Items -> SyncStatus]
        /\ itemStatus' \in [Items -> PlaidItemStatus]
    BY <1>0, <1>6 DEF FetchFails, Net, TypeOK, SyncStatus, PlaidItemStatus
  <2> QED BY <1>6, <2>1, EndRequestStep DEF FetchFails, plaidVars
<1>7. CASE FlushSyncing(s)
  <2>0. /\ lock' \in [Items -> Sessions \cup {Nobody}]
        /\ pc' \in [Sessions -> {"idle", "load", "insert", "fetch", "flush", "accts",
                                 "list", "raws", "txs", "commit"}]
        /\ UNCHANGED <<plaidVars, dbVars, todo, item, known, seen, upto, attempt, mine, revive, view>>
    <3>1. /\ lock \in [Items -> Sessions \cup {Nobody}] /\ item[s] \in Items
          /\ pc \in [Sessions -> {"idle", "load", "insert", "fetch", "flush", "accts",
                                 "list", "raws", "txs", "commit"}]
      BY <1>0 DEF TypeOK
    <3>2. lock' = lock \/ lock' = [lock EXCEPT ![item[s]] = s]
      BY <1>7 DEF FlushSyncing
    <3>3. \/ pc' = [pc EXCEPT ![s] = "accts"]
          \/ pc' = [pc EXCEPT ![s] = "list"]
      BY <1>7 DEF FlushSyncing
    <3>4. UNCHANGED <<plaidVars, dbVars, todo, item, known, seen, upto, attempt, mine, revive, view>>
      BY <1>7 DEF FlushSyncing
    <3> QED BY <3>1, <3>2, <3>3, <3>4
  <2>1. TypeOK'
    BY <1>0, <2>0 DEF TypeOK, plaidVars, dbVars
  <2>2. Others /\ UNCHANGED <<log, cursor, raw, tx, stale>>
    BY <1>0, <1>7 DEF FlushSyncing, TypeOK, plaidVars, dbVars
  <2>3. /\ pc[s] = "flush" /\ pc'[s] \in {"accts", "list"}
        /\ UNCHANGED <<item, seen, upto>>
    BY <1>0, <1>7 DEF FlushSyncing, TypeOK
  <2>4. WindowOK(s)' /\ ViewOK(s)'
    BY <1>0, <2>2, <2>3 DEF WindowOK, ViewOK, Windowed
  <2> QED BY <2>1, <2>2, <2>4, QuietStep
<1>8. CASE SyncItemAccounts(s)
  <2>1. TypeOK'
    BY <1>0, <1>8 DEF SyncItemAccounts, TypeOK, plaidVars, dbVars
  <2>2. Others /\ UNCHANGED <<log, cursor, raw, tx, stale>>
    BY <1>0, <1>8 DEF SyncItemAccounts, TypeOK, plaidVars, dbVars
  <2>3. pc[s] = "accts" /\ pc'[s] = "list" /\ UNCHANGED <<item, seen, upto>>
    BY <1>0, <1>8 DEF SyncItemAccounts, TypeOK
  <2>4. WindowOK(s)' /\ ViewOK(s)'
    BY <1>0, <2>2, <2>3 DEF WindowOK, ViewOK, Windowed
  <2> QED BY <2>1, <2>2, <2>4, QuietStep
<1>9. CASE SyncItemAccountsLoginRequired(s)
  <2>1. /\ syncStatus' \in [Items -> SyncStatus]
        /\ itemStatus' \in [Items -> PlaidItemStatus]
    BY <1>0, <1>9 DEF SyncItemAccountsLoginRequired, Net, TypeOK, SyncStatus, PlaidItemStatus
  <2> QED BY <1>9, <2>1, EndRequestStep DEF SyncItemAccountsLoginRequired, plaidVars
<1>10. CASE SyncItemAccountsFails(s) \/ CommitConflict(s) \/ Crash(s)
  BY <1>0, <1>10, EndRequestStep
     DEF SyncItemAccountsFails, CommitConflict, Crash, TypeOK, plaidVars, dbVars
<1>11. CASE ReadAccounts(s)
  <2> DEFINE acc == {a \in accounts \cup mine[s] : ItemOf[a] = item[s]}
             new == [view[s] EXCEPT !.acc = acc]
  <2>1. /\ pc[s] = "list" /\ pc' = [pc EXCEPT ![s] = "raws"]
        /\ view' = [view EXCEPT ![s] = new]
        /\ UNCHANGED <<plaidVars, dbVars, lock, todo, item, known, seen, upto, attempt,
                       mine, revive>>
    BY <1>11 DEF ReadAccounts
  <2>2. new \in View
    <3>1. acc \subseteq Accounts /\ view[s] \in View
      BY <1>0 DEF TypeOK
    <3> HIDE DEF acc
    <3> QED BY <3>1 DEF View
  <2> HIDE DEF new
  <2>3. view' \in [Sessions -> View]
    BY <1>0, <2>1, <2>2 DEF TypeOK
  <2>4. TypeOK'
    BY <1>0, <2>1, <2>3 DEF TypeOK, plaidVars, dbVars
  <2>5. Others /\ UNCHANGED <<log, cursor, raw, tx, stale>>
    BY <1>0, <2>1 DEF TypeOK, plaidVars, dbVars
  <2>6. pc'[s] = "raws" /\ UNCHANGED <<item, seen, upto>>
    BY <1>0, <2>1 DEF TypeOK
  <2>7. WindowOK(s)' /\ ViewOK(s)'
    BY <1>0, <2>1, <2>5, <2>6 DEF WindowOK, ViewOK, Windowed
  <2> QED BY <2>4, <2>5, <2>7, QuietStep
<1>12. CASE ReadRaws(s)
  <2> DEFINE rows == [t \in Txns |-> IF t \in ChangedIds(s) THEN raw[t] ELSE Absent]
             new == [view[s] EXCEPT !.raw = rows]
  <2>1. /\ pc[s] = "raws" /\ pc' = [pc EXCEPT ![s] = "txs"]
        /\ view' = [view EXCEPT ![s] = new]
        /\ UNCHANGED <<plaidVars, dbVars, lock, todo, item, known, seen, upto, attempt,
                       mine, revive>>
    BY <1>12 DEF ReadRaws
  <2>2. new \in View /\ new.raw = rows
    <3>1. rows \in [Txns -> RawRow \cup {Absent}]
      BY <1>0 DEF TypeOK
    <3>2. view[s] \in View
      BY <1>0 DEF TypeOK
    <3> HIDE DEF rows
    <3> QED BY <3>1, <3>2 DEF View
  <2>3. /\ \A t \in ChangedIds(s) : rows[t] = raw[t]
        /\ \A t \in Txns : rows[t] # Absent => raw[t] # Absent
    BY DEF ChangedIds
  <2> HIDE DEF new, rows
  <2>4. TypeOK'
    BY <1>0, <2>1, <2>2 DEF TypeOK, plaidVars, dbVars
  <2>5. Others /\ UNCHANGED <<log, cursor, raw, tx, stale>>
    BY <1>0, <2>1 DEF TypeOK, plaidVars, dbVars
  <2>6. pc'[s] = "txs" /\ view'[s] = new /\ UNCHANGED <<item, seen, upto>>
    BY <1>0, <2>1 DEF TypeOK
  <2>7. ChangedIds(s)' = ChangedIds(s)
    BY <2>5, <2>6, SameWindow
  <2>8. WindowOK(s)'
    BY <1>0, <2>1, <2>5, <2>6 DEF WindowOK, Windowed
  <2>9. ViewOK(s)'
    BY <2>2, <2>3, <2>5, <2>6, <2>7 DEF ViewOK
  <2> QED BY <2>4, <2>5, <2>8, <2>9, QuietStep
<1>13. CASE ReadTxs(s)
  <2> DEFINE rows == [t \in Txns |-> IF t \in ChangedIds(s) THEN tx[t] ELSE Absent]
             new == [view[s] EXCEPT !.tx = rows]
  <2>1. /\ pc[s] = "txs" /\ pc' = [pc EXCEPT ![s] = "commit"]
        /\ view' = [view EXCEPT ![s] = new]
        /\ UNCHANGED <<plaidVars, dbVars, lock, todo, item, known, seen, upto, attempt,
                       mine, revive>>
    BY <1>13 DEF ReadTxs
  <2>2. new \in View /\ new.raw = view[s].raw /\ new.tx = rows
    <3>1. rows \in [Txns -> TxRow \cup {Absent}]
      BY <1>0 DEF TypeOK
    <3>2. view[s] \in View
      BY <1>0 DEF TypeOK
    <3> HIDE DEF rows
    <3> QED BY <3>1, <3>2 DEF View
  <2>3. \A t \in ChangedIds(s) : SameRow(rows[t], tx[t])
    BY DEF ChangedIds, SameRow
  <2> HIDE DEF new, rows
  <2>4. TypeOK'
    BY <1>0, <2>1, <2>2 DEF TypeOK, plaidVars, dbVars
  <2>5. Others /\ UNCHANGED <<log, cursor, raw, tx, stale>>
    BY <1>0, <2>1 DEF TypeOK, plaidVars, dbVars
  <2>6. pc'[s] = "commit" /\ view'[s] = new /\ UNCHANGED <<item, seen, upto>>
    BY <1>0, <2>1 DEF TypeOK
  <2>7. ChangedIds(s)' = ChangedIds(s)
    BY <2>5, <2>6, SameWindow
  <2>8. WindowOK(s)'
    BY <1>0, <2>1, <2>5, <2>6 DEF WindowOK, Windowed
  <2>9. ViewOK(s)'
    BY <1>0, <2>1, <2>2, <2>3, <2>5, <2>6, <2>7 DEF ViewOK, SameRow
  <2> QED BY <2>4, <2>5, <2>8, <2>9, QuietStep
<1> QED BY <1>1, <1>2, <1>3, <1>4, <1>5, <1>6, <1>7, <1>8, <1>9, <1>10, <1>11, <1>12, <1>13

-----------------------------------------------------------------------------
(* The rest of the system.                                                 *)

\* Plaid appends a change: every window and every cursor stays where it is.
LEMMA PlaidChangeStep ==
  ASSUME IInv, PlaidChange
  PROVE  IInv'
<1> USE ConstantsAssumption
<1>1. PICK t \in Txns, op \in {"added", "modified", "removed"}, v \in Vals :
        /\ log' = [log EXCEPT ![TxnItem(t)] = Append(@, [txn |-> t, op |-> op, val |-> v])]
        /\ UNCHANGED <<opened, dbVars, lock, sessVars>>
        /\ \A k \in Mentions(TxnItem(t), t) :
             op # "added" /\ log[TxnItem(t)][k].op # "removed"
  <2>1. PICK t \in Txns, v \in Vals :
          \/ /\ Mentions(TxnItem(t), t) = {}
             /\ Append1(TxnItem(t), t, "added", v)
          \/ /\ Mentions(TxnItem(t), t) # {}
             /\ ~Removed(TxnItem(t), t)
             /\ \/ Append1(TxnItem(t), t, "modified", v)
                \/ Append1(TxnItem(t), t, "removed",
                           log[TxnItem(t)][CHOOSE k \in Mentions(TxnItem(t), t) : TRUE].val)
    BY DEF PlaidChange
  <2>2. CASE Mentions(TxnItem(t), t) = {} /\ Append1(TxnItem(t), t, "added", v)
    BY <2>2 DEF Append1
  <2>3. CASE ~Removed(TxnItem(t), t) /\ Append1(TxnItem(t), t, "modified", v)
    BY <2>3 DEF Append1, Removed
  <2>4. CASE /\ Mentions(TxnItem(t), t) # {}
             /\ ~Removed(TxnItem(t), t)
             /\ Append1(TxnItem(t), t, "removed",
                        log[TxnItem(t)][CHOOSE k \in Mentions(TxnItem(t), t) : TRUE].val)
    <3> DEFINE k0 == CHOOSE k \in Mentions(TxnItem(t), t) : TRUE
    <3>1. k0 \in Mentions(TxnItem(t), t)
      BY <2>4
    <3>2. TxnItem(t) \in Items
      BY DEF TxnItem
    <3>3. log[TxnItem(t)][k0].val \in Vals
      <4> HIDE DEF k0
      <4>1. log[TxnItem(t)] \in Seq(Change)
        BY <3>2 DEF IInv, TypeOK
      <4>2. k0 \in 1..Len(log[TxnItem(t)])
        BY <3>1 DEF Mentions
      <4>3. log[TxnItem(t)][k0] \in Change
        BY <4>1, <4>2
      <4> QED BY <4>3 DEF Change
    <3> HIDE DEF k0
    <3>4. Append1(TxnItem(t), t, "removed", log[TxnItem(t)][k0].val)
      BY <2>4 DEF k0
    <3> QED BY <2>4, <3>3, <3>4 DEF Append1, Removed
  <2> QED BY <2>1, <2>2, <2>3, <2>4
<1> DEFINE i == TxnItem(t)
           e == [txn |-> t, op |-> op, val |-> v]
<1>2. i \in Items /\ e \in Change /\ log[i] \in Seq(Change) /\ log \in [Items -> Seq(Change)]
  BY DEF TxnItem, Change, IInv, TypeOK
<1> HIDE DEF i, e
<1>3. /\ log'[i] = Append(log[i], e)
      /\ \A j \in Items \ {i} : log'[j] = log[j]
  BY <1>1, <1>2 DEF i, e
<1>4. /\ Len(log'[i]) = Len(log[i]) + 1
      /\ \A k \in 1..Len(log[i]) : log'[i][k] = log[i][k]
      /\ log'[i][Len(log[i]) + 1] = e
      /\ Len(log[i]) \in Nat
  BY <1>2, <1>3
<1>5. \A j \in Items : /\ Len(log[j]) \in Nat
                       /\ Len(log'[j]) \in Nat
                       /\ Len(log[j]) <= Len(log'[j])
                       /\ \A k \in 1..Len(log[j]) : log'[j][k] = log[j][k]
  <2> TAKE j \in Items
  <2>0. Len(log[j]) \in Nat
    BY DEF IInv, TypeOK
  <2>1. CASE j = i
    BY <2>1, <1>4
  <2>2. CASE j # i
    BY <2>0, <2>2, <1>3
  <2> QED BY <2>1, <2>2
<1>6. /\ UNCHANGED <<opened, lock, cursor, syncStatus, itemStatus, accounts, raw, tx, stale, unlocked>>
      /\ UNCHANGED <<pc, todo, item, known, seen, upto, attempt, mine, revive, view>>
  BY <1>1 DEF dbVars, sessVars
<1>7. TypeOK'
  <2>1. log' \in [Items -> Seq(Change)]
    <3>1. log' = [log EXCEPT ![i] = Append(log[i], e)]
      BY <1>1, <1>2 DEF i, e
    <3>2. Append(log[i], e) \in Seq(Change)
      BY <1>2
    <3> QED BY <1>2, <3>1, <3>2
  <2> QED BY <1>6, <2>1 DEF IInv, TypeOK
<1>8. LogWellFormed'
  <2> SUFFICES ASSUME NEW j \in Items, NEW k \in 1..Len(log'[j])
               PROVE  /\ TxnItem(log'[j][k].txn) = j
                      /\ \A h \in 1..(k - 1) : log'[j][h].txn = log'[j][k].txn =>
                           log'[j][h].op # "removed" /\ log'[j][k].op # "added"
    BY DEF LogWellFormed, TxnItem
  <2>1. CASE k \in 1..Len(log[j])
    <3>1. \A h \in 1..k : log'[j][h] = log[j][h]
      BY <2>1, <1>5
    <3>2. k \in 1..k /\ \A h \in 1..(k - 1) : h \in 1..k
      BY <2>1, <1>5
    <3>3. log'[j][k] = log[j][k] /\ \A h \in 1..(k - 1) : log'[j][h] = log[j][h]
      BY <3>1, <3>2
    <3> QED BY <2>1, <3>3 DEF IInv, LogWellFormed
  <2>2. CASE k \notin 1..Len(log[j])
    <3>1. j = i /\ k = Len(log[i]) + 1
      BY <2>2, <1>3, <1>4
    <3>2. log'[j][k] = e /\ e.txn = t /\ e.op = op /\ TxnItem(t) = i
      BY <3>1, <1>4 DEF i, e
    <3>3. \A h \in 1..(k - 1) : log'[j][h] = log[i][h] /\ h \in 1..Len(log[i])
      BY <3>1, <1>4
    <3>4. \A h \in 1..(k - 1) : log[i][h].txn = t => op # "added" /\ log[i][h].op # "removed"
      BY <3>3, <1>1 DEF Mentions, i
    <3> QED BY <3>1, <3>2, <3>3, <3>4
  <2> QED BY <2>1, <2>2
<1>9. CursorsInLog'
  <2> SUFFICES ASSUME NEW j \in Items PROVE cursor[j] <= Len(log'[j])
    BY <1>6 DEF CursorsInLog
  <2>1. cursor[j] \in Nat /\ cursor[j] <= Len(log[j])
    BY DEF IInv, TypeOK, CursorsInLog
  <2> QED BY <2>1, <1>5
<1>10. ASSUME NEW s \in Sessions PROVE WindowOK(s)'
  <2>1. item[s] \in Items /\ upto[s] \in Nat
    BY DEF IInv, TypeOK
  <2> QED BY <2>1, <1>5, <1>6 DEF IInv, WindowOK
<1>11. ASSUME NEW s \in Sessions PROVE ViewOK(s)'
  <2> SUFFICES ASSUME pc[s] \in {"txs", "commit"} PROVE ViewOK(s)'
    BY <1>6 DEF ViewOK
  <2>1. /\ item[s] \in Items /\ upto[s] \in Nat /\ seen[s].cursor \in Nat
        /\ upto[s] <= Len(log[item[s]])
    BY DEF IInv, TypeOK, WindowOK, Windowed
  <2>2. \A k \in (seen[s].cursor + 1)..upto[s] : log'[item[s]][k] = log[item[s]][k]
    <3>1. \A k \in (seen[s].cursor + 1)..upto[s] : k \in 1..Len(log[item[s]])
      BY <2>1, <1>5
    <3> QED BY <2>1, <3>1, <1>5
  <2>3. ASSUME NEW u \in Txns PROVE Upserts(s, u)' = Upserts(s, u)
    BY <2>2, <1>6 DEF Upserts, Positions
  <2>4. ChangedIds(s)' = ChangedIds(s)
    BY <2>3 DEF ChangedIds
  <2> QED BY <2>4, <1>6 DEF IInv, ViewOK, SameRow
<1>12. MirrorWhenSerial'
  <2> SUFFICES ASSUME NEW j \in Items, ~stale[j], NEW k \in 1..cursor[j], LastAt(j, k, cursor[j])'
               PROVE  Reflected(log[j][k])'
    BY <1>6, <1>9 DEF MirrorWhenSerial, MirrorsCursor, CursorsInLog
  <2>1. cursor[j] \in Nat /\ cursor[j] <= Len(log[j])
    BY DEF IInv, TypeOK, CursorsInLog
  <2>2. \A h \in 1..cursor[j] : log'[j][h] = log[j][h]
    BY <2>1, <1>5
  <2>3. \A h \in (k + 1)..cursor[j] : h \in 1..cursor[j]
    BY <2>1
  <2>4. LastAt(j, k, cursor[j])
    BY <2>2, <2>3, <1>6 DEF LastAt
  <2>5. Reflected(log[j][k])
    BY <2>4 DEF IInv, MirrorWhenSerial, MirrorsCursor
  <2> QED BY <2>2, <2>5, <1>6 DEF Reflected
<1> QED BY <1>7, <1>8, <1>9, <1>10, <1>11, <1>12 DEF IInv

\* Accounts opened, account sync and relinks touch none of the tables the
\* invariant speaks of.
LEMMA SurroundingStep ==
  ASSUME IInv, OpenAccount \/ SyncAccounts \/ SyncAccountsLoginRequired \/ Relink
  PROVE  IInv'
<1>1. /\ UNCHANGED <<log, cursor, raw, tx, stale, unlocked, syncStatus, lock>>
      /\ UNCHANGED <<pc, todo, item, known, seen, upto, attempt, mine, revive, view>>
  BY DEF OpenAccount, SyncAccounts, SyncAccountsLoginRequired, Relink, dbVars, plaidVars, sessVars
<1>2. TypeOK'
  <2>1. /\ opened' \subseteq Accounts /\ accounts' \subseteq Accounts
        /\ itemStatus' \in [Items -> PlaidItemStatus]
    <3>1. CASE OpenAccount
      <4>1. UNCHANGED <<accounts, itemStatus>> /\ \E a \in Accounts : opened' = opened \cup {a}
        BY <3>1 DEF OpenAccount, dbVars
      <4> QED BY <4>1 DEF IInv, TypeOK
    <3>2. CASE SyncAccounts
      BY <3>2 DEF SyncAccounts, plaidVars, IInv, TypeOK, PlaidItemStatus
    <3>3. CASE SyncAccountsLoginRequired
      BY <3>3 DEF SyncAccountsLoginRequired, plaidVars, IInv, TypeOK, PlaidItemStatus
    <3>4. CASE Relink
      <4>1. PICK i \in Items : \/ itemStatus' = [itemStatus EXCEPT ![i] = "disconnected"]
                              \/ itemStatus' = [itemStatus EXCEPT ![i] = "active"]
        BY <3>4 DEF Relink
      <4>2. UNCHANGED <<opened, accounts>>
        BY <3>4 DEF Relink, plaidVars
      <4>3. itemStatus \in [Items -> PlaidItemStatus] /\ opened \subseteq Accounts /\ accounts \subseteq Accounts
        BY DEF IInv, TypeOK
      <4>4. itemStatus' \in [Items -> PlaidItemStatus]
        BY <4>1, <4>3 DEF PlaidItemStatus
      <4> QED BY <4>2, <4>3, <4>4
    <3> QED BY <3>1, <3>2, <3>3, <3>4
  <2> QED BY <1>1, <2>1 DEF IInv, TypeOK
<1>3. LogWellFormed' /\ CursorsInLog'
  BY <1>1 DEF IInv, LogWellFormed, CursorsInLog
<1>4. ASSUME NEW s \in Sessions PROVE WindowOK(s)' /\ ViewOK(s)'
  <2>1. ChangedIds(s)' = ChangedIds(s)
    BY <1>1, SameWindow
  <2> QED BY <1>1, <2>1 DEF IInv, WindowOK, ViewOK, SameRow
<1>5. MirrorWhenSerial'
  BY <1>1 DEF IInv, MirrorWhenSerial, MirrorsCursor, LastAt, Reflected
<1> QED BY <1>2, <1>3, <1>4, <1>5 DEF IInv

-----------------------------------------------------------------------------
(* The commit.                                                             *)

\* A window only concerns transactions of its item.
LEMMA WindowOfItem ==
  ASSUME IInv, NEW s \in Sessions, pc[s] \in Windowed,
         NEW t \in ChangedIds(s) \cup RemovedIds(s)
  PROVE  TxnItem(t) = item[s]
<1>1. PICK k \in Positions(s, t) : TRUE
  BY DEF ChangedIds, RemovedIds, Upserts
<1>2. item[s] \in Items /\ k \in 1..Len(log[item[s]]) /\ log[item[s]][k].txn = t
  BY <1>1 DEF Positions, IInv, TypeOK, WindowOK
<1> QED BY <1>2 DEF IInv, LogWellFormed

\* An empty window concerns none.
LEMMA EmptyWindow ==
  ASSUME TypeOK, NEW s \in Sessions, upto[s] <= seen[s].cursor
  PROVE  ChangedIds(s) = {} /\ RemovedIds(s) = {}
<1>1. seen[s].cursor \in Nat /\ upto[s] \in Nat
  BY DEF TypeOK
<1>2. (seen[s].cursor + 1)..upto[s] = {}
  BY <1>1
<1>3. \A t \in Txns : Positions(s, t) = {} /\ Upserts(s, t) = {}
  BY <1>2 DEF Positions, Upserts
<1> QED BY <1>3 DEF ChangedIds, RemovedIds

\* If the last change of a transaction before the end of the window lies in
\* the window and is not a removal, the code ends with exactly its payload:
\* concatenating added and modified does not reorder what concerns one id.
LEMMA PayloadIsLast ==
  ASSUME IInv, NEW s \in Sessions, pc[s] \in Windowed,
         NEW k \in (seen[s].cursor + 1)..upto[s], LastAt(item[s], k, upto[s]),
         log[item[s]][k].op # "removed"
  PROVE  /\ log[item[s]][k].txn \in ChangedIds(s)
         /\ log[item[s]][k].txn \notin RemovedIds(s)
         /\ Payload(s, log[item[s]][k].txn) = log[item[s]][k].val
<1> DEFINE L == log[item[s]]
           t == L[k].txn
           mods == {j \in Upserts(s, t) : L[j].op = "modified"}
           from == IF mods # {} THEN mods ELSE Upserts(s, t)
<1>1. /\ item[s] \in Items /\ L \in Seq(Change) /\ seen[s].cursor \in Nat /\ upto[s] \in Nat
      /\ upto[s] <= Len(L) /\ Len(L) \in Nat
  BY DEF IInv, TypeOK, WindowOK
<1>2. k \in 1..Len(L)
  BY <1>1
<1>3. t \in Txns /\ L[k].op \in {"added", "modified"}
  <2>1. L[k] \in Change
    BY <1>1, <1>2
  <2> QED BY <2>1 DEF Change
<1>4. \A j \in Positions(s, t) : j <= k
  BY <1>1 DEF Positions, LastAt
<1>5. \A j \in Positions(s, t) : j # k => L[j].op # "removed" /\ L[k].op # "added"
  <2>1. \A j \in Positions(s, t) : j # k => j \in 1..(k - 1) /\ L[j].txn = L[k].txn
    BY <1>1, <1>4 DEF Positions
  <2> QED BY <1>1, <1>2, <2>1 DEF IInv, LogWellFormed
<1>6. k \in Upserts(s, t)
  BY DEF Upserts, Positions
<1>7. Positions(s, t) = Upserts(s, t)
  BY <1>5, <1>6 DEF Upserts
<1>8. k \in from /\ \A j \in from : j <= k /\ j \in Nat
  <2>1. \A j \in Upserts(s, t) : j <= k /\ j \in Nat
    BY <1>1, <1>4 DEF Upserts, Positions
  <2>2. CASE L[k].op = "modified"
    BY <1>6, <2>1, <2>2
  <2>3. CASE L[k].op = "added"
    <3>1. Upserts(s, t) = {k}
      BY <1>5, <1>6, <1>7, <2>3
    <3> QED BY <3>1, <2>1, <2>3
  <2> QED BY <1>3, <2>2, <2>3
<1>9. (CHOOSE m \in from : \A j \in from : j <= m) = k
  <2> HIDE DEF from
  <2>1. ASSUME NEW m \in from, \A j \in from : j <= m PROVE m = k
    BY <1>8, <2>1
  <2> QED BY <1>8, <2>1
<1>10. Payload(s, t) = L[k].val
  BY <1>9 DEF Payload
<1> QED BY <1>3, <1>6, <1>7, <1>10 DEF ChangedIds, RemovedIds

\* Enriching a row keeps its payload.
LEMMA EnrichedRow ==
  ASSUME NEW row \in TxRow, NEW b \in BOOLEAN
  PROVE  /\ [row EXCEPT !.enriched = @ \/ b] \in TxRow
         /\ [row EXCEPT !.enriched = @ \/ b].val = row.val
BY DEF TxRow

\* The rows a commit writes are rows.
LEMMA CommitTypes ==
  ASSUME IInv, NEW s \in Sessions, pc[s] = "commit", ~Conflict(s)
  PROVE  /\ RawCommitted(s) \in [Txns -> RawRow \cup {Absent}]
         /\ TxCommitted(s) \in [Txns -> TxRow \cup {Absent}]
         /\ \A t \in ChangedIds(s) : RawAfter(s, t) \in RawRow
<1> USE ConstantsAssumption
<1>0. TypeOK /\ upto[s] <= Len(log[item[s]]) /\ view[s] \in View
  BY DEF IInv, TypeOK, WindowOK, Windowed
<1>1. ASSUME NEW t \in ChangedIds(s) PROVE Payload(s, t) \in Vals
  BY <1>0, PayloadType
<1>2. ASSUME NEW t \in ChangedIds(s) PROVE RawAfter(s, t) \in RawRow
  <2>1. t \in Txns /\ view[s].raw[t] \in RawRow \cup {Absent} /\ raw[t] \in RawRow \cup {Absent}
    BY <1>0 DEF ChangedIds, TypeOK, View
  <2>2. CASE view[s].raw[t] = Absent
    BY <2>2, <1>1 DEF RawAfter, RawRow
  <2>3. CASE view[s].raw[t] # Absent /\ raw[t] # Absent
    BY <2>1, <2>3, <1>1 DEF RawAfter, RawRow, Net
  <2>4. view[s].raw[t] # Absent => raw[t] # Absent
    BY <2>1 DEF IInv, ViewOK
  <2> QED BY <2>2, <2>3, <2>4
<1>3. ASSUME NEW t \in ChangedIds(s) PROVE TxAfter(s, t) \in TxRow \cup {Absent}
  <2>1. t \in Txns /\ view[s].tx[t] \in TxRow \cup {Absent} /\ tx[t] \in TxRow \cup {Absent}
    BY <1>0 DEF ChangedIds, TypeOK, View
  <2> QED BY <2>1, <1>1 DEF TxAfter, TxRow, Net
<1>4. RawCommitted(s) \in [Txns -> RawRow \cup {Absent}]
  BY <1>0, <1>2 DEF RawCommitted, TypeOK
<1>6. ASSUME NEW t \in Txns PROVE TxCommitted(s)[t] \in TxRow \cup {Absent}
  <2> DEFINE row == IF t \in ChangedIds(s) /\ Normalized(s, t) THEN TxAfter(s, t) ELSE tx[t]
  <2>1. row \in TxRow \cup {Absent}
    BY <1>0, <1>3 DEF TypeOK
  <2>2. TxCommitted(s)[t] = IF t \in RemovedIds(s) \/ row = Absent
                              THEN Absent
                              ELSE [row EXCEPT !.enriched = @ \/ TxnItem(t) = item[s]]
    BY DEF TxCommitted
  <2> HIDE DEF row
  <2> QED BY <2>1, <2>2, EnrichedRow
<1>7. TxCommitted(s) \in [Txns -> TxRow \cup {Absent}]
  BY <1>6 DEF TxCommitted
<1> QED BY <1>2, <1>4, <1>7

\* What a commit leaves of a transaction outside its window.
LEMMA Untouched ==
  ASSUME IInv, NEW s \in Sessions, NEW t \in Txns,
         t \notin ChangedIds(s), t \notin RemovedIds(s)
  PROVE  /\ RawCommitted(s)[t] = raw[t]
         /\ SameRow(tx[t], TxCommitted(s)[t])
<1>1. RawCommitted(s)[t] = raw[t]
  BY DEF RawCommitted
<1>2. tx[t] \in TxRow \cup {Absent}
  BY DEF IInv, TypeOK
<1>3. CASE tx[t] = Absent
  BY <1>1, <1>3 DEF TxCommitted, SameRow
<1>4. CASE tx[t] # Absent
  <2>1. TxCommitted(s)[t] = [tx[t] EXCEPT !.enriched = @ \/ TxnItem(t) = item[s]]
    BY <1>4 DEF TxCommitted
  <2>2. TxCommitted(s)[t] \in TxRow /\ TxCommitted(s)[t].val = tx[t].val
    BY <1>2, <1>4, <2>1 DEF TxRow
  <2> QED BY <1>1, <1>4, <2>2, ConstantsAssumption DEF SameRow
<1> QED BY <1>3, <1>4

\* What a commit of the stored cursor leaves of a transaction in its window.
LEMMA Applied ==
  ASSUME IInv, NEW s \in Sessions, pc[s] = "commit", ~Conflict(s),
         ~stale[item[s]], seen[s].cursor = cursor[item[s]],
         NEW t \in ChangedIds(s), t \notin RemovedIds(s)
  PROVE  /\ RawCommitted(s)[t] # Absent
         /\ RawCommitted(s)[t].val = Payload(s, t)
         /\ RawCommitted(s)[t].status = "processed" =>
              /\ TxCommitted(s)[t] # Absent
              /\ TxCommitted(s)[t].val = Payload(s, t)
<1> USE ConstantsAssumption
<1>1. /\ t \in Txns /\ raw[t] \in RawRow \cup {Absent} /\ tx[t] \in TxRow \cup {Absent}
      /\ view[s].tx[t] \in TxRow \cup {Absent}
  BY DEF ChangedIds, IInv, TypeOK, View
<1>2. view[s].raw[t] = raw[t] /\ SameRow(view[s].tx[t], tx[t])
  BY DEF IInv, ViewOK
<1>3. Payload(s, t) \in Vals
  BY PayloadType DEF IInv, WindowOK, Windowed
<1>4. RawCommitted(s)[t] = RawAfter(s, t)
  BY <1>1 DEF RawCommitted
<1>5. RawAfter(s, t) = [val |-> Payload(s, t),
                        status |-> IF Normalized(s, t) THEN "processed" ELSE "skipped"]
  BY <1>1, <1>2 DEF RawAfter, Net
<1>6. RawAfter(s, t) \in RawRow
  BY <1>3, <1>5 DEF RawRow
<1>7. ASSUME RawAfter(s, t).status = "processed"
      PROVE  TxCommitted(s)[t] # Absent /\ TxCommitted(s)[t].val = Payload(s, t)
  <2>1. Normalized(s, t)
    BY <1>5, <1>7
  <2>2. TxAfter(s, t) = [val |-> Payload(s, t), enriched |-> TRUE]
    BY <1>1, <1>2 DEF TxAfter, Net, SameRow
  <2>3. TxAfter(s, t) \in TxRow
    BY <1>3, <2>2 DEF TxRow
  <2>4. TxCommitted(s)[t] = [TxAfter(s, t) EXCEPT !.enriched = @ \/ TxnItem(t) = item[s]]
    BY <1>1, <2>1, <2>3 DEF TxCommitted
  <2>5. TxCommitted(s)[t] \in TxRow /\ TxCommitted(s)[t].val = Payload(s, t)
    <3>1. TxAfter(s, t).val = Payload(s, t)
      BY <2>2
    <3> QED BY <2>3, <2>4, <3>1, EnrichedRow
  <2> QED BY <2>5
<1> QED BY <1>4, <1>5, <1>6, <1>7

LEMMA CommitStep ==
  ASSUME IInv, NEW s \in Sessions, CommitWindow(s)
  PROVE  IInv'
<1> USE ConstantsAssumption
<1> DEFINE i == item[s]
           rest == todo[s] \ {i}
<1>1. /\ pc[s] = "commit" /\ ~Conflict(s)
      /\ raw' = RawCommitted(s) /\ tx' = TxCommitted(s)
      /\ accounts' = accounts \cup mine[s]
      /\ syncStatus' = [syncStatus EXCEPT ![i] = "idle"]
      /\ itemStatus' = [itemStatus EXCEPT ![i] = IF revive[s] THEN "active" ELSE @]
      /\ stale' = [stale EXCEPT ![i] = @ \/ seen[s].cursor # cursor[i]]
      /\ unlocked' = [unlocked EXCEPT ![i] = @ \/ (seen[s].status = "syncing" /\ stale'[i])]
      /\ UNCHANGED plaidVars
  BY DEF CommitWindow
<1>2. /\ lock' = Free(s)
      /\ pc' = [pc EXCEPT ![s] = IF rest = {} THEN "idle" ELSE "load"]
      /\ todo' = [todo EXCEPT ![s] = rest]
      /\ seen' = [seen EXCEPT ![s] = NoState]
      /\ upto' = [upto EXCEPT ![s] = 0]
      /\ attempt' = [attempt EXCEPT ![s] = 1]
      /\ mine' = [mine EXCEPT ![s] = {}]
      /\ revive' = [revive EXCEPT ![s] = FALSE]
      /\ view' = [view EXCEPT ![s] = NoView]
      /\ item' = [item EXCEPT ![s] = NoItem]
      /\ known' = [known EXCEPT ![s] = IF rest = {} THEN NoStatus ELSE @]
  BY DEF CommitWindow
<1>3. PICK c \in {upto[s], Net(seen[s].cursor, upto[s], cursor[i])} :
        cursor' = [cursor EXCEPT ![i] = c]
  BY DEF CommitWindow
<1>4. /\ TypeOK /\ i \in Items /\ seen[s].cursor \in Nat /\ upto[s] \in Nat /\ cursor[i] \in Nat
      /\ seen[s].cursor <= upto[s] /\ upto[s] <= Len(log[i]) /\ Len(log[i]) \in Nat
      /\ ~stale[i] => seen[s].cursor <= cursor[i]
  BY <1>1 DEF IInv, TypeOK, WindowOK, Windowed
<1>5. c \in {upto[s], cursor[i]} /\ (c # upto[s] => upto[s] = seen[s].cursor)
  BY <1>3 DEF Net
<1>6. c \in Nat /\ c <= Len(log[i])
  BY <1>4, <1>5 DEF IInv, CursorsInLog
<1>7. TypeOK'
  <2>1. NoItem \in Items /\ NoState \in [cursor : Nat, status : SyncStatus]
    BY DEF NoItem, NoState, SyncStatus
  <2>2. NoView \in View /\ NoStatus \in [Items -> PlaidItemStatus]
    BY DEF NoView, View, NoStatus, PlaidItemStatus
  <2>3. Free(s) \in [Items -> Sessions \cup {Nobody}]
    BY <1>4 DEF Free, TypeOK
  <2>4. /\ raw' \in [Txns -> RawRow \cup {Absent}] /\ tx' \in [Txns -> TxRow \cup {Absent}]
    BY <1>1, CommitTypes
  <2>5. /\ accounts' \subseteq Accounts /\ cursor' \in [Items -> Nat]
        /\ stale' \in [Items -> BOOLEAN] /\ unlocked' \in [Items -> BOOLEAN] /\ opened' \subseteq Accounts
        /\ log' \in [Items -> Seq(Change)]
    BY <1>1, <1>3, <1>4, <1>6 DEF TypeOK, plaidVars
  <2>6. /\ syncStatus' \in [Items -> SyncStatus]
        /\ itemStatus' \in [Items -> PlaidItemStatus]
    BY <1>1, <1>4 DEF TypeOK, SyncStatus, PlaidItemStatus
  <2>7. /\ lock' \in [Items -> Sessions \cup {Nobody}]
        /\ pc' \in [Sessions -> {"idle", "load", "insert", "fetch", "flush", "accts",
                                 "list", "raws", "txs", "commit"}]
        /\ todo' \in [Sessions -> SUBSET Items]
        /\ item' \in [Sessions -> Items]
        /\ known' \in [Sessions -> [Items -> PlaidItemStatus]]
        /\ seen' \in [Sessions -> [cursor : Nat, status : SyncStatus]]
        /\ upto' \in [Sessions -> Nat]
        /\ attempt' \in [Sessions -> {1, 2}]
        /\ mine' \in [Sessions -> SUBSET Accounts]
        /\ revive' \in [Sessions -> BOOLEAN]
        /\ view' \in [Sessions -> View]
    <3> HIDE DEF rest
    <3>1. rest \in SUBSET Items
      BY <1>4 DEF rest, TypeOK
    <3> QED BY <1>2, <1>4, <2>1, <2>2, <2>3, <3>1 DEF TypeOK
  <2> QED BY <2>4, <2>5, <2>6, <2>7 DEF TypeOK
<1>8. LogWellFormed'
  BY <1>1 DEF IInv, LogWellFormed, plaidVars
<1>9. /\ cursor'[i] = c
      /\ \A j \in Items \ {i} : cursor'[j] = cursor[j] /\ stale'[j] = stale[j]
      /\ stale'[i] = (stale[i] \/ seen[s].cursor # cursor[i])
  BY <1>1, <1>3, <1>4 DEF TypeOK
<1>10. CursorsInLog'
  BY <1>1, <1>6, <1>9 DEF IInv, CursorsInLog, plaidVars
<1>11. pc'[s] \in {"idle", "load"}
  BY <1>2, <1>4 DEF TypeOK
<1>12. ASSUME NEW r \in Sessions, r # s
       PROVE  /\ pc'[r] = pc[r] /\ item'[r] = item[r] /\ seen'[r] = seen[r]
              /\ upto'[r] = upto[r] /\ view'[r] = view[r]
  BY <1>2, <1>4, <1>12 DEF TypeOK
\* Unless it was stale, the commit does not move the cursor backwards.
<1>13. ~stale'[i] => ~stale[i] /\ c = upto[s] /\ cursor[i] = seen[s].cursor /\ cursor[i] <= c
  BY <1>4, <1>5, <1>9
<1>14. ASSUME NEW r \in Sessions PROVE WindowOK(r)'
  <2>1. CASE r = s
    BY <2>1, <1>11 DEF WindowOK, Windowed
  <2>2. CASE r # s
    <3> SUFFICES ASSUME pc[r] \in Windowed
                 PROVE  /\ seen[r].cursor <= upto[r]
                        /\ upto[r] <= Len(log[item[r]])
                        /\ ~stale'[item[r]] => seen[r].cursor <= cursor'[item[r]]
      BY <2>2, <1>1, <1>12 DEF WindowOK, plaidVars
    <3>1. /\ seen[r].cursor <= upto[r] /\ upto[r] <= Len(log[item[r]])
          /\ ~stale[item[r]] => seen[r].cursor <= cursor[item[r]]
          /\ item[r] \in Items /\ seen[r].cursor \in Nat
      BY <1>4 DEF IInv, WindowOK, TypeOK
    <3>2. CASE item[r] = i
      BY <3>1, <3>2, <1>4, <1>6, <1>9, <1>13
    <3>3. CASE item[r] # i
      BY <3>1, <3>3, <1>9
    <3> QED BY <3>1, <3>2, <3>3
  <2> QED BY <2>1, <2>2
<1>15. \A t \in Txns : raw[t] # Absent => raw'[t] # Absent
  <2> TAKE t \in Txns
  <2>1. CASE t \notin ChangedIds(s)
    BY <1>1, <2>1 DEF RawCommitted
  <2>2. CASE t \in ChangedIds(s)
    <3>1. raw'[t] = RawAfter(s, t)
      BY <1>1, <2>2 DEF RawCommitted
    <3>2. RawAfter(s, t) \in RawRow
      BY <1>1, <2>2, CommitTypes
    <3> QED BY <3>1, <3>2
  <2> QED BY <2>1, <2>2
\* A commit of a non-empty window moves the cursor away from every other
\* session of the item; one of an empty window changes no payload.
<1>16. ASSUME NEW r \in Sessions PROVE ViewOK(r)'
  <2>1. CASE r = s
    BY <2>1, <1>11 DEF ViewOK
  <2>2. CASE r # s
    <3> SUFFICES ASSUME pc[r] \in {"txs", "commit"},
                        ~stale'[item[r]], seen[r].cursor = cursor'[item[r]],
                        NEW t \in ChangedIds(r)
                 PROVE  /\ view[r].raw[t] = raw'[t]
                        /\ pc[r] = "commit" => SameRow(view[r].tx[t], tx'[t])
      <4>1. ChangedIds(r)' = ChangedIds(r)
        BY <2>2, <1>1, <1>12, SameWindow DEF plaidVars
      <4>2. pc[r] \in {"txs", "commit"} => \A t \in Txns : view[r].raw[t] # Absent => raw[t] # Absent
        BY DEF IInv, ViewOK
      <4> QED BY <2>2, <4>1, <4>2, <1>12, <1>15 DEF ViewOK, SameRow
    <3>1. /\ pc[r] \in Windowed /\ item[r] \in Items /\ seen[r].cursor \in Nat /\ t \in Txns
          /\ ~stale[item[r]] => seen[r].cursor <= cursor[item[r]]
      BY <1>4 DEF IInv, WindowOK, TypeOK, Windowed, ChangedIds
    <3>2. t \notin ChangedIds(s) /\ t \notin RemovedIds(s) /\ seen[r].cursor = cursor[item[r]]
      <4>1. CASE item[r] = i
        <5>1. upto[s] <= seen[s].cursor
          BY <4>1, <3>1, <1>4, <1>6, <1>9, <1>13
        <5>2. ChangedIds(s) = {} /\ RemovedIds(s) = {}
          BY <5>1, <1>4, EmptyWindow
        <5>3. seen[r].cursor = cursor[item[r]]
          BY <4>1, <5>1, <1>4, <1>9, <1>13
        <5> QED BY <5>2, <5>3
      <4>2. CASE item[r] # i
        <5>1. TxnItem(t) = item[r]
          BY <3>1, WindowOfItem
        <5>2. pc[s] \in Windowed
          BY <1>1 DEF Windowed
        <5>3. t \notin ChangedIds(s) \cup RemovedIds(s)
          BY <4>2, <5>1, <5>2, WindowOfItem
        <5>4. seen[r].cursor = cursor[item[r]]
          BY <4>2, <3>1, <1>9
        <5> QED BY <5>3, <5>4
      <4> QED BY <4>1, <4>2
    <3>3. raw'[t] = raw[t] /\ SameRow(tx[t], tx'[t])
      BY <1>1, <3>1, <3>2, Untouched
    <3>4. ~stale[item[r]]
      BY <3>1, <1>9, <1>13
    <3>5. view[r].raw[t] = raw[t] /\ (pc[r] = "commit" => SameRow(view[r].tx[t], tx[t]))
      BY <3>2, <3>4 DEF IInv, ViewOK
    <3> QED BY <3>3, <3>5 DEF SameRow
  <2> QED BY <2>1, <2>2
<1>17. MirrorWhenSerial'
  <2> SUFFICES ASSUME NEW j \in Items, ~stale'[j], NEW k \in 1..cursor'[j],
                      LastAt(j, k, cursor'[j])
               PROVE  Reflected(log[j][k])'
    <3>1. log' = log
      BY <1>1 DEF plaidVars
    <3> QED BY <3>1, <1>10 DEF MirrorWhenSerial, MirrorsCursor, CursorsInLog, LastAt
  <2> DEFINE e == log[j][k]
             t == e.txn
  <2>1. /\ log[j] \in Seq(Change) /\ Len(log[j]) \in Nat /\ cursor[j] \in Nat
        /\ cursor'[j] \in Nat /\ cursor'[j] <= Len(log[j]) /\ k \in 1..Len(log[j])
    <3>1. cursor'[j] <= Len(log[j])
      BY <1>1, <1>10 DEF CursorsInLog, plaidVars
    <3>2. log[j] \in Seq(Change) /\ Len(log[j]) \in Nat /\ cursor[j] \in Nat /\ cursor'[j] \in Nat
      BY <1>4, <1>7 DEF TypeOK
    <3> QED BY <3>1, <3>2
  <2>2. e \in Change /\ t \in Txns /\ TxnItem(t) = j
    <3>1. e \in Change
      BY <2>1
    <3> QED BY <2>1, <3>1 DEF Change, IInv, LogWellFormed
  <2>3. pc[s] \in Windowed
    BY <1>1 DEF Windowed
  <2>4. ASSUME t \notin ChangedIds(s), t \notin RemovedIds(s), ~stale[j], k \in 1..cursor[j],
               LastAt(j, k, cursor[j])
        PROVE  Reflected(e)'
    <3>1. Reflected(e)
      BY <2>4 DEF IInv, MirrorWhenSerial, MirrorsCursor
    <3>2. raw'[t] = raw[t] /\ SameRow(tx[t], tx'[t])
      BY <1>1, <2>2, <2>4, Untouched
    <3>3. /\ e' = e
      BY <1>1 DEF plaidVars
    <3> QED BY <3>1, <3>2, <3>3 DEF Reflected, SameRow
  <2>5. CASE j # i
    <3>1. t \notin ChangedIds(s) \cup RemovedIds(s)
      BY <2>2, <2>3, <2>5, WindowOfItem
    <3> QED BY <2>4, <2>5, <3>1, <1>9
  <2>6. CASE j = i /\ k <= cursor[i]
    <3>1. LastAt(j, k, cursor[j])
      BY <2>1, <2>6, <1>9, <1>13 DEF LastAt
    <3>2. Positions(s, t) = {}
      <4>1. \A h \in (seen[s].cursor + 1)..upto[s] : h \in (k + 1)..cursor'[j]
        BY <2>1, <2>6, <1>4, <1>9, <1>13
      <4> QED BY <2>6, <4>1 DEF Positions, LastAt
    <3>3. t \notin ChangedIds(s) /\ t \notin RemovedIds(s)
      BY <3>2 DEF ChangedIds, RemovedIds, Upserts
    <3> QED BY <2>1, <2>4, <2>6, <3>1, <3>3, <1>9, <1>13
  <2>7. CASE j = i /\ cursor[i] < k
    <3>1. k \in (seen[s].cursor + 1)..upto[s] /\ LastAt(item[s], k, upto[s]) /\ ~stale[i]
      BY <2>1, <2>7, <1>4, <1>9, <1>13
    <3>2. CASE e.op = "removed"
      <4>1. k \in Positions(s, t) /\ k \notin Upserts(s, t)
        BY <2>7, <3>1, <3>2 DEF Positions, Upserts
      <4>2. tx'[t] = Absent
        BY <4>1, <1>1, <2>2 DEF RemovedIds, TxCommitted
      <4>3. e' = e
        BY <1>1 DEF plaidVars
      <4> QED BY <3>2, <4>2, <4>3 DEF Reflected
    <3>3. CASE e.op # "removed"
      <4>1. t \in ChangedIds(s) /\ t \notin RemovedIds(s) /\ Payload(s, t) = e.val
        BY <2>3, <2>7, <3>1, <3>3, PayloadIsLast
      <4>2. /\ raw'[t] # Absent /\ raw'[t].val = e.val
            /\ raw'[t].status = "processed" => tx'[t] # Absent /\ tx'[t].val = e.val
        BY <1>1, <2>7, <3>1, <4>1, <1>9, <1>13, Applied
      <4>3. e' = e
        BY <1>1 DEF plaidVars
      <4> QED BY <3>3, <4>2, <4>3 DEF Reflected
    <3> QED BY <3>2, <3>3
  <2> QED BY <2>1, <2>5, <2>6, <2>7, <1>4
<1> QED BY <1>7, <1>8, <1>10, <1>14, <1>16, <1>17 DEF IInv

-----------------------------------------------------------------------------
(* The theorems.                                                           *)

LEMMA Stuttering == IInv /\ UNCHANGED vars => IInv'
<1> SUFFICES ASSUME IInv, UNCHANGED vars PROVE IInv'
  OBVIOUS
<1>1. TypeOK' /\ LogWellFormed' /\ CursorsInLog'
  BY DEF vars, IInv, TypeOK, LogWellFormed, CursorsInLog
<1>2. ASSUME NEW s \in Sessions PROVE WindowOK(s)' /\ ViewOK(s)'
  <2>1. ChangedIds(s)' = ChangedIds(s)
    BY SameWindow DEF vars
  <2> QED BY <2>1 DEF vars, IInv, WindowOK, ViewOK, SameRow
<1>3. MirrorWhenSerial'
  BY DEF vars, IInv, MirrorWhenSerial, MirrorsCursor, LastAt, Reflected
<1> QED BY <1>1, <1>2, <1>3 DEF IInv

LEMMA Invariance == Spec => []IInv
<1>1. IInv /\ [Next]_vars => IInv'
  <2> SUFFICES ASSUME IInv, [Next]_vars PROVE IInv'
    OBVIOUS
  <2>1. CASE UNCHANGED vars
    BY <2>1, Stuttering
  <2>2. ASSUME NEW s \in Sessions, SyncTransactions(s) \/ Progress(s) \/ Crash(s) PROVE IInv'
    <3>1. CASE CommitWindow(s)
      BY <3>1, CommitStep
    <3> QED BY <2>2, <3>1, RequestStep DEF Progress
  <2>3. CASE PlaidChange
    BY <2>3, PlaidChangeStep
  <2>4. CASE OpenAccount \/ SyncAccounts \/ SyncAccountsLoginRequired \/ Relink
    BY <2>4, SurroundingStep
  <2> QED BY <2>1, <2>2, <2>3, <2>4 DEF Next
<1> QED BY <1>1, InitInvariant, PTL DEF Spec

\* Every variable keeps its type: every table holds rows, every window stays
\* inside Plaid's log, so that every payload written is one Plaid sent.
THEOREM TypeCorrect == Spec => []TypeOK
<1>1. IInv => TypeOK
  BY DEF IInv
<1> QED BY <1>1, Invariance, PTL

\* Unless a request committed over a cursor it had not read, the tables are
\* exactly what Plaid's history up to the stored cursor amounts to: crashes,
\* failures, the mutation restart, and requests that overlap without
\* committing over each other never lose or resurrect a transaction.
THEOREM MirrorCorrect == Spec => []MirrorWhenSerial
<1>1. IInv => MirrorWhenSerial
  BY DEF IInv
<1> QED BY <1>1, Invariance, PTL

-----------------------------------------------------------------------------
(* Requests that overlap: the invariant.                                   *)

Processed(t) == raw[t] # Absent /\ raw[t].status = "processed"

\* A transaction whose raw row is marked processed is on an account we hold.
ProcessedHeld == \A t \in Txns : Processed(t) => AcctOf[t] \in accounts

UnlockedStale == \A i \in Items : unlocked[i] => stale[i]

\* From the first query after the fetch to its end a request holds the row of
\* its item, unless it found 'syncing' there.
LockHeld(s) ==
    pc[s] \in {"accts", "list", "raws", "txs", "commit"} /\ seen[s].status # "syncing" =>
      lock[item[s]] = s

\* No other request of the item can have written since the accounts were read:
\* the row is locked, or the cursor has not moved.
Alone(s) ==
    \/ seen[s].status # "syncing"
    \/ ~stale[item[s]] /\ seen[s].cursor = cursor[item[s]]

\* The accounts a session has loaded are held or will be with its commit; if
\* it is alone, they include those of every processed transaction.
LoadedAccounts(s) ==
    pc[s] \in {"raws", "txs", "commit"} =>
      /\ view[s].acc \subseteq accounts \cup mine[s]
      /\ Alone(s) => \A t \in Txns : TxnItem(t) = item[s] /\ Processed(t) => AcctOf[t] \in view[s].acc

\* The raw rows it has loaded as processed still are.
LoadedRaws(s) ==
    pc[s] \in {"txs", "commit"} =>
      \A t \in Txns : /\ view[s].raw[t] # Absent /\ view[s].raw[t].status = "processed"
                      /\ ~unlocked[TxnItem(t)]
                      => Processed(t)

SessionRows(s) == LockHeld(s) /\ LoadedAccounts(s) /\ LoadedRaws(s)

RowsInv ==
    /\ IInv
    /\ UnlockedStale
    /\ ProcessedHeld
    /\ RowsBacked
    /\ \A s \in Sessions : SessionRows(s)

-----------------------------------------------------------------------------
(* Steps that write neither raw_plaid_transactions nor transactions.       *)

LEMMA RowsInit == Init => RowsInv
<1> SUFFICES ASSUME Init PROVE RowsInv
  OBVIOUS
<1> USE ConstantsAssumption
<1>1. IInv
  BY InitInvariant
<1>2. (\A s \in Sessions : SessionRows(s)) /\ UnlockedStale
  BY DEF Init, SessionInit, SessionRows, LockHeld, LoadedAccounts, LoadedRaws, UnlockedStale
<1>3. CASE FreshInit
  BY <1>1, <1>2, <1>3 DEF FreshInit, RowsInv, ProcessedHeld, Processed, RowsBacked
<1>4. CASE LegacyInit
  <2>1. PICK t \in Txns, v \in Vals :
      /\ AcctOf[t] \in SyncedAccts \cap opened
      /\ log = [i \in Items |-> IF i = TxnItem(t)
                                  THEN <<[txn |-> t, op |-> "added", val |-> v]>>
                                  ELSE <<>>]
      /\ cursor = [i \in Items |-> IF i = TxnItem(t) THEN 1 ELSE 0]
      /\ syncStatus = [i \in Items |-> IF i = TxnItem(t) THEN "idle" ELSE "none"]
      /\ accounts = {AcctOf[t]}
      /\ raw = [u \in Txns |-> IF u = t THEN [val |-> v, status |-> "processed"] ELSE Absent]
      /\ tx = [u \in Txns |-> IF u = t THEN [val |-> v, enriched |-> FALSE] ELSE Absent]
    BY <1>4, Zenon DEF LegacyInit
  <2>2. [val |-> v, status |-> "processed"] \in RawRow /\ [val |-> v, enriched |-> FALSE] \in TxRow
    BY DEF RawRow, TxRow
  <2>3. ProcessedHeld /\ RowsBacked
    BY <2>1, <2>2 DEF ProcessedHeld, Processed, RowsBacked
  <2> QED BY <1>1, <1>2, <2>3 DEF RowsInv
<1> QED BY <1>1, <1>2, <1>3, <1>4 DEF Init

\* If such a step loses no account, takes no lock away and changes what session
\* s has loaded only, then only s has to be checked again.
LEMMA RowsQuietStep ==
  ASSUME RowsInv, IInv', NEW s \in Sessions,
         UNCHANGED <<raw, tx, cursor, stale, unlocked>>, accounts \subseteq accounts',
         \A r \in Sessions \ {s} :
           /\ pc'[r] = pc[r] /\ item'[r] = item[r] /\ seen'[r] = seen[r]
           /\ mine'[r] = mine[r] /\ view'[r] = view[r]
           /\ lock[item[r]] = r => lock'[item[r]] = r,
         SessionRows(s)'
  PROVE  RowsInv'
<1>1. ProcessedHeld' /\ RowsBacked' /\ UnlockedStale'
  BY DEF RowsInv, ProcessedHeld, Processed, RowsBacked, TxnItem, UnlockedStale
<1>2. ASSUME NEW r \in Sessions PROVE SessionRows(r)'
  <2>1. CASE r = s
    BY <2>1
  <2>2. CASE r # s
    <3>1. LockHeld(r)'
      BY <2>2 DEF RowsInv, SessionRows, LockHeld
    <3>2. LoadedAccounts(r)'
      BY <2>2 DEF RowsInv, SessionRows, LoadedAccounts, Alone, Processed, TxnItem
    <3>3. LoadedRaws(r)'
      BY <2>2 DEF RowsInv, SessionRows, LoadedRaws, Processed, TxnItem
    <3> QED BY <3>1, <3>2, <3>3 DEF SessionRows
  <2> QED BY <2>1, <2>2
<1> QED BY <1>1, <1>2 DEF RowsInv

\* The steps of one request but its commit.
LEMMA RowsRequestStep ==
  ASSUME RowsInv, IInv', NEW s \in Sessions,
         \/ SyncTransactions(s) \/ LoadState(s) \/ CreateState(s) \/ FetchPage(s)
         \/ RestartFetch(s) \/ FetchFails(s) \/ FlushSyncing(s) \/ SyncItemAccounts(s)
         \/ SyncItemAccountsLoginRequired(s) \/ SyncItemAccountsFails(s) \/ ReadAccounts(s)
         \/ ReadRaws(s) \/ ReadTxs(s) \/ CommitConflict(s) \/ Crash(s)
  PROVE  RowsInv'
<1> USE ConstantsAssumption
<1> DEFINE Others == \A r \in Sessions \ {s} :
                       /\ pc'[r] = pc[r] /\ item'[r] = item[r] /\ seen'[r] = seen[r]
                       /\ mine'[r] = mine[r] /\ view'[r] = view[r]
           Locks == \A r \in Sessions \ {s} : \A i \in Items : lock[i] = r => lock'[i] = r
<1>0. TypeOK /\ item[s] \in Items /\ SessionRows(s) /\ \A r \in Sessions : item[r] \in Items
  BY DEF RowsInv, IInv, TypeOK
<1>1. UNCHANGED <<raw, tx, cursor, stale, unlocked, accounts>>
  BY DEF SyncTransactions, LoadState, CreateState, FetchPage, RestartFetch, FetchFails,
         FlushSyncing, SyncItemAccounts, SyncItemAccountsLoginRequired, SyncItemAccountsFails,
         ReadAccounts, ReadRaws, ReadTxs, CommitConflict, Crash, dbVars
<1>2. Locks
  <2>1. \/ lock' = lock
        \/ lock' = Free(s)
        \/ lock[item[s]] \in {s, Nobody} /\ lock' = [lock EXCEPT ![item[s]] = s]
    BY DEF SyncTransactions, LoadState, CreateState, FetchPage, RestartFetch, FetchFails,
         FlushSyncing, SyncItemAccounts, SyncItemAccountsLoginRequired, SyncItemAccountsFails,
         ReadAccounts, ReadRaws, ReadTxs, CommitConflict, Crash, EndRequest
  <2> QED BY <1>0, <2>1 DEF TypeOK, Free
<1>3. CASE EndRequest(s)
  <2>1. Others /\ pc'[s] = "idle"
    BY <1>0, <1>3 DEF EndRequest, TypeOK
  <2>2. SessionRows(s)'
    BY <2>1 DEF SessionRows, LockHeld, LoadedAccounts, LoadedRaws
  <2> QED BY <1>0, <1>1, <1>2, <2>1, <2>2, RowsQuietStep
<1>4. CASE SyncTransactions(s) \/ LoadState(s) \/ CreateState(s) \/ FetchPage(s) \/ RestartFetch(s)
  <2>1. CASE CreateState(s) /\ EndRequest(s)
    BY <1>3, <2>1
  <2>2. CASE ~(CreateState(s) /\ EndRequest(s))
    <3>1. Others /\ pc'[s] \in {"load", "insert", "fetch", "flush"}
      <4>1. CASE SyncTransactions(s) \/ LoadState(s)
        <5>1. \/ pc' = [pc EXCEPT ![s] = "load"] /\ item' = item /\ seen' = seen
              \/ /\ pc' = [pc EXCEPT ![s] = "insert"] \/ pc' = [pc EXCEPT ![s] = "fetch"]
                 /\ \E i \in todo[s] :
                      /\ item' = [item EXCEPT ![s] = i]
                      /\ \/ seen' = seen
                         \/ seen' = [seen EXCEPT ![s] = [cursor |-> cursor[i], status |-> syncStatus[i]]]
          BY <4>1 DEF SyncTransactions, LoadState
        <5>2. mine' = mine /\ view' = view
          BY <4>1 DEF SyncTransactions, LoadState
        <5> QED BY <1>0, <5>1, <5>2 DEF TypeOK
      <4>2. CASE CreateState(s)
        BY <1>0, <2>2, <4>2 DEF TypeOK, CreateState
      <4>3. CASE FetchPage(s) \/ RestartFetch(s)
        BY <1>0, <4>3 DEF TypeOK, FetchPage, RestartFetch
      <4> QED BY <1>4, <4>1, <4>2, <4>3
    <3>2. SessionRows(s)'
      BY <3>1 DEF SessionRows, LockHeld, LoadedAccounts, LoadedRaws
    <3> QED BY <1>0, <1>1, <1>2, <3>1, <3>2, RowsQuietStep
  <2> QED BY <2>1, <2>2
<1>5. CASE FlushSyncing(s)
  <2>1. Others /\ pc'[s] \in {"accts", "list"} /\ seen' = seen /\ item' = item
    <3>1. \/ pc' = [pc EXCEPT ![s] = "accts"]
          \/ pc' = [pc EXCEPT ![s] = "list"]
      BY <1>5 DEF FlushSyncing
    <3>2. UNCHANGED <<item, seen, mine, view>>
      BY <1>5 DEF FlushSyncing
    <3> QED BY <1>0, <3>1, <3>2 DEF TypeOK
  <2>2. seen[s].status # "syncing" => lock'[item[s]] = s
    BY <1>0, <1>5 DEF FlushSyncing, TypeOK
  <2>3. SessionRows(s)'
    BY <2>1, <2>2 DEF SessionRows, LockHeld, LoadedAccounts, LoadedRaws
  <2> QED BY <1>0, <1>1, <1>2, <2>1, <2>3, RowsQuietStep
<1>6. CASE SyncItemAccounts(s)
  <2>1. /\ Others /\ pc[s] = "accts" /\ pc'[s] = "list"
        /\ UNCHANGED <<item, seen, lock>>
    BY <1>0, <1>6 DEF SyncItemAccounts, TypeOK
  <2>2. SessionRows(s)'
    BY <1>0, <2>1 DEF SessionRows, LockHeld, LoadedAccounts, LoadedRaws
  <2> QED BY <1>0, <1>1, <1>2, <2>1, <2>2, RowsQuietStep
<1>7. CASE ReadAccounts(s)
  <2> DEFINE acc == {a \in accounts \cup mine[s] : ItemOf[a] = item[s]}
  <2>1. /\ view' = [view EXCEPT ![s].acc = acc] /\ pc[s] = "list" /\ pc' = [pc EXCEPT ![s] = "raws"]
        /\ UNCHANGED <<item, seen, mine, lock>>
    BY <1>7 DEF ReadAccounts
  <2>2. view'[s].acc = acc /\ pc'[s] = "raws" /\ Others
    BY <1>0, <2>1 DEF TypeOK, View
  <2>3. acc \subseteq accounts \cup mine[s]
    OBVIOUS
  <2>4. \A t \in Txns : TxnItem(t) = item[s] /\ Processed(t) => AcctOf[t] \in acc
    BY DEF RowsInv, ProcessedHeld, TxnItem
  <2> HIDE DEF acc
  <2>5. LockHeld(s)'
    BY <1>0, <2>1, <2>2 DEF SessionRows, LockHeld
  <2>6. LoadedAccounts(s)' /\ LoadedRaws(s)'
    BY <1>1, <2>1, <2>2, <2>3, <2>4 DEF LoadedAccounts, LoadedRaws, Processed, TxnItem
  <2> QED BY <1>0, <1>1, <1>2, <2>2, <2>5, <2>6, RowsQuietStep DEF SessionRows
<1>8. CASE ReadRaws(s)
  <2> DEFINE rows == [t \in Txns |-> IF t \in ChangedIds(s) THEN raw[t] ELSE Absent]
  <2>1. /\ view' = [view EXCEPT ![s].raw = rows] /\ pc[s] = "raws" /\ pc' = [pc EXCEPT ![s] = "txs"]
        /\ UNCHANGED <<item, seen, mine, lock>>
    BY <1>8 DEF ReadRaws
  <2>2. \A t \in Txns : rows[t] # Absent => rows[t] = raw[t]
    OBVIOUS
  <2> HIDE DEF rows
  <2>3. view'[s].raw = rows /\ view'[s].acc = view[s].acc /\ pc'[s] = "txs" /\ Others
    BY <1>0, <2>1 DEF TypeOK, View
  <2>4. LockHeld(s)'
    BY <1>0, <2>1, <2>3 DEF SessionRows, LockHeld
  <2>5. LoadedAccounts(s)'
    BY <1>0, <1>1, <2>1, <2>3 DEF SessionRows, LoadedAccounts, Alone, Processed, TxnItem
  <2>6. LoadedRaws(s)'
    BY <1>1, <2>2, <2>3 DEF LoadedRaws, Processed
  <2> QED BY <1>0, <1>1, <1>2, <2>3, <2>4, <2>5, <2>6, RowsQuietStep DEF SessionRows
<1>9. CASE ReadTxs(s)
  <2>1. /\ pc[s] = "txs" /\ pc'[s] = "commit" /\ Others
        /\ view'[s].acc = view[s].acc /\ view'[s].raw = view[s].raw
        /\ UNCHANGED <<item, seen, mine, lock>>
    BY <1>0, <1>9 DEF ReadTxs, TypeOK, View
  <2>2. LockHeld(s)'
    BY <1>0, <2>1 DEF SessionRows, LockHeld
  <2>3. LoadedAccounts(s)'
    BY <1>0, <1>1, <2>1 DEF SessionRows, LoadedAccounts, Alone, Processed, TxnItem
  <2>4. LoadedRaws(s)'
    BY <1>0, <1>1, <2>1 DEF SessionRows, LoadedRaws, Processed, TxnItem
  <2> QED BY <1>0, <1>1, <1>2, <2>1, <2>2, <2>3, <2>4, RowsQuietStep DEF SessionRows
<1> QED BY <1>3, <1>4, <1>5, <1>6, <1>7, <1>8, <1>9 DEF FetchFails, SyncItemAccountsLoginRequired,
            SyncItemAccountsFails, CommitConflict, Crash

-----------------------------------------------------------------------------
(* The commit.                                                             *)

\* A commit that is not the exception was made alone.
LEMMA CommittedAlone ==
  ASSUME RowsInv, NEW s \in Sessions, CommitWindow(s), ~unlocked'[item[s]]
  PROVE  Alone(s)
<1>1. item[s] \in Items /\ TypeOK
  BY DEF RowsInv, IInv, TypeOK
<1>2. seen[s].status = "syncing" => ~stale'[item[s]]
  BY <1>1 DEF CommitWindow, TypeOK
<1>3. ~stale'[item[s]] => ~stale[item[s]] /\ seen[s].cursor = cursor[item[s]]
  BY <1>1 DEF CommitWindow, TypeOK
<1> QED BY <1>2, <1>3 DEF Alone

\* The history variables of the other items stay as they are.
LEMMA CommitHistory ==
  ASSUME RowsInv, NEW s \in Sessions, CommitWindow(s)
  PROVE  /\ \A i \in Items : (stale[i] => stale'[i]) /\ (unlocked[i] => unlocked'[i])
         /\ \A i \in Items \ {item[s]} : stale'[i] = stale[i] /\ unlocked'[i] = unlocked[i] /\ cursor'[i] = cursor[i]
         /\ unlocked'[item[s]] => unlocked[item[s]] \/ stale'[item[s]]
<1>1. item[s] \in Items /\ TypeOK
  BY DEF RowsInv, IInv, TypeOK
<1>2. /\ \E c : cursor' = [cursor EXCEPT ![item[s]] = c]
      /\ stale' = [stale EXCEPT ![item[s]] = @ \/ seen[s].cursor # cursor[item[s]]]
      /\ unlocked' = [unlocked EXCEPT ![item[s]] = @ \/ (seen[s].status = "syncing" /\ stale'[item[s]])]
  BY DEF CommitWindow
<1> QED BY <1>1, <1>2 DEF TypeOK

\* A commit keeps what is marked processed: a session that is alone normalizes
\* it again, and so writes no other status; the rows outside the window stay.
LEMMA ProcessedKept ==
  ASSUME RowsInv, NEW s \in Sessions, CommitWindow(s),
         NEW t \in Txns, raw[t] # Absent
  PROVE  /\ raw'[t] # Absent
         /\ Processed(t) /\ ~unlocked'[TxnItem(t)] => Processed(t)'
<1> USE ConstantsAssumption
<1>0. pc[s] = "commit" /\ pc[s] \in Windowed /\ ~Conflict(s) /\ raw' = RawCommitted(s)
  BY DEF CommitWindow, Windowed
<1>1. CASE t \notin ChangedIds(s)
  BY <1>0, <1>1 DEF RawCommitted, Processed
<1>2. CASE t \in ChangedIds(s)
  <2>1. raw'[t] = RawAfter(s, t)
    BY <1>0, <1>2 DEF RawCommitted
  <2>2. RawAfter(s, t) \in RawRow
    BY <1>0, <1>2, CommitTypes DEF RowsInv
  <2>3. view[s].raw[t] # Absent
    BY <1>0, <1>2 DEF Conflict
  <2>4. RawAfter(s, t).status =
          Net(view[s].raw[t].status, IF Normalized(s, t) THEN "processed" ELSE "skipped", raw[t].status)
    BY <2>3 DEF RawAfter
  <2>5. TxnItem(t) = item[s]
    BY <1>0, <1>2, WindowOfItem DEF RowsInv
  <2>6. ASSUME Processed(t), ~unlocked'[TxnItem(t)] PROVE RawAfter(s, t).status = "processed"
    <3>1. Alone(s)
      BY <2>5, <2>6, CommittedAlone
    <3>2. Normalized(s, t)
      BY <1>0, <2>5, <2>6, <3>1 DEF RowsInv, SessionRows, LoadedAccounts, Normalized
    <3> QED BY <2>4, <2>6, <3>2 DEF Net, Processed
  <2>7. raw'[t] # Absent
    BY <2>1, <2>2
  <2> QED BY <2>1, <2>6, <2>7 DEF Processed
<1> QED BY <1>1, <1>2

\* A row that a commit leaves processed is on an account we hold by then.
LEMMA ProcessedHeldAfter ==
  ASSUME RowsInv, NEW s \in Sessions, CommitWindow(s), NEW t \in Txns, Processed(t)'
  PROVE  AcctOf[t] \in accounts'
<1>0. /\ pc[s] = "commit" /\ raw' = RawCommitted(s) /\ accounts' = accounts \cup mine[s]
      /\ view[s].acc \subseteq accounts \cup mine[s]
  BY DEF CommitWindow, RowsInv, SessionRows, LoadedAccounts
<1>1. CASE Processed(t)
  BY <1>0, <1>1 DEF RowsInv, ProcessedHeld
<1>2. CASE ~Processed(t)
  <2>1. t \in ChangedIds(s)
    BY <1>0, <1>2 DEF RawCommitted, Processed
  <2>2. RawAfter(s, t).status = "processed"
    BY <1>0, <2>1 DEF RawCommitted, Processed
  <2>3. view[s].raw[t] # Absent => raw[t] # Absent
    BY <1>0 DEF RowsInv, IInv, ViewOK
  <2>4. Normalized(s, t)
    BY <1>2, <2>2, <2>3 DEF RawAfter, Net, Processed
  <2> QED BY <1>0, <2>4 DEF Normalized
<1> QED BY <1>1, <1>2

\* A normalized row that a commit writes or leaves has its account and its raw
\* row; but for the exception, one that is marked processed.
LEMMA BackedAfter ==
  ASSUME RowsInv, NEW s \in Sessions, CommitWindow(s), NEW t \in Txns, tx'[t] # Absent
  PROVE  /\ AcctOf[t] \in accounts'
         /\ raw'[t] # Absent
         /\ ~unlocked'[TxnItem(t)] => Processed(t)'
<1> USE ConstantsAssumption
<1>0. /\ pc[s] = "commit" /\ pc[s] \in Windowed /\ ~Conflict(s)
      /\ raw' = RawCommitted(s) /\ tx' = TxCommitted(s) /\ accounts' = accounts \cup mine[s]
      /\ TxnItem(t) \in Items
  BY DEF CommitWindow, Windowed, TxnItem
<1>1. unlocked[TxnItem(t)] => unlocked'[TxnItem(t)]
  BY <1>0, CommitHistory
<1>2. CASE tx[t] # Absent
  <2>1. /\ AcctOf[t] \in accounts /\ raw[t] # Absent
        /\ ~unlocked[TxnItem(t)] => Processed(t)
    BY <1>2 DEF RowsInv, RowsBacked, Processed
  <2> QED BY <1>0, <1>1, <2>1, ProcessedKept
<1>3. CASE tx[t] = Absent
  <2>1. t \in ChangedIds(s) /\ Normalized(s, t)
    BY <1>0, <1>3 DEF TxCommitted
  <2>2. raw'[t] = RawAfter(s, t) /\ RawAfter(s, t) \in RawRow
    BY <1>0, <2>1, CommitTypes DEF RawCommitted, RowsInv
  <2>3. AcctOf[t] \in accounts'
    BY <1>0, <2>1 DEF Normalized, RowsInv, SessionRows, LoadedAccounts
  <2>4. CASE view[s].raw[t] = Absent
    <3>1. RawAfter(s, t).status = "processed"
      BY <2>1, <2>4 DEF RawAfter
    <3> QED BY <2>2, <2>3, <3>1 DEF Processed
  <2>5. CASE view[s].raw[t] # Absent
    <3>1. RawAfter(s, t).status = Net(view[s].raw[t].status, "processed", raw[t].status)
      BY <2>1, <2>5 DEF RawAfter
    <3>2. view[s].raw[t].status = "processed" /\ ~unlocked[TxnItem(t)] => raw[t].status = "processed"
      BY <1>0, <2>5 DEF RowsInv, SessionRows, LoadedRaws, Processed
    <3>3. ~unlocked'[TxnItem(t)] => RawAfter(s, t).status = "processed"
      BY <1>1, <3>1, <3>2 DEF Net
    <3> QED BY <2>2, <2>3, <3>3 DEF Processed
  <2> QED BY <2>4, <2>5
<1> QED BY <1>2, <1>3

\* Of an item no stale commit has touched, its payload is that of the raw row.
LEMMA SamePayloadAfter ==
  ASSUME RowsInv, NEW s \in Sessions, CommitWindow(s),
         NEW t \in Txns, tx'[t] # Absent, ~stale'[TxnItem(t)]
  PROVE  raw'[t].val = tx'[t].val
<1> USE ConstantsAssumption
<1> DEFINE i == item[s]
<1>1. /\ pc[s] = "commit" /\ pc[s] \in Windowed /\ ~Conflict(s) /\ raw' = RawCommitted(s)
      /\ tx' = TxCommitted(s)
      /\ stale' = [stale EXCEPT ![i] = @ \/ seen[s].cursor # cursor[i]]
  BY DEF CommitWindow, Windowed
<1>2. TypeOK /\ IInv /\ i \in Items /\ TxnItem(t) \in Items
  BY DEF RowsInv, IInv, TypeOK, TxnItem
<1>3. ~stale[TxnItem(t)] /\ (TxnItem(t) = i => seen[s].cursor = cursor[i])
  BY <1>1, <1>2 DEF TypeOK
<1>4. t \notin RemovedIds(s)
  BY <1>1 DEF TxCommitted
<1>5. CASE t \in ChangedIds(s)
  <2>1. TxnItem(t) = i
    BY <1>1, <1>2, <1>5, WindowOfItem
  <2>2. ~unlocked'[TxnItem(t)]
    BY <1>2, <1>3, <2>1, CommitHistory DEF RowsInv, UnlockedStale
  <2>3. RawCommitted(s)[t].status = "processed"
    BY <1>1, <2>2, BackedAfter DEF Processed
  <2>4. raw'[t].val = Payload(s, t) /\ tx'[t].val = Payload(s, t)
    BY <1>1, <1>2, <1>3, <1>4, <1>5, <2>1, <2>3, Applied
  <2> QED BY <2>4
<1>6. CASE t \notin ChangedIds(s)
  <2>1. raw'[t] = raw[t] /\ SameRow(tx[t], tx'[t])
    BY <1>1, <1>2, <1>4, <1>6, Untouched
  <2>2. tx[t] # Absent /\ tx[t].val = tx'[t].val
    BY <2>1 DEF SameRow
  <2> QED BY <1>3, <2>1, <2>2 DEF RowsInv, RowsBacked
<1> QED BY <1>5, <1>6

\* A commit leaves the processed rows of another session that is alone after it
\* as they were: that session held the lock, its item is another one, or the
\* committed window was empty.
LEMMA OthersAlone ==
  ASSUME RowsInv, NEW s \in Sessions, CommitWindow(s), NEW r \in Sessions, r # s,
         pc[r] \in {"raws", "txs", "commit"},
         \/ seen[r].status # "syncing"
         \/ ~stale'[item[r]] /\ seen[r].cursor = cursor'[item[r]]
  PROVE  /\ Alone(r)
         /\ \A t \in Txns : TxnItem(t) = item[r] => raw'[t] = raw[t]
<1> USE ConstantsAssumption
<1> DEFINE i == item[s]
<1>0. /\ pc[s] = "commit" /\ pc[s] \in Windowed /\ pc[r] \in Windowed
      /\ lock[i] \in {s, Nobody} /\ raw' = RawCommitted(s)
      /\ i \in Items /\ item[r] \in Items /\ TypeOK
  BY DEF CommitWindow, Windowed, RowsInv, IInv, TypeOK
<1>1. CASE item[r] # i
  <2>1. stale'[item[r]] = stale[item[r]] /\ cursor'[item[r]] = cursor[item[r]]
    BY <1>0, <1>1, CommitHistory
  <2>2. ASSUME NEW t \in Txns, TxnItem(t) = item[r] PROVE raw'[t] = raw[t]
    <3>1. t \notin ChangedIds(s)
      BY <1>0, <1>1, <2>2, WindowOfItem DEF RowsInv
    <3> QED BY <1>0, <3>1 DEF RawCommitted
  <2> QED BY <2>1, <2>2 DEF Alone
<1>2. CASE item[r] = i
  <2>1. seen[r].status = "syncing"
    BY <1>0, <1>2 DEF RowsInv, SessionRows, LockHeld
  <2>2. ~stale'[i] /\ seen[r].cursor = cursor'[i]
    BY <1>2, <2>1
  <2>3. /\ ~stale[i] /\ seen[s].cursor = cursor[i]
        /\ cursor'[i] \in {upto[s], Net(seen[s].cursor, upto[s], cursor[i])}
    BY <1>0, <2>2 DEF CommitWindow, TypeOK
  <2>4. cursor'[i] = upto[s]
    BY <2>3 DEF Net
  <2>5. /\ seen[r].cursor <= cursor[i] /\ seen[s].cursor <= upto[s]
        /\ cursor[i] \in Nat /\ upto[s] \in Nat /\ seen[r].cursor \in Nat
    BY <1>0, <1>2, <2>3 DEF RowsInv, IInv, WindowOK, TypeOK
  <2>6. upto[s] <= seen[s].cursor /\ seen[r].cursor = cursor[i]
    BY <2>2, <2>3, <2>4, <2>5
  <2>7. ChangedIds(s) = {}
    BY <1>0, <2>6, EmptyWindow
  <2>8. \A t \in Txns : raw'[t] = raw[t]
    BY <1>0, <2>7 DEF RawCommitted
  <2> QED BY <1>2, <2>3, <2>6, <2>8 DEF Alone
<1> QED BY <1>1, <1>2

LEMMA RowsCommitStep ==
  ASSUME RowsInv, IInv', NEW s \in Sessions, CommitWindow(s)
  PROVE  RowsInv'
<1> USE ConstantsAssumption
<1>1. /\ pc[s] = "commit" /\ ~Conflict(s) /\ raw' = RawCommitted(s) /\ tx' = TxCommitted(s)
      /\ accounts' = accounts \cup mine[s] /\ lock' = Free(s)
      /\ \E p \in {"idle", "load"} : pc' = [pc EXCEPT ![s] = p]
      /\ mine' = [mine EXCEPT ![s] = {}] /\ view' = [view EXCEPT ![s] = NoView]
      /\ item' = [item EXCEPT ![s] = NoItem] /\ seen' = [seen EXCEPT ![s] = NoState]
  BY DEF CommitWindow
<1>2. TypeOK /\ item[s] \in Items
  BY DEF RowsInv, IInv, TypeOK
<1>3. ProcessedHeld'
  BY ProcessedHeldAfter DEF ProcessedHeld
<1>4. RowsBacked'
  <2> SUFFICES ASSUME NEW t \in Txns, tx'[t] # Absent
               PROVE  /\ AcctOf[t] \in accounts'
                      /\ raw'[t] # Absent
                      /\ ~unlocked'[TxnItem(t)] => raw'[t].status = "processed"
                      /\ ~stale'[TxnItem(t)] => raw'[t].val = tx'[t].val
    BY DEF RowsBacked, TxnItem
  <2> QED BY BackedAfter, SamePayloadAfter DEF Processed
<1>5. UnlockedStale'
  <2> SUFFICES ASSUME NEW i \in Items, unlocked'[i] PROVE stale'[i]
    BY DEF UnlockedStale
  <2> QED BY <1>2, CommitHistory DEF RowsInv, UnlockedStale
<1>6. ASSUME NEW r \in Sessions PROVE SessionRows(r)'
  <2>1. CASE r = s
    <3>1. pc'[r] \in {"idle", "load"}
      BY <1>1, <1>2, <2>1 DEF TypeOK
    <3> QED BY <3>1 DEF SessionRows, LockHeld, LoadedAccounts, LoadedRaws
  <2>2. CASE r # s
    <3>1. /\ pc'[r] = pc[r] /\ mine'[r] = mine[r] /\ view'[r] = view[r]
          /\ item'[r] = item[r] /\ seen'[r] = seen[r] /\ item[r] \in Items
      BY <1>1, <1>2, <2>2 DEF TypeOK
    <3>2. lock[item[r]] = r => lock'[item[r]] = r
      BY <1>1, <1>2, <2>2, <3>1 DEF Free
    <3>3. LockHeld(r)'
      BY <3>1, <3>2 DEF RowsInv, SessionRows, LockHeld
    <3>4. LoadedAccounts(r)'
      <4> SUFFICES ASSUME pc[r] \in {"raws", "txs", "commit"}
                   PROVE  /\ view[r].acc \subseteq accounts' \cup mine[r]
                          /\ Alone(r)' => \A t \in Txns : TxnItem(t) = item[r] /\ Processed(t)'
                                                           => AcctOf[t] \in view[r].acc
        BY <3>1 DEF LoadedAccounts, TxnItem
      <4>1. view[r].acc \subseteq accounts' \cup mine[r]
        BY <1>1 DEF RowsInv, SessionRows, LoadedAccounts
      <4>2. ASSUME Alone(r)', NEW t \in Txns, TxnItem(t) = item[r], Processed(t)'
            PROVE  AcctOf[t] \in view[r].acc
        <5>1. \/ seen[r].status # "syncing"
              \/ ~stale'[item[r]] /\ seen[r].cursor = cursor'[item[r]]
          BY <3>1, <4>2 DEF Alone
        <5>2. Alone(r) /\ raw'[t] = raw[t]
          BY <2>2, <4>2, <5>1, OthersAlone
        <5> QED BY <4>2, <5>2 DEF RowsInv, SessionRows, LoadedAccounts, Processed
      <4> QED BY <4>1, <4>2
    <3>5. LoadedRaws(r)'
      <4> SUFFICES ASSUME pc[r] \in {"txs", "commit"}, NEW t \in Txns, view[r].raw[t] # Absent,
                          view[r].raw[t].status = "processed", ~unlocked'[TxnItem(t)]
                   PROVE  Processed(t)'
        BY <3>1 DEF LoadedRaws, TxnItem
      <4>1. TxnItem(t) \in Items
        BY DEF TxnItem
      <4>2. ~unlocked[TxnItem(t)]
        BY <4>1, CommitHistory
      <4>3. Processed(t)
        BY <4>2 DEF RowsInv, SessionRows, LoadedRaws
      <4> QED BY <4>3, ProcessedKept DEF Processed
    <3> QED BY <3>3, <3>4, <3>5 DEF SessionRows
  <2> QED BY <2>1, <2>2
<1> QED BY <1>3, <1>4, <1>5, <1>6 DEF RowsInv

-----------------------------------------------------------------------------
(* Every step.                                                             *)

LEMMA RowsSurroundingStep ==
  ASSUME RowsInv, IInv',
         PlaidChange \/ OpenAccount \/ SyncAccounts \/ SyncAccountsLoginRequired \/ Relink \/ UNCHANGED vars
  PROVE  RowsInv'
<1>1. /\ UNCHANGED <<raw, tx, cursor, stale, unlocked, lock, pc, item, seen, mine, view>>
      /\ accounts \subseteq accounts'
  BY DEF PlaidChange, Append1, OpenAccount, SyncAccounts, SyncAccountsLoginRequired, Relink, vars, dbVars, sessVars
<1>2. ProcessedHeld' /\ RowsBacked' /\ UnlockedStale'
  BY <1>1 DEF RowsInv, ProcessedHeld, Processed, RowsBacked, TxnItem, UnlockedStale
<1>3. ASSUME NEW r \in Sessions PROVE SessionRows(r)'
  <2>1. LockHeld(r)' /\ LoadedRaws(r)'
    BY <1>1 DEF RowsInv, SessionRows, LockHeld, LoadedRaws, Processed, TxnItem
  <2>2. LoadedAccounts(r)'
    BY <1>1 DEF RowsInv, SessionRows, LoadedAccounts, Alone, Processed, TxnItem
  <2> QED BY <2>1, <2>2 DEF SessionRows
<1> QED BY <1>2, <1>3 DEF RowsInv

LEMMA RowsNextStep ==
  ASSUME RowsInv, IInv', [Next]_vars
  PROVE  RowsInv'
<1>1. ASSUME NEW s \in Sessions, SyncTransactions(s) \/ Progress(s) \/ Crash(s) PROVE RowsInv'
  <2>1. CASE CommitWindow(s)
    BY <2>1, RowsCommitStep
  <2> QED BY <1>1, <2>1, RowsRequestStep DEF Progress
<1> QED BY <1>1, RowsSurroundingStep DEF Next

LEMMA RowsInvariance == Spec => []RowsInv
<1>1. RowsInv /\ IInv' /\ [Next]_vars => RowsInv'
  BY RowsNextStep
<1> QED BY <1>1, RowsInit, Invariance, PTL DEF Spec

\* Only a commit writes the tables of a sync.
LEMMA OnlyCommitWrites ==
  ASSUME Next, \A s \in Sessions : ~CommitWindow(s)
  PROVE  UNCHANGED <<raw, tx>>
<1>1. ASSUME NEW s \in Sessions, SyncTransactions(s) \/ Progress(s) \/ Crash(s)
      PROVE  UNCHANGED <<raw, tx>>
  BY <1>1 DEF Progress, SyncTransactions, LoadState, CreateState, FetchPage, RestartFetch,
     FetchFails, FlushSyncing, SyncItemAccounts, SyncItemAccountsLoginRequired,
     SyncItemAccountsFails, ReadAccounts, ReadRaws, ReadTxs, CommitConflict, Crash, dbVars
<1> QED BY <1>1 DEF Next, PlaidChange, Append1, OpenAccount, SyncAccounts, SyncAccountsLoginRequired, Relink, dbVars

-----------------------------------------------------------------------------
(* The theorems.                                                           *)

\* However requests overlap, a normalized row stands on an account we hold and
\* on a raw row: one marked processed, unless a request without the row lock
\* committed over the cursor of another; one with the same payload, unless any
\* request did.
THEOREM RowsBackedAlways == Spec => []RowsBacked
<1>1. RowsInv => RowsBacked
  BY DEF RowsInv
<1> QED BY <1>1, RowsInvariance, PTL

\* No step of any request deletes a row of the audit trail, and none takes its
\* processed mark back, also not one that decided on accounts read earlier,
\* unless a request without the row lock commits over the cursor of another.
THEOREM TrailKept == Spec => AuditTrailKept
<1> DEFINE Kept == \A t \in Txns : raw[t] # Absent =>
                     /\ raw'[t] # Absent
                     /\ raw[t].status = "processed" /\ ~unlocked'[TxnItem(t)] =>
                          raw'[t].status = "processed"
<1>1. RowsInv /\ [Next]_vars => [Kept]_vars
  <2> SUFFICES ASSUME RowsInv, Next PROVE Kept
    OBVIOUS
  <2>1. CASE \E s \in Sessions : CommitWindow(s)
    BY <2>1, ProcessedKept DEF Processed
  <2>2. CASE \A s \in Sessions : ~CommitWindow(s)
    BY <2>2, OnlyCommitWrites
  <2> QED BY <2>1, <2>2
<1> QED BY <1>1, RowsInvariance, PTL DEF Spec, AuditTrailKept

\* Every row of the item whose window is committed is enriched by that commit.
THEOREM CommitHeals == Spec => HealedByCommit
<1> DEFINE Healed == \A s \in Sessions, t \in Txns :
                       CommitWindow(s) /\ TxnItem(t) = item[s] /\ tx'[t] # Absent => tx'[t].enriched
<1>1. IInv /\ IInv' /\ [Next]_vars => [Healed]_vars
  <2> SUFFICES ASSUME IInv, IInv', NEW s \in Sessions, NEW t \in Txns,
                      CommitWindow(s), TxnItem(t) = item[s], tx'[t] # Absent
               PROVE  tx'[t].enriched
    OBVIOUS
  <2> DEFINE row == IF t \in ChangedIds(s) /\ Normalized(s, t) THEN TxAfter(s, t) ELSE tx[t]
  <2>1. tx' = TxCommitted(s)
    BY DEF CommitWindow
  <2>2. tx'[t] = [row EXCEPT !.enriched = @ \/ TxnItem(t) = item[s]]
    BY <2>1 DEF TxCommitted
  <2>3. tx'[t] = [row EXCEPT !.enriched = TRUE]
    BY <2>2
  <2>4. tx'[t] \in TxRow
    BY DEF IInv, TypeOK
  <2>5. "enriched" \in DOMAIN row
    <3>1. DOMAIN tx'[t] = DOMAIN row
      BY <2>3
    <3>2. DOMAIN tx'[t] = {"val", "enriched"}
      BY <2>4 DEF TxRow
    <3> QED BY <3>1, <3>2
  <2> HIDE DEF row
  <2> QED BY <2>3, <2>5
<1> QED BY <1>1, Invariance, PTL DEF Spec, HealedByCommit

-----------------------------------------------------------------------------
(* Requests one after the other: Mirror.                                   *)

\* An item that has no plaid_sync_state row starts at the full history.
FreshCursors == \A i \in Items : syncStatus[i] = "none" => cursor[i] = 0

\* The window of a request begins at the stored cursor.
WindowAtCursor == \A s \in Sessions : pc[s] \in Windowed => seen[s].cursor = cursor[item[s]]

NeverStale == \A i \in Items : ~stale[i]

AllFaithful == \A i \in Items : M!Faithful(i)

MirrorInv ==
    /\ RowsInv
    /\ FreshCursors
    /\ WindowAtCursor
    /\ NeverStale
    /\ AllFaithful

\* What Mirror makes of the tables of one item, spelled out in the rows.
ItemFaithful(i) ==
    /\ cursor[i] \in 0..Len(log[i])
    /\ \A t \in Txns : TxnItem(t) = i =>
         /\ ValOf(raw[t]) = IF M!Upserted(t) = {} THEN Absent ELSE log[i][M!Max(M!Upserted(t))].val
         /\ \/ ValOf(tx[t]) = Absent
            \/ ValOf(tx[t]) = ValOf(raw[t]) /\ M!Told(t) = M!Upserted(t)

LEMMA FaithfulIs == \A i \in Items : M!Faithful(i) <=> ItemFaithful(i)
BY DEF M!Faithful, ItemFaithful

-----------------------------------------------------------------------------
(* Steps that leave the log, the cursors and the transaction tables alone. *)

LEMMA SameTables ==
  ASSUME UNCHANGED <<log, cursor, raw, tx>>
  PROVE  /\ AllFaithful => AllFaithful'
         /\ UNCHANGED M!mirrorVars
<1>1. \A t \in Txns : M!Told(t)' = M!Told(t) /\ M!Upserted(t)' = M!Upserted(t)
  BY DEF M!Told, M!Upserted, TxnItem
<1>2. ASSUME NEW i \in Items, ItemFaithful(i) PROVE ItemFaithful(i)'
  BY <1>1, <1>2 DEF ItemFaithful, ValOf, TxnItem
<1>3. AllFaithful => AllFaithful'
  BY <1>2, FaithfulIs DEF AllFaithful, M!Faithful, ItemFaithful
<1> QED BY <1>3 DEF M!mirrorVars, ValOf

\* If such a step of session s creates no cursor and moves no window, Mirror
\* stutters.
LEMMA MirrorQuietStep ==
  ASSUME MirrorInv, RowsInv', UNCHANGED <<log, cursor, raw, tx, stale>>,
         \A i \in Items : syncStatus'[i] = "none" => syncStatus[i] = "none",
         WindowAtCursor'
  PROVE  MirrorInv' /\ UNCHANGED M!mirrorVars
<1>1. FreshCursors' /\ NeverStale'
  BY DEF MirrorInv, FreshCursors, NeverStale
<1> QED BY <1>1, SameTables DEF MirrorInv

LEMMA MirrorRequestStep ==
  ASSUME MirrorInv, RowsInv', NEW s \in Sessions,
         \/ SyncTransactions(s) \/ LoadState(s) \/ CreateState(s) \/ FetchPage(s)
         \/ RestartFetch(s) \/ FetchFails(s) \/ FlushSyncing(s) \/ SyncItemAccounts(s)
         \/ SyncItemAccountsLoginRequired(s) \/ SyncItemAccountsFails(s) \/ ReadAccounts(s)
         \/ ReadRaws(s) \/ ReadTxs(s) \/ CommitConflict(s) \/ Crash(s)
  PROVE  MirrorInv' /\ UNCHANGED M!mirrorVars
<1>0. TypeOK /\ item[s] \in Items
  BY DEF MirrorInv, RowsInv, IInv, TypeOK
<1>1. /\ UNCHANGED <<log, cursor, raw, tx, stale>>
      /\ \A i \in Items : syncStatus'[i] = "none" => syncStatus[i] = "none"
  <2>1. UNCHANGED <<log, cursor, raw, tx, stale>>
    BY DEF SyncTransactions, LoadState, CreateState, FetchPage, RestartFetch, FetchFails,
         FlushSyncing, SyncItemAccounts, SyncItemAccountsLoginRequired, SyncItemAccountsFails,
         ReadAccounts, ReadRaws, ReadTxs, CommitConflict, Crash, dbVars, plaidVars
  <2>2. CASE FetchFails(s) \/ SyncItemAccountsLoginRequired(s)
    <3>1. PICK status \in {"error", "syncing"} :
            syncStatus' = [syncStatus EXCEPT ![item[s]] = Net(seen[s].status, status, @)]
      BY <2>2 DEF FetchFails, SyncItemAccountsLoginRequired
    <3>2. \A i \in Items : syncStatus'[i] \in {syncStatus[i], status}
      BY <1>0, <3>1 DEF TypeOK, Net
    <3> QED BY <2>1, <3>2
  <2>3. CASE ~(FetchFails(s) \/ SyncItemAccountsLoginRequired(s))
    <3>1. UNCHANGED syncStatus
      BY <2>3 DEF SyncTransactions, LoadState, CreateState, FetchPage, RestartFetch,
         FlushSyncing, SyncItemAccounts, SyncItemAccountsFails,
         ReadAccounts, ReadRaws, ReadTxs, CommitConflict, Crash, dbVars, plaidVars
    <3> QED BY <2>1, <3>1
  <2> QED BY <2>2, <2>3
<1>2. \A r \in Sessions \ {s} : pc'[r] = pc[r] /\ item'[r] = item[r] /\ seen'[r] = seen[r]
  BY <1>0 DEF TypeOK, SyncTransactions, LoadState, CreateState, FetchPage, RestartFetch, FetchFails,
         FlushSyncing, SyncItemAccounts, SyncItemAccountsLoginRequired, SyncItemAccountsFails,
         ReadAccounts, ReadRaws, ReadTxs, CommitConflict, Crash, EndRequest
<1>3. pc'[s] \in Windowed => seen'[s].cursor = cursor[item'[s]]
  <2>1. CASE LoadState(s)
    <3>1. PICK i \in todo[s] :
            /\ item' = [item EXCEPT ![s] = i]
            /\ \/ pc' = [pc EXCEPT ![s] = "insert"]
               \/ seen' = [seen EXCEPT ![s] = [cursor |-> cursor[i], status |-> syncStatus[i]]]
      BY <2>1 DEF LoadState
    <3> QED BY <1>0, <3>1 DEF TypeOK, Windowed
  <2>2. CASE CreateState(s)
    BY <1>0, <2>2 DEF TypeOK, Windowed, CreateState, EndRequest, NoState, MirrorInv, FreshCursors
  <2>3. CASE SyncTransactions(s) \/ EndRequest(s)
    <3>1. pc'[s] \in {"idle", "load"}
      BY <1>0, <2>3 DEF TypeOK, SyncTransactions, EndRequest
    <3> QED BY <3>1 DEF Windowed
  <2>4. CASE \/ FetchPage(s) \/ RestartFetch(s) \/ FlushSyncing(s) \/ SyncItemAccounts(s)
             \/ ReadAccounts(s) \/ ReadRaws(s) \/ ReadTxs(s)
    <3>1. seen' = seen /\ item' = item /\ pc[s] \in Windowed
      BY <2>4 DEF FetchPage, RestartFetch, FlushSyncing, SyncItemAccounts, ReadAccounts, ReadRaws, ReadTxs, Windowed
    <3> QED BY <3>1 DEF MirrorInv, WindowAtCursor
  <2> QED BY <2>1, <2>2, <2>3, <2>4 DEF FetchFails, SyncItemAccountsLoginRequired,
             SyncItemAccountsFails, CommitConflict, Crash
<1>4. WindowAtCursor'
  <2> SUFFICES ASSUME NEW r \in Sessions, pc'[r] \in Windowed PROVE seen'[r].cursor = cursor[item'[r]]
    BY <1>1 DEF WindowAtCursor
  <2> QED BY <1>2, <1>3 DEF MirrorInv, WindowAtCursor
<1> QED BY <1>1, <1>4, MirrorQuietStep

LEMMA MirrorSurroundingStep ==
  ASSUME MirrorInv, RowsInv', OpenAccount \/ SyncAccounts \/ SyncAccountsLoginRequired \/ Relink \/ UNCHANGED vars
  PROVE  MirrorInv' /\ UNCHANGED M!mirrorVars
<1>1. UNCHANGED <<log, cursor, raw, tx, stale, syncStatus, pc, seen, item>>
  BY DEF OpenAccount, SyncAccounts, SyncAccountsLoginRequired, Relink, vars, dbVars, sessVars, plaidVars
<1>2. WindowAtCursor'
  BY <1>1 DEF MirrorInv, WindowAtCursor
<1> QED BY <1>1, <1>2, MirrorQuietStep

-----------------------------------------------------------------------------
(* A change at Plaid.                                                      *)

LEMMA MirrorPlaidStep ==
  ASSUME MirrorInv, RowsInv', PlaidChange
  PROVE  MirrorInv' /\ M!Change
<1>1. PICK t \in Txns, v \in Vals, op \in {"added", "modified", "removed"} :
        \/ Append1(TxnItem(t), t, op, v)
        \/ Append1(TxnItem(t), t, op, log[TxnItem(t)][CHOOSE k \in Mentions(TxnItem(t), t) : TRUE].val)
  BY DEF PlaidChange
<1> DEFINE i == TxnItem(t)
<1>2. i \in Items /\ log \in [Items -> Seq(Change)]
  BY ConstantsAssumption DEF TxnItem, MirrorInv, RowsInv, IInv, TypeOK
<1>3. \E e : log' = [log EXCEPT ![i] = Append(@, e)]
  BY <1>1 DEF Append1
<1>4. UNCHANGED <<cursor, raw, tx, stale, syncStatus, pc, seen, item>>
  BY <1>1 DEF Append1, dbVars, sessVars
<1>5. /\ \A j \in Items \ {i} : log'[j] = log[j]
      /\ Len(log'[i]) = Len(log[i]) + 1
      /\ \A k \in DOMAIN log[i] : log'[i][k] = log[i][k]
  BY <1>2, <1>3
<1>6. M!Change
  BY <1>2, <1>4, <1>5 DEF M!Change, ValOf
<1>7. \A j \in Items : /\ cursor[j] \in Nat /\ cursor[j] <= Len(log[j]) /\ Len(log[j]) \in Nat
                       /\ Len(log[j]) <= Len(log'[j]) /\ Len(log'[j]) \in Nat
                       /\ \A k \in 1..cursor[j] : log'[j][k] = log[j][k]
  <2> TAKE j \in Items
  <2>1. cursor[j] \in Nat /\ cursor[j] <= Len(log[j]) /\ Len(log[j]) \in Nat /\ DOMAIN log[j] = 1..Len(log[j])
    BY <1>2 DEF MirrorInv, RowsInv, IInv, TypeOK, CursorsInLog
  <2>2. CASE j = i
    BY <2>1, <2>2, <1>5
  <2>3. CASE j # i
    BY <2>1, <2>3, <1>5
  <2> QED BY <2>2, <2>3
<1>8. ASSUME NEW j \in Items PROVE M!Faithful(j)'
  <2>1. ItemFaithful(j)
    BY FaithfulIs DEF MirrorInv, AllFaithful
  <2>2. ASSUME NEW u \in Txns, TxnItem(u) = j
        PROVE  /\ M!Told(u)' = M!Told(u) /\ M!Upserted(u)' = M!Upserted(u)
               /\ M!Upserted(u) \subseteq 1..cursor[j]
    BY <2>2, <1>4, <1>7 DEF M!Told, M!Upserted, TxnItem
  <2>3. ASSUME NEW u \in Txns, TxnItem(u) = j
        PROVE  /\ ValOf(raw'[u]) = IF M!Upserted(u)' = {} THEN Absent
                                   ELSE log'[j][M!Max(M!Upserted(u)')].val
               /\ \/ ValOf(tx'[u]) = Absent
                  \/ ValOf(tx'[u]) = ValOf(raw'[u]) /\ M!Told(u)' = M!Upserted(u)'
    <3>1. CASE M!Upserted(u) = {}
      BY <2>1, <2>2, <2>3, <3>1, <1>4 DEF ItemFaithful
    <3>2. CASE M!Upserted(u) # {}
      <4>1. M!Max(M!Upserted(u)) \in M!Upserted(u)
        <5>0. cursor[j] \in Nat /\ M!Upserted(u) \subseteq 0..cursor[j]
          BY <1>7, <2>2, <2>3
        <5>1. PICK m \in M!Upserted(u) : \A k \in M!Upserted(u) : k <= m
          BY <3>2, <5>0, MaxExists
        <5>2. \A k \in M!Upserted(u) : m >= k
          BY <1>7, <2>2, <2>3, <5>1
        <5> QED BY <5>2 DEF M!Max
      <4>2. log'[j][M!Max(M!Upserted(u))] = log[j][M!Max(M!Upserted(u))]
        BY <1>7, <2>2, <2>3, <4>1
      <4> QED BY <2>1, <2>2, <2>3, <3>2, <4>2, <1>4 DEF ItemFaithful
    <3> QED BY <3>1, <3>2
  <2>4. cursor'[j] \in 0..Len(log'[j])
    BY <1>4, <1>7
  <2> QED BY <2>3, <2>4 DEF M!Faithful, TxnItem
<1>9. AllFaithful'
  BY <1>8 DEF AllFaithful
<1>10. FreshCursors' /\ WindowAtCursor' /\ NeverStale'
  BY <1>4 DEF MirrorInv, FreshCursors, WindowAtCursor, NeverStale
<1> QED BY <1>6, <1>9, <1>10 DEF MirrorInv

-----------------------------------------------------------------------------
(* The commit.                                                             *)

\* The payload the code takes for an id is that of its last upsert in the
\* window, although it reads the added entries before the modified ones.
LEMMA PayloadIsMax ==
  ASSUME IInv, NEW s \in Sessions, pc[s] \in Windowed, NEW t \in ChangedIds(s)
  PROVE  \E m \in Upserts(s, t) : /\ \A k \in Upserts(s, t) : k <= m
                                  /\ Payload(s, t) = log[item[s]][m].val
<1> DEFINE L == log[item[s]]
           mods == {k \in Upserts(s, t) : L[k].op = "modified"}
           from == IF mods # {} THEN mods ELSE Upserts(s, t)
<1>1. /\ item[s] \in Items /\ L \in Seq(Change) /\ upto[s] \in Nat /\ seen[s].cursor \in Nat
      /\ upto[s] <= Len(L) /\ Len(L) \in Nat
  BY DEF IInv, TypeOK, WindowOK
<1>2. Upserts(s, t) \subseteq 0..Len(L) /\ Upserts(s, t) \subseteq 1..Len(L) /\ Upserts(s, t) # {}
  BY <1>1, SMTT(20) DEF ChangedIds, Upserts, Positions
<1>3. PICK m \in Upserts(s, t) : \A k \in Upserts(s, t) : k <= m
  BY <1>1, <1>2, MaxExists
<1>4. L[m].op \in {"added", "modified"}
  <2>1. L[m] \in Change /\ L[m].op # "removed"
    BY <1>1, <1>2, <1>3 DEF Upserts
  <2> QED BY <2>1 DEF Change
<1>5. m \in from /\ \A k \in from : k <= m
  <2>1. CASE L[m].op = "modified"
    BY <1>3, <2>1
  <2>2. CASE L[m].op = "added"
    <3>1. Upserts(s, t) = {m}
      <4>1. \A k \in Upserts(s, t) : L[k].txn = L[m].txn
        BY <1>3 DEF Upserts, Positions
      <4>2. \A k \in Upserts(s, t) : k # m => k \in 1..(m - 1)
        BY <1>1, <1>2, <1>3
      <4>3. \A k \in 1..(m - 1) : L[k].txn # L[m].txn
        BY <1>1, <1>2, <1>3, <2>2 DEF IInv, LogWellFormed
      <4> QED BY <4>1, <4>2, <4>3, <1>3
    <3>2. mods = {}
      BY <3>1, <2>2
    <3> QED BY <3>1, <3>2, <1>3
  <2> QED BY <1>4, <2>1, <2>2
<1>6. (CHOOSE k \in from : \A j \in from : j <= k) = m
  <2>1. from \subseteq Nat
    BY <1>2
  <2> HIDE DEF from
  <2>2. ASSUME NEW k \in from, \A j \in from : j <= k PROVE k = m
    BY <1>5, <2>1, <2>2
  <2> QED BY <1>5, <2>2
<1>7. Payload(s, t) = L[m].val
  BY <1>6 DEF Payload
<1> QED BY <1>3, <1>7

\* What a commit of the stored cursor leaves of the audit trail, also of a
\* transaction removed in the same window.
LEMMA TrailAfter ==
  ASSUME IInv, NEW s \in Sessions, pc[s] = "commit", ~Conflict(s),
         ~stale[item[s]], seen[s].cursor = cursor[item[s]], NEW t \in ChangedIds(s)
  PROVE  ValOf(RawCommitted(s)[t]) = Payload(s, t)
<1>1. t \in Txns /\ view[s].raw[t] = raw[t]
  BY DEF ChangedIds, IInv, ViewOK
<1>2. RawCommitted(s)[t] = RawAfter(s, t) /\ RawAfter(s, t) \in RawRow
  BY <1>1, CommitTypes DEF RawCommitted
<1>3. RawAfter(s, t).val = Payload(s, t)
  BY <1>1 DEF RawAfter, Net
<1> QED BY <1>2, <1>3, ConstantsAssumption DEF ValOf

\* A commit of the stored cursor is one step of Mirror: the item's rows move to
\* what the longer prefix amounts to.
LEMMA MirrorCommitStep ==
  ASSUME MirrorInv, RowsInv', NEW s \in Sessions, CommitWindow(s), OneAtATime,
         NEW i \in Items, i = item[s]
  PROVE  MirrorInv' /\ M!Advance(i)
<1> USE ConstantsAssumption
<1>1. /\ pc[s] = "commit" /\ pc[s] \in Windowed /\ ~Conflict(s)
      /\ raw' = RawCommitted(s) /\ tx' = TxCommitted(s)
      /\ syncStatus' = [syncStatus EXCEPT ![i] = "idle"]
      /\ stale' = [stale EXCEPT ![i] = @ \/ seen[s].cursor # cursor[i]]
      /\ \E p \in {"idle", "load"} : pc' = [pc EXCEPT ![s] = p]
      /\ log' = log
      /\ \E c \in {upto[s], Net(seen[s].cursor, upto[s], cursor[i])} : cursor' = [cursor EXCEPT ![i] = c]
  BY DEF CommitWindow, Windowed, plaidVars
<1>2. /\ TypeOK /\ IInv /\ i \in Items /\ seen[s].cursor = cursor[i] /\ ~stale[i]
      /\ cursor[i] \in Nat /\ upto[s] \in Nat /\ Len(log[i]) \in Nat
      /\ cursor[i] <= upto[s] /\ upto[s] <= Len(log[i])
  <2>1. /\ TypeOK /\ IInv /\ WindowOK(s) /\ i \in Items /\ ~stale[i]
        /\ seen[s].cursor = cursor[i] /\ log[i] \in Seq(Change)
        /\ cursor[i] \in Nat /\ upto[s] \in Nat
    BY <1>1 DEF MirrorInv, RowsInv, IInv, TypeOK, WindowAtCursor, NeverStale
  <2> QED BY <1>1, <2>1 DEF WindowOK
<1>3. cursor' = [cursor EXCEPT ![i] = upto[s]]
  BY <1>1, <1>2 DEF Net
<1>4. /\ cursor'[i] = upto[s]
      /\ \A j \in Items \ {i} : cursor'[j] = cursor[j]
  BY <1>2, <1>3 DEF TypeOK
<1>5. ASSUME NEW t \in Txns, TxnItem(t) # i
      PROVE  /\ ValOf(raw'[t]) = ValOf(raw[t]) /\ ValOf(tx'[t]) = ValOf(tx[t])
             /\ M!Told(t)' = M!Told(t) /\ M!Upserted(t)' = M!Upserted(t)
  <2>1. t \notin ChangedIds(s) /\ t \notin RemovedIds(s)
    BY <1>1, <1>2, <1>5, WindowOfItem
  <2>2. raw'[t] = raw[t] /\ SameRow(tx[t], tx'[t])
    BY <1>1, <1>2, <2>1, Untouched
  <2>3. cursor'[TxnItem(t)] = cursor[TxnItem(t)]
    BY <1>4, <1>5 DEF TxnItem
  <2> QED BY <1>1, <2>2, <2>3 DEF ValOf, SameRow, M!Told, M!Upserted, TxnItem
\* The prefix of the item grows by the window.
<1>6. ASSUME NEW t \in Txns, TxnItem(t) = i
      PROVE  /\ M!Told(t)' = M!Told(t) \cup Positions(s, t)
             /\ M!Upserted(t)' = M!Upserted(t) \cup Upserts(s, t)
             /\ M!Upserted(t) \subseteq 1..cursor[i]
             /\ Positions(s, t) \subseteq (cursor[i] + 1)..upto[s]
  <2>1. 1..upto[s] = (1..cursor[i]) \cup ((cursor[i] + 1)..upto[s])
    BY <1>2
  <2>2. M!Told(t)' = {k \in 1..upto[s] : log[i][k].txn = t}
    BY <1>1, <1>4, <1>6 DEF M!Told, TxnItem
  <2>3. M!Upserted(t)' = {k \in M!Told(t)' : log[i][k].op # "removed"}
    BY <1>1, <1>6 DEF M!Upserted, M!Told, TxnItem
  <2>4. /\ M!Told(t) = {k \in 1..cursor[i] : log[i][k].txn = t}
        /\ M!Upserted(t) = {k \in M!Told(t) : log[i][k].op # "removed"}
    BY <1>6 DEF M!Told, M!Upserted
  <2>5. Positions(s, t) = {k \in (cursor[i] + 1)..upto[s] : log[i][k].txn = t}
    BY <1>2 DEF Positions
  <2>6. Upserts(s, t) = {k \in Positions(s, t) : log[i][k].op # "removed"}
    BY DEF Upserts
  <2>7. M!Told(t)' = M!Told(t) \cup Positions(s, t)
    BY <2>1, <2>2, <2>4, <2>5
  <2> QED BY <2>3, <2>4, <2>5, <2>6, <2>7
\* An id with an upsert in the window is not removed before it.
<1>7. ASSUME NEW t \in ChangedIds(s) PROVE t \in Txns /\ TxnItem(t) = i /\ M!Told(t) = M!Upserted(t)
  <2>1. t \in Txns /\ TxnItem(t) = i
    BY <1>1, <1>2, WindowOfItem DEF ChangedIds
  <2>2. PICK m \in Upserts(s, t) : TRUE
    BY DEF ChangedIds
  <2>3. m \in (cursor[i] + 1)..upto[s] /\ log[i][m].txn = t
    BY <1>2, <2>2 DEF Upserts, Positions
  <2>4. m \in 1..Len(log[i]) /\ \A k \in 1..cursor[i] : k \in 1..(m - 1)
    BY <1>2, <2>3
  <2>5. \A k \in 1..cursor[i] : log[i][k].txn = t => log[i][k].op # "removed"
    BY <1>2, <2>3, <2>4 DEF IInv, LogWellFormed
  <2> QED BY <2>1, <2>5 DEF M!Told, M!Upserted
<1>8. ASSUME NEW t \in Txns, TxnItem(t) = i
      PROVE  ValOf(raw'[t]) = IF M!Upserted(t)' = {} THEN Absent
                              ELSE log[i][M!Max(M!Upserted(t)')].val
  <2>1. CASE t \in ChangedIds(s)
    <3>1. PICK m \in Upserts(s, t) : /\ \A k \in Upserts(s, t) : k <= m
                                    /\ Payload(s, t) = log[i][m].val
      BY <1>1, <1>2, <2>1, PayloadIsMax
    <3>2. m \in (cursor[i] + 1)..upto[s] /\ Upserts(s, t) \subseteq (cursor[i] + 1)..upto[s]
      BY <1>6, <1>8, <3>1 DEF Upserts
    <3>3. m \in M!Upserted(t)' /\ M!Upserted(t)' \subseteq Nat /\ \A k \in M!Upserted(t)' : m >= k
      BY <1>2, <1>6, <1>8, <3>1, <3>2
    <3>4. M!Max(M!Upserted(t)') = m
      BY <3>3 DEF M!Max
    <3>5. ValOf(raw'[t]) = Payload(s, t)
      BY <1>1, <1>2, <2>1, TrailAfter
    <3> QED BY <3>1, <3>3, <3>4, <3>5
  <2>2. CASE t \notin ChangedIds(s)
    <3>1. Upserts(s, t) = {} /\ raw'[t] = raw[t]
      BY <1>1, <2>2 DEF ChangedIds, RawCommitted
    <3>2. M!Upserted(t)' = M!Upserted(t)
      BY <1>6, <1>8, <3>1
    <3>3. ItemFaithful(i)
      BY <1>2, FaithfulIs DEF MirrorInv, AllFaithful
    <3> QED BY <1>8, <3>1, <3>2, <3>3 DEF ItemFaithful
  <2> QED BY <2>1, <2>2
<1>9. ASSUME NEW t \in Txns, TxnItem(t) = i
      PROVE  /\ \/ ValOf(tx'[t]) = Absent
                \/ ValOf(tx'[t]) = ValOf(raw'[t]) /\ M!Told(t)' = M!Upserted(t)'
             /\ ValOf(tx[t]) # Absent /\ ValOf(tx'[t]) = Absent => M!Told(t)' # M!Upserted(t)'
  <2>1. CASE t \in RemovedIds(s)
    <3>1. tx'[t] = Absent
      BY <1>1, <2>1 DEF TxCommitted
    <3>2. PICK k \in Positions(s, t) : k \notin Upserts(s, t)
      BY <2>1 DEF RemovedIds, Upserts
    <3>3. k \in M!Told(t)' /\ k \notin M!Upserted(t)'
      BY <1>2, <1>6, <1>9, <3>2
    <3> QED BY <3>1, <3>3 DEF ValOf
  <2>2. CASE t \notin RemovedIds(s) /\ t \in ChangedIds(s)
    <3>1. M!Told(t)' = M!Upserted(t)'
      BY <1>6, <1>7, <1>9, <2>2 DEF RemovedIds
    <3>2. view[s].raw[t] = raw[t]
      BY <1>1, <1>2, <2>2 DEF IInv, ViewOK
    <3>3. CASE Normalized(s, t)
      <4>1. RawCommitted(s)[t].status = "processed"
        BY <1>9, <2>2, <3>2, <3>3 DEF RawCommitted, RawAfter, Net
      <4>2. tx'[t] # Absent /\ tx'[t].val = Payload(s, t)
        BY <1>1, <1>2, <2>2, <4>1, Applied
      <4>3. ValOf(raw'[t]) = Payload(s, t)
        BY <1>1, <1>2, <2>2, TrailAfter
      <4>4. Payload(s, t) \in Vals
        BY <1>2, <2>2, PayloadType
      <4> QED BY <3>1, <4>2, <4>3, <4>4 DEF ValOf
    <3>4. CASE ~Normalized(s, t)
      <4>1. tx[t] = Absent
        <5>1. RowsBacked /\ LoadedAccounts(s) /\ ~unlocked[i]
          BY <1>2 DEF MirrorInv, RowsInv, SessionRows, UnlockedStale
        <5>2. Alone(s)
          BY <1>2 DEF Alone
        <5>3. ~Processed(t)
          BY <1>1, <1>9, <3>4, <5>1, <5>2 DEF LoadedAccounts, Normalized
        <5> QED BY <1>9, <5>1, <5>3 DEF RowsBacked, Processed
      <4>2. tx'[t] = Absent
        BY <1>1, <3>4, <4>1 DEF TxCommitted
      <4> QED BY <4>1, <4>2 DEF ValOf
    <3> QED BY <3>3, <3>4
  <2>3. CASE t \notin RemovedIds(s) /\ t \notin ChangedIds(s)
    <3>1. Upserts(s, t) = {} /\ Positions(s, t) = {}
      BY <2>3 DEF ChangedIds, RemovedIds
    <3>2. M!Upserted(t)' = M!Upserted(t) /\ M!Told(t)' = M!Told(t)
      BY <1>6, <1>9, <3>1
    <3>3. raw'[t] = raw[t] /\ SameRow(tx[t], tx'[t])
      BY <1>1, <1>2, <2>3, Untouched
    <3>4. ItemFaithful(i)
      BY <1>2, FaithfulIs DEF MirrorInv, AllFaithful
    <3> QED BY <1>9, <3>2, <3>3, <3>4 DEF ItemFaithful, SameRow, ValOf
  <2> QED BY <2>1, <2>2, <2>3
<1>10. M!Faithful(i)'
  <2>1. cursor'[i] \in 0..Len(log'[i])
    BY <1>1, <1>2, <1>4
  <2>2. ASSUME NEW t \in Txns, TxnItem(t) = i
        PROVE  /\ ValOf(raw'[t]) = IF M!Upserted(t)' = {} THEN Absent
                                   ELSE log'[i][M!Max(M!Upserted(t)')].val
               /\ \/ ValOf(tx'[t]) = Absent
                  \/ ValOf(tx'[t]) = ValOf(raw'[t]) /\ M!Told(t)' = M!Upserted(t)'
    BY <1>1, <1>8, <1>9, <2>2
  <2> QED BY <1>2, <2>1, <2>2 DEF M!Faithful, TxnItem
<1>11. M!Advance(i)
  <2>1. cursor'[i] >= cursor[i]
    BY <1>2, <1>4
  <2>2. \A t \in Txns : TxnItem(t) = i /\ ValOf(tx[t]) # Absent /\ ValOf(tx'[t]) = Absent
                        => M!Told(t)' # M!Upserted(t)'
    BY <1>9
  <2>3. \A t \in Txns : TxnItem(t) # i => ValOf(raw'[t]) = ValOf(raw[t]) /\ ValOf(tx'[t]) = ValOf(tx[t])
    BY <1>5
  <2> QED BY <1>1, <1>4, <1>10, <2>1, <2>2, <2>3 DEF M!Advance, ValOf
<1>12. AllFaithful'
  <2>1. ASSUME NEW j \in Items, j # i PROVE M!Faithful(j)'
    <3>1. ItemFaithful(j)
      BY FaithfulIs DEF MirrorInv, AllFaithful
    <3>2. \A t \in Txns : TxnItem(t) = j =>
            /\ ValOf(raw'[t]) = ValOf(raw[t]) /\ ValOf(tx'[t]) = ValOf(tx[t])
            /\ M!Told(t)' = M!Told(t) /\ M!Upserted(t)' = M!Upserted(t)
      BY <1>5, <2>1
    <3>3. cursor'[j] = cursor[j] /\ log'[j] = log[j]
      BY <1>1, <1>4, <2>1
    <3> QED BY <3>1, <3>2, <3>3 DEF M!Faithful, ItemFaithful, TxnItem
  <2> QED BY <1>10, <2>1 DEF AllFaithful
<1>13. FreshCursors'
  BY <1>1, <1>2, <1>4 DEF FreshCursors, MirrorInv, TypeOK
<1>14. NeverStale'
  BY <1>1, <1>2 DEF NeverStale, MirrorInv, TypeOK
<1>15. WindowAtCursor'
  <2> SUFFICES ASSUME NEW r \in Sessions, pc'[r] \in Windowed PROVE FALSE
    BY DEF WindowAtCursor
  <2>1. pc[r] = "idle" \/ r = s
    BY <1>1 DEF OneAtATime
  <2>2. pc'[r] \in {"idle", "load"}
    BY <1>1, <1>2, <2>1 DEF TypeOK
  <2> QED BY <2>2 DEF Windowed
<1> QED BY <1>11, <1>12, <1>13, <1>14, <1>15 DEF MirrorInv

-----------------------------------------------------------------------------
(* The refinement.                                                         *)

LEMMA MirrorInit ==
  ASSUME Init, RowsInv
  PROVE  MirrorInv /\ M!Init
<1> USE ConstantsAssumption
<1>1. WindowAtCursor /\ NeverStale
  BY DEF Init, SessionInit, WindowAtCursor, Windowed, NeverStale
<1>2. FreshCursors
  BY DEF Init, FreshInit, LegacyInit, FreshCursors
<1>3. AllFaithful
  <2>1. CASE FreshInit
    <3>1. \A t \in Txns : TxnItem(t) \in Items /\ M!Told(t) = {} /\ M!Upserted(t) = {}
      BY <2>1 DEF FreshInit, M!Told, M!Upserted, TxnItem
    <3> QED BY <2>1, <3>1 DEF FreshInit, AllFaithful, M!Faithful, ValOf
  <2>2. CASE LegacyInit
    <3>1. PICK t \in Txns, v \in Vals :
        /\ AcctOf[t] \in SyncedAccts \cap opened
        /\ log = [i \in Items |-> IF i = TxnItem(t)
                                    THEN <<[txn |-> t, op |-> "added", val |-> v]>>
                                    ELSE <<>>]
        /\ cursor = [i \in Items |-> IF i = TxnItem(t) THEN 1 ELSE 0]
        /\ syncStatus = [i \in Items |-> IF i = TxnItem(t) THEN "idle" ELSE "none"]
        /\ accounts = {AcctOf[t]}
        /\ raw = [u \in Txns |-> IF u = t THEN [val |-> v, status |-> "processed"] ELSE Absent]
        /\ tx = [u \in Txns |-> IF u = t THEN [val |-> v, enriched |-> FALSE] ELSE Absent]
      BY <2>2, Zenon DEF LegacyInit
    <3>2. TxnItem(t) \in Items /\ \A u \in Txns : TxnItem(u) \in Items
      BY DEF TxnItem
    <3>3. /\ cursor[TxnItem(t)] = 1 /\ log[TxnItem(t)] = <<[txn |-> t, op |-> "added", val |-> v]>>
          /\ Len(log[TxnItem(t)]) = 1
          /\ \A i \in Items : i # TxnItem(t) => cursor[i] = 0 /\ log[i] = <<>> /\ Len(log[i]) = 0
      BY <3>1, <3>2
    <3>4. M!Told(t) = {1} /\ M!Upserted(t) = {1}
      BY <3>3 DEF M!Told, M!Upserted
    <3>5. \A u \in Txns : u # t => M!Told(u) = {} /\ M!Upserted(u) = {}
      BY <3>2, <3>3 DEF M!Told, M!Upserted
    <3>6. M!Max({1}) = 1
      BY DEF M!Max
    <3>7. /\ ValOf(raw[t]) = v /\ ValOf(tx[t]) = v
          /\ \A u \in Txns : u # t => ValOf(raw[u]) = Absent /\ ValOf(tx[u]) = Absent
      <4>1. [val |-> v, status |-> "processed"] \in RawRow /\ [val |-> v, enriched |-> FALSE] \in TxRow
        BY DEF RawRow, TxRow
      <4> QED BY <3>1, <4>1 DEF ValOf
    <3>8. ASSUME NEW i \in Items PROVE ItemFaithful(i)
      <4>1. cursor[i] \in 0..Len(log[i])
        <5>1. CASE i = TxnItem(t)
          BY <5>1, <3>3
        <5>2. CASE i # TxnItem(t)
          BY <5>2, <3>3
        <5> QED BY <5>1, <5>2
      <4>2. ASSUME NEW u \in Txns, TxnItem(u) = i
            PROVE /\ ValOf(raw[u]) = IF M!Upserted(u) = {} THEN Absent ELSE log[i][M!Max(M!Upserted(u))].val
                  /\ \/ ValOf(tx[u]) = Absent
                     \/ ValOf(tx[u]) = ValOf(raw[u]) /\ M!Told(u) = M!Upserted(u)
        <5>1. CASE u = t
          BY <4>2, <5>1, <3>3, <3>4, <3>6, <3>7
        <5>2. CASE u # t
          BY <5>2, <3>5, <3>7
        <5> QED BY <5>1, <5>2
      <4> QED BY <4>1, <4>2 DEF ItemFaithful
    <3> QED BY <3>8, FaithfulIs DEF AllFaithful
  <2> QED BY <2>1, <2>2 DEF Init
<1> QED BY <1>1, <1>2, <1>3 DEF MirrorInv, M!Init, AllFaithful

LEMMA MirrorStep ==
  ASSUME MirrorInv, RowsInv', OneAtATime, [Next]_vars
  PROVE  MirrorInv' /\ [M!Next]_(M!mirrorVars)
<1>1. ASSUME NEW s \in Sessions, SyncTransactions(s) \/ Progress(s) \/ Crash(s)
      PROVE  MirrorInv' /\ [M!Next]_(M!mirrorVars)
  <2>1. CASE CommitWindow(s)
    <3>1. PICK i \in Items : i = item[s]
      BY DEF MirrorInv, RowsInv, IInv, TypeOK
    <3> QED BY <2>1, <3>1, MirrorCommitStep DEF M!Next
  <2>2. CASE ~CommitWindow(s)
    <3>1. MirrorInv' /\ UNCHANGED M!mirrorVars
      BY <1>1, <2>2, MirrorRequestStep DEF Progress
    <3> QED BY <3>1
  <2> QED BY <2>1, <2>2
<1>2. CASE PlaidChange
  BY <1>2, MirrorPlaidStep DEF M!Next
<1>3. CASE OpenAccount \/ SyncAccounts \/ SyncAccountsLoginRequired \/ Relink \/ UNCHANGED vars
  BY <1>3, MirrorSurroundingStep
<1> QED BY <1>1, <1>2, <1>3 DEF Next

\* As long as no two requests are under way at once, every step of the sync
\* is one step of Mirror or none: no page, restart, failure, crash or account
\* sync is visible between two prefixes of an item's history.
THEOREM SyncImplementsMirror == Spec /\ []OneAtATime => ImplementsMirror
<1>1. Init /\ RowsInv => MirrorInv /\ M!Init
  BY MirrorInit
<1>2. MirrorInv /\ RowsInv' /\ OneAtATime /\ [Next]_vars => MirrorInv' /\ [M!Next]_(M!mirrorVars)
  BY MirrorStep
<1> QED BY <1>1, <1>2, RowsInvariance, PTL DEF Spec, ImplementsMirror, M!Spec

=============================================================================

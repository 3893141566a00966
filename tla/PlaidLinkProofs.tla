-------------------------- MODULE PlaidLinkProofs --------------------------
(***************************************************************************)
(* Proofs about PlaidLink: its state is well typed, a connected bank stays *)
(* connected, and no request writes a row of another user's item.          *)
(*                                                                         *)
(* What a session acts on it has read in an earlier step.  The invariant   *)
(* says that this is still so when it acts: rows are never deleted and     *)
(* never change hands, so whoever owned an item when it was read owns it   *)
(* when it is written.                                                     *)
(***************************************************************************)
EXTENDS PlaidLink, TLAPS

OwnedBy(s, p) == row[p] # Absent /\ row[p].user = who[s]

\* Account sync fetches and writes items of its own user only, and no other
\* request has any.
SyncsOwn(s) ==
    /\ pc[s] # "accounts" => todo[s] = {} /\ dirty[s] = {}
    /\ \A p \in todo[s] \cup dirty[s] : OwnedBy(s, p)

\* The item to relink belongs to the user of the request.
RelinksOwn(s) == pc[s] = "relink" => OwnedBy(s, target[s])

\* What a new row retires are connections of its own user and its own bank.
RetiresSameBank(s) ==
    pc[s] = "create" =>
      \A p \in PlaidItems : seen[s][p] # Absent =>
        OwnedBy(s, p) /\ BankOf[p] = BankOf[target[s]]

Justified(s) == SyncsOwn(s) /\ RelinksOwn(s) /\ RetiresSameBank(s)

LinkInv == TypeOK /\ \A s \in Sessions : Justified(s)

\* Rows are neither deleted nor given to another user.
RowsKept ==
    \A p \in PlaidItems : row[p] # Absent =>
      row'[p] # Absent /\ row'[p].user = row[p].user

\* The status writes of a session touch the status alone.
LEMMA WritesStatus ==
    ASSUME LinkInv, NEW s \in Sessions, NEW ps \in SUBSET PlaidItems,
           \A p \in ps : row[p] # Absent, NEW st \in PlaidItemStatus
    PROVE  /\ WriteStatus(s, ps, st) \in [PlaidItems -> Row \cup {Absent}]
           /\ \A p \in PlaidItems :
                /\ row[p] # Absent =>
                     /\ WriteStatus(s, ps, st)[p] # Absent
                     /\ WriteStatus(s, ps, st)[p].user = row[p].user
                     /\ WriteStatus(s, ps, st)[p].status \in {row[p].status, st}
                /\ p \notin ps => WriteStatus(s, ps, st)[p] = row[p]
                /\ seen[s][p] = Absent /\ row[p] = Absent /\ p \notin ps
                     => WriteStatus(s, ps, st)[p] = Absent
<1>1. \A p \in PlaidItems : row[p] # Absent => row[p] \in Row
  BY DEF LinkInv, TypeOK
<1>2. \A p \in PlaidItems : row[p] # Absent => [row[p] EXCEPT !.status = st] \in Row
  BY <1>1 DEF Row
<1>3. \A p \in PlaidItems : row[p] # Absent =>
        /\ [row[p] EXCEPT !.status = st].user = row[p].user
        /\ [row[p] EXCEPT !.status = st].status = st
  BY <1>1 DEF Row
<1>4. Absent \notin Row
  BY LinkAssumption
<1>5. \A p \in PlaidItems : WriteStatus(s, ps, st)[p] =
        IF p \in ps /\ seen[s][p] # st THEN [row[p] EXCEPT !.status = st] ELSE row[p]
  BY DEF WriteStatus
<1>6. WriteStatus(s, ps, st) \in [PlaidItems -> Row \cup {Absent}]
  BY <1>2 DEF WriteStatus, LinkInv, TypeOK
<1>7. QED
  BY <1>2, <1>3, <1>4, <1>5, <1>6, ZenonT(40)

LEMMA InitInv == Init => LinkInv
<1> SUFFICES ASSUME Init PROVE LinkInv
  OBVIOUS
<1>1. NoUser \in Users /\ NoTarget \in PlaidItems
  BY LinkAssumption DEF NoUser, NoTarget
<1>2. TypeOK
  BY <1>1 DEF Init, TypeOK, NothingSeen
<1>3. ASSUME NEW s \in Sessions PROVE Justified(s)
  BY DEF Init, Justified, SyncsOwn, RelinksOwn, RetiresSameBank
<1>4. QED
  BY <1>2, <1>3 DEF LinkInv

-----------------------------------------------------------------------------
(* What a step of session s may do.                                        *)

OthersKeep(s) ==
    \A r \in Sessions \ {s} :
      /\ pc'[r] = pc[r] /\ who'[r] = who[r] /\ target'[r] = target[r]
      /\ seen'[r] = seen[r] /\ todo'[r] = todo[r] /\ dirty'[r] = dirty[r]

\* A request leaves the rows of other users alone.
WritesOwn(s) ==
    pc[s] # "idle" =>
      \A p \in PlaidItems :
        row[p] # Absent /\ row[p].user # who[s] => row'[p] = row[p]

\* A live connection is retired only with an active one of its user and its
\* bank in its place.
Replaces(s) ==
    \A p \in PlaidItems :
      /\ row[p] # Absent /\ row[p].status # "disconnected"
      /\ row'[p].status = "disconnected"
      => \E q \in PlaidItems :
           /\ BankOf[q] = BankOf[p]
           /\ row'[q] = [user |-> row[p].user, status |-> "active"]

Effect(s) == RowsKept /\ OthersKeep(s) /\ WritesOwn(s) /\ Replaces(s)

\* What was justified when it was read still is after another session's step.
LEMMA StaysJustified ==
    ASSUME LinkInv, NEW s \in Sessions, RowsKept, OthersKeep(s),
           TypeOK', Justified(s)'
    PROVE  LinkInv'
<1> SUFFICES ASSUME NEW r \in Sessions, r # s PROVE Justified(r)'
  BY DEF LinkInv
<1>1. /\ pc'[r] = pc[r] /\ who'[r] = who[r] /\ target'[r] = target[r]
      /\ seen'[r] = seen[r] /\ todo'[r] = todo[r] /\ dirty'[r] = dirty[r]
  BY DEF OthersKeep
<1>2. Justified(r)
  BY DEF LinkInv
<1>3. target[r] \in PlaidItems /\ todo[r] \cup dirty[r] \subseteq PlaidItems
  BY DEF LinkInv, TypeOK
<1>4. \A p \in PlaidItems : OwnedBy(r, p) => OwnedBy(r, p)'
  BY <1>1 DEF RowsKept, OwnedBy
<1>5. SyncsOwn(r)'
  BY <1>1, <1>2, <1>3, <1>4 DEF Justified, SyncsOwn
<1>6. RelinksOwn(r)'
  BY <1>1, <1>2, <1>3, <1>4 DEF Justified, RelinksOwn
<1>7. RetiresSameBank(r)'
  BY <1>1, <1>2, <1>4 DEF Justified, RetiresSameBank
<1>8. QED
  BY <1>5, <1>6, <1>7 DEF Justified

\* The end of a request leaves nothing to justify.
LEMMA EndsJustified ==
    ASSUME LinkInv, NEW s \in Sessions, EndRequest(s)
    PROVE  /\ OthersKeep(s)
           /\ Justified(s)'
           /\ pc' \in [Sessions -> {"idle", "validate", "lookup", "relink", "check",
                                    "release", "create", "accounts"}]
           /\ who' \in [Sessions -> Users]
           /\ target' \in [Sessions -> PlaidItems]
           /\ seen' \in [Sessions -> [PlaidItems -> PlaidItemStatus \cup {Absent}]]
           /\ todo' \in [Sessions -> SUBSET PlaidItems]
           /\ dirty' \in [Sessions -> SUBSET PlaidItems]
<1>1. NoUser \in Users /\ NoTarget \in PlaidItems
  BY LinkAssumption DEF NoUser, NoTarget
<1>2. TypeOK
  BY DEF LinkInv
<1>3. OthersKeep(s)
  BY <1>2 DEF EndRequest, OthersKeep, TypeOK
<1>4. pc'[s] = "idle" /\ todo'[s] = {} /\ dirty'[s] = {}
  BY <1>2 DEF EndRequest, TypeOK
<1>5. Justified(s)'
  BY <1>4 DEF Justified, SyncsOwn, RelinksOwn, RetiresSameBank
<1>6. QED
  BY <1>1, <1>2, <1>3, <1>5 DEF EndRequest, TypeOK, NothingSeen

\* A step that leaves the table alone.
LEMMA TableKept ==
    ASSUME row' = row, NEW s \in Sessions
    PROVE  RowsKept /\ WritesOwn(s) /\ Replaces(s)
BY DEF RowsKept, WritesOwn, Replaces

\* A step that ends a request without a write.
LEMMA EndsOnly ==
    ASSUME LinkInv, NEW s \in Sessions, EndRequest(s), row' = row,
           minted' \in SUBSET PlaidItems
    PROVE  LinkInv' /\ Effect(s)
<1>1. TypeOK'
  BY EndsJustified DEF LinkInv, TypeOK
<1>2. QED
  BY <1>1, EndsJustified, TableKept, StaysJustified DEF Effect

\* A step that ends a request with status writes, none of them a retirement.
LEMMA EndsWriting ==
    ASSUME LinkInv, NEW s \in Sessions, EndRequest(s), minted' = minted,
           row' \in [PlaidItems -> Row \cup {Absent}],
           \A p \in PlaidItems :
             \/ row'[p] = row[p]
             \/ /\ OwnedBy(s, p)
                /\ row'[p] # Absent /\ row'[p].user = row[p].user
                /\ row'[p].status \in {row[p].status, "active", "login_required"}
    PROVE  LinkInv' /\ Effect(s)
<1>1. TypeOK'
  BY EndsJustified DEF LinkInv, TypeOK
<1>2. RowsKept /\ WritesOwn(s)
  BY DEF RowsKept, WritesOwn, OwnedBy
<1>3. Replaces(s)
  BY DEF Replaces
<1>4. QED
  BY <1>1, <1>2, <1>3, EndsJustified, StaysJustified DEF Effect

-----------------------------------------------------------------------------
(* The steps.                                                              *)

\* A step that reads: the table stays, and what was read is justified.
LEMMA Reads ==
    ASSUME LinkInv, NEW s \in Sessions, row' = row, OthersKeep(s), TypeOK', Justified(s)'
    PROVE  LinkInv' /\ Effect(s)
BY TableKept, StaysJustified DEF Effect

LEMMA ExchangeStep ==
    ASSUME LinkInv, NEW s \in Sessions, ExchangePublicToken(s)
    PROVE  LinkInv' /\ Effect(s)
<1>1. TypeOK /\ Justified(s)
  BY DEF LinkInv
<1>2. TypeOK' /\ OthersKeep(s) /\ row' = row
  BY <1>1 DEF TypeOK, ExchangePublicToken, OthersKeep
<1>3. pc'[s] = "validate" /\ todo'[s] = {} /\ dirty'[s] = {}
  BY <1>1 DEF TypeOK, ExchangePublicToken, Justified, SyncsOwn
<1>4. Justified(s)'
  BY <1>3 DEF Justified, SyncsOwn, RelinksOwn, RetiresSameBank
<1>5. QED
  BY <1>2, <1>4, Reads

LEMMA ValidateStep ==
    ASSUME LinkInv, NEW s \in Sessions, ValidateToken(s)
    PROVE  LinkInv' /\ Effect(s)
<1>1. TypeOK /\ Justified(s) /\ row' = row /\ minted' = minted
  BY DEF LinkInv, ValidateToken
<1>2. CASE EndRequest(s)
  BY <1>1, <1>2, EndsOnly DEF TypeOK
<1>3. CASE /\ pc' = [pc EXCEPT ![s] = "lookup"]
           /\ UNCHANGED <<who, target, seen, todo, dirty>>
  <2>1. TypeOK' /\ OthersKeep(s)
    BY <1>1, <1>3 DEF TypeOK, OthersKeep
  <2>2. pc'[s] = "lookup" /\ todo'[s] = {} /\ dirty'[s] = {}
    BY <1>1, <1>3 DEF TypeOK, ValidateToken, Justified, SyncsOwn
  <2>3. Justified(s)'
    BY <2>2 DEF Justified, SyncsOwn, RelinksOwn, RetiresSameBank
  <2>4. QED
    BY <1>1, <2>1, <2>3, Reads
<1>4. QED
  BY <1>2, <1>3 DEF ValidateToken

LEMMA LookupStep ==
    ASSUME LinkInv, NEW s \in Sessions, LookupItem(s)
    PROVE  LinkInv' /\ Effect(s)
<1>1. TypeOK /\ Justified(s) /\ row' = row /\ minted' = minted /\ pc[s] = "lookup"
  BY DEF LinkInv, LookupItem
<1>2. CASE EndRequest(s)
  BY <1>1, <1>2, EndsOnly DEF TypeOK
<1>3. CASE /\ row[target[s]] # Absent
           /\ row[target[s]].user = who[s]
           /\ pc' = [pc EXCEPT ![s] = "relink"]
           /\ seen' = [seen EXCEPT ![s] = StatusesOf({target[s]})]
           /\ UNCHANGED <<who, target, todo, dirty>>
  <2>1. StatusesOf({target[s]}) \in [PlaidItems -> PlaidItemStatus \cup {Absent}]
    BY <1>1, <1>3 DEF TypeOK, StatusesOf, Row
  <2>2. TypeOK' /\ OthersKeep(s)
    BY <1>1, <1>3, <2>1 DEF TypeOK, OthersKeep
  <2>3. pc'[s] = "relink" /\ todo'[s] = {} /\ dirty'[s] = {}
    BY <1>1, <1>3 DEF TypeOK, Justified, SyncsOwn
  <2>4. Justified(s)'
    BY <1>1, <1>3, <2>3 DEF Justified, SyncsOwn, RelinksOwn, RetiresSameBank, OwnedBy
  <2>5. QED
    BY <1>1, <2>2, <2>4, Reads
<1>4. CASE /\ pc' = [pc EXCEPT ![s] = "check"]
           /\ UNCHANGED <<who, target, seen, todo, dirty>>
  <2>1. TypeOK' /\ OthersKeep(s)
    BY <1>1, <1>4 DEF TypeOK, OthersKeep
  <2>2. pc'[s] = "check" /\ todo'[s] = {} /\ dirty'[s] = {}
    BY <1>1, <1>4 DEF TypeOK, Justified, SyncsOwn
  <2>3. Justified(s)'
    BY <2>2 DEF Justified, SyncsOwn, RelinksOwn, RetiresSameBank
  <2>4. QED
    BY <1>1, <2>1, <2>3, Reads
<1>5. QED
  BY <1>2, <1>3, <1>4 DEF LookupItem

LEMMA RelinkStep ==
    ASSUME LinkInv, NEW s \in Sessions, RelinkItem(s)
    PROVE  LinkInv' /\ Effect(s)
<1>1. /\ TypeOK /\ OwnedBy(s, target[s]) /\ EndRequest(s) /\ minted' = minted
      /\ row' = WriteStatus(s, {target[s]}, "active")
  BY DEF LinkInv, RelinkItem, Justified, RelinksOwn
<1>2. {target[s]} \in SUBSET PlaidItems /\ "active" \in PlaidItemStatus
  BY <1>1 DEF TypeOK, PlaidItemStatus
<1>3. \A p \in {target[s]} : row[p] # Absent
  BY <1>1 DEF OwnedBy
<1>4. /\ row' \in [PlaidItems -> Row \cup {Absent}]
      /\ \A p \in PlaidItems :
           /\ row[p] # Absent =>
                /\ row'[p] # Absent /\ row'[p].user = row[p].user
                /\ row'[p].status \in {row[p].status, "active"}
           /\ p \notin {target[s]} => row'[p] = row[p]
  BY <1>1, <1>2, <1>3, WritesStatus
<1>5. QED
  BY <1>1, <1>3, <1>4, EndsWriting

LEMMA CheckStep ==
    ASSUME LinkInv, NEW s \in Sessions, CheckDuplicate(s)
    PROVE  LinkInv' /\ Effect(s)
<1> DEFINE b == BankOf[target[s]]
           same == IF b = NoBank THEN {} ELSE SameBank(who[s], b)
<1>1. TypeOK /\ Justified(s) /\ row' = row /\ minted' = minted /\ pc[s] = "check"
  BY DEF LinkInv, CheckDuplicate
<1>2. \A p \in same : p \in PlaidItems /\ OwnedBy(s, p) /\ BankOf[p] = b
  BY DEF SameBank, Owned, OwnedBy
<1>3. StatusesOf(same) \in [PlaidItems -> PlaidItemStatus \cup {Absent}]
  BY <1>1, <1>2 DEF TypeOK, StatusesOf, Row, OwnedBy
<1>4. TypeOK' /\ OthersKeep(s)
  <2>1. /\ pc' = [pc EXCEPT ![s] = "release"] \/ pc' = [pc EXCEPT ![s] = "create"]
        /\ seen' = seen \/ seen' = [seen EXCEPT ![s] = StatusesOf(same)]
        /\ UNCHANGED <<minted, row, who, target, todo, dirty>>
    BY DEF CheckDuplicate
  <2> HIDE DEF same
  <2>2. QED
    BY <1>1, <1>3, <2>1, ZenonT(40) DEF TypeOK, OthersKeep
<1>5. pc'[s] \in {"release", "create"} /\ todo'[s] = {} /\ dirty'[s] = {}
  BY <1>1 DEF TypeOK, CheckDuplicate, Justified, SyncsOwn
<1>6. RetiresSameBank(s)'
  <2> SUFFICES ASSUME pc'[s] = "create", NEW p \in PlaidItems, seen'[s][p] # Absent
               PROVE  OwnedBy(s, p)' /\ BankOf[p] = BankOf[target'[s]]
    BY DEF RetiresSameBank
  <2>1. seen'[s] = StatusesOf(same)
    BY <1>1 DEF TypeOK, CheckDuplicate
  <2>2. p \in same
    BY <2>1 DEF StatusesOf
  <2>3. who' = who /\ target' = target
    BY DEF CheckDuplicate
  <2>4. QED
    BY <1>1, <1>2, <2>2, <2>3 DEF OwnedBy
<1>7. Justified(s)'
  BY <1>5, <1>6 DEF Justified, SyncsOwn, RelinksOwn
<1>8. QED
  BY <1>1, <1>4, <1>7, Reads

LEMMA ReleaseStep ==
    ASSUME LinkInv, NEW s \in Sessions, ReleaseDuplicate(s)
    PROVE  LinkInv' /\ Effect(s)
<1>1. minted' \in SUBSET PlaidItems
  BY DEF LinkInv, TypeOK, ReleaseDuplicate
<1>2. QED
  BY <1>1, EndsOnly DEF ReleaseDuplicate

LEMMA CreateStep ==
    ASSUME LinkInv, NEW s \in Sessions, CreateItem(s)
    PROVE  LinkInv' /\ Effect(s)
<1> DEFINE t == target[s]
           stale == {p \in PlaidItems : seen[s][p] # Absent}
           new == [user |-> who[s], status |-> "active"]
           written == WriteStatus(s, stale, "disconnected")
<1>1. TypeOK /\ RetiresSameBank(s) /\ EndRequest(s) /\ minted' = minted /\ pc[s] = "create"
  BY DEF LinkInv, CreateItem, Justified
<1>2. t \in PlaidItems /\ who[s] \in Users
  BY <1>1 DEF TypeOK
<1>3. CASE row' = row
  BY <1>1, <1>3, EndsOnly DEF TypeOK
<1>4. CASE row[t] = Absent /\ row' = [written EXCEPT ![t] = new]
  <2>1. new \in Row /\ new # Absent
    BY <1>2, LinkAssumption DEF Row, PlaidItemStatus
  <2>2. stale \in SUBSET PlaidItems /\ "disconnected" \in PlaidItemStatus
    BY DEF PlaidItemStatus
  <2>3. \A p \in stale : OwnedBy(s, p) /\ row[p] # Absent /\ BankOf[p] = BankOf[t]
    BY <1>1 DEF RetiresSameBank, OwnedBy
  <2>4. /\ written \in [PlaidItems -> Row \cup {Absent}]
        /\ \A p \in PlaidItems :
             /\ row[p] # Absent =>
                  /\ written[p] # Absent /\ written[p].user = row[p].user
             /\ p \notin stale => written[p] = row[p]
    <3> HIDE DEF stale
    <3>1. QED
      BY <2>2, <2>3, WritesStatus
  <2>5. /\ row' \in [PlaidItems -> Row \cup {Absent}]
        /\ row'[t] = new
        /\ \A p \in PlaidItems \ {t} : row'[p] = written[p]
    BY <1>2, <1>4, <2>1, <2>4
  <2> HIDE DEF stale, written
  <2>6. TypeOK'
    BY <1>1, <2>5, EndsJustified DEF TypeOK
  <2>7. RowsKept
    BY <1>4, <2>4, <2>5 DEF RowsKept
  <2>8. WritesOwn(s)
    BY <1>4, <2>3, <2>4, <2>5 DEF WritesOwn, OwnedBy
  <2>9. Replaces(s)
    <3> SUFFICES ASSUME NEW p \in PlaidItems,
                        row[p] # Absent, row[p].status # "disconnected",
                        row'[p].status = "disconnected"
                 PROVE  \E q \in PlaidItems :
                          /\ BankOf[q] = BankOf[p]
                          /\ row'[q] = [user |-> row[p].user, status |-> "active"]
      BY DEF Replaces
    <3>1. p \in stale
      BY <1>4, <2>4, <2>5
    <3>2. row[p].user = who[s] /\ BankOf[t] = BankOf[p]
      BY <2>3, <3>1 DEF OwnedBy
    <3>3. QED
      BY <1>2, <2>5, <3>2
  <2>10. QED
    BY <1>1, <2>6, <2>7, <2>8, <2>9, EndsJustified, StaysJustified DEF Effect
<1>5. QED
  BY <1>3, <1>4 DEF CreateItem

LEMMA SyncAccountsStep ==
    ASSUME LinkInv, NEW s \in Sessions, SyncAccounts(s)
    PROVE  LinkInv' /\ Effect(s)
<1>1. TypeOK /\ Justified(s) /\ pc[s] = "idle" /\ row' = row /\ minted' = minted
  BY DEF LinkInv, SyncAccounts
<1>2. PICK u \in Users :
      \E ps \in {{p} : p \in Owned(u)}
                \cup {{p \in Owned(u) : row[p].status # "disconnected"}} :
        /\ who' = [who EXCEPT ![s] = u]
        /\ todo' = [todo EXCEPT ![s] = ps]
        /\ seen' = [seen EXCEPT ![s] = StatusesOf(ps)]
  BY DEF SyncAccounts
<1>3. PICK ps \in SUBSET Owned(u) :
        /\ who' = [who EXCEPT ![s] = u]
        /\ todo' = [todo EXCEPT ![s] = ps]
        /\ seen' = [seen EXCEPT ![s] = StatusesOf(ps)]
  BY <1>2
<1>4. \A p \in ps : p \in PlaidItems /\ row[p] # Absent /\ row[p].user = u
  BY <1>3 DEF Owned
<1>5. StatusesOf(ps) \in [PlaidItems -> PlaidItemStatus \cup {Absent}]
  BY <1>1, <1>4 DEF TypeOK, StatusesOf, Row
<1>6. TypeOK' /\ OthersKeep(s)
  BY <1>1, <1>3, <1>4, <1>5 DEF TypeOK, SyncAccounts, OthersKeep
<1>7. pc'[s] = "accounts" /\ todo'[s] = ps /\ dirty'[s] = {} /\ who'[s] = u
  BY <1>1, <1>3 DEF TypeOK, SyncAccounts, Justified, SyncsOwn
<1>8. Justified(s)'
  BY <1>1, <1>4, <1>7 DEF Justified, SyncsOwn, RelinksOwn, RetiresSameBank, OwnedBy
<1>9. QED
  BY <1>1, <1>6, <1>8, Reads

LEMMA SyncItemStep ==
    ASSUME LinkInv, NEW s \in Sessions, SyncItem(s)
    PROVE  LinkInv' /\ Effect(s)
<1>1. TypeOK /\ Justified(s) /\ row' = row /\ pc' = pc /\ who' = who /\ pc[s] = "accounts"
  BY DEF LinkInv, SyncItem
<1>2. PICK p \in todo[s] :
        /\ todo' = [todo EXCEPT ![s] = @ \ {p}]
        /\ dirty' = [dirty EXCEPT ![s] = IF seen[s][p] # "active" THEN @ \cup {p} ELSE @]
  BY DEF SyncItem
<1>3. p \in PlaidItems /\ todo[s] \subseteq PlaidItems /\ dirty[s] \subseteq PlaidItems
  BY <1>1, <1>2 DEF TypeOK
<1>4. TypeOK' /\ OthersKeep(s)
  BY <1>1, <1>2, <1>3 DEF TypeOK, SyncItem, OthersKeep
<1>5. todo'[s] \cup dirty'[s] \subseteq todo[s] \cup dirty[s]
  BY <1>1, <1>2 DEF TypeOK
<1>6. Justified(s)'
  BY <1>1, <1>5 DEF Justified, SyncsOwn, RelinksOwn, RetiresSameBank, OwnedBy
<1>7. QED
  BY <1>1, <1>4, <1>6, Reads

LEMMA LoginRequiredStep ==
    ASSUME LinkInv, NEW s \in Sessions, LoginRequired(s)
    PROVE  LinkInv' /\ Effect(s)
<1>1. TypeOK /\ SyncsOwn(s) /\ EndRequest(s) /\ minted' = minted
  BY DEF LinkInv, LoginRequired, Justified
<1>2. PICK p \in todo[s] :
        row' = [q \in PlaidItems |->
                  IF q = p THEN WriteStatus(s, {p}, "login_required")[q]
                  ELSE WriteStatus(s, dirty[s], "active")[q]]
  BY DEF LoginRequired
<1>3. /\ {p} \in SUBSET PlaidItems /\ dirty[s] \in SUBSET PlaidItems
      /\ "active" \in PlaidItemStatus /\ "login_required" \in PlaidItemStatus
  BY <1>1, <1>2 DEF TypeOK, PlaidItemStatus
<1>4. \A q \in {p} \cup dirty[s] : OwnedBy(s, q) /\ row[q] # Absent
  BY <1>1, <1>2 DEF SyncsOwn, OwnedBy
<1>5. /\ WriteStatus(s, {p}, "login_required") \in [PlaidItems -> Row \cup {Absent}]
      /\ \A q \in PlaidItems : row[q] # Absent =>
           /\ WriteStatus(s, {p}, "login_required")[q] # Absent
           /\ WriteStatus(s, {p}, "login_required")[q].user = row[q].user
           /\ WriteStatus(s, {p}, "login_required")[q].status \in {row[q].status, "login_required"}
  BY <1>3, <1>4, WritesStatus
<1>6. /\ WriteStatus(s, dirty[s], "active") \in [PlaidItems -> Row \cup {Absent}]
      /\ \A q \in PlaidItems :
           /\ row[q] # Absent =>
                /\ WriteStatus(s, dirty[s], "active")[q] # Absent
                /\ WriteStatus(s, dirty[s], "active")[q].user = row[q].user
                /\ WriteStatus(s, dirty[s], "active")[q].status \in {row[q].status, "active"}
           /\ q \notin dirty[s] => WriteStatus(s, dirty[s], "active")[q] = row[q]
  BY <1>3, <1>4, WritesStatus
<1>7. row' \in [PlaidItems -> Row \cup {Absent}]
  BY <1>2, <1>5, <1>6
<1>8. ASSUME NEW q \in PlaidItems
      PROVE  \/ row'[q] = row[q]
             \/ /\ OwnedBy(s, q)
                /\ row'[q] # Absent /\ row'[q].user = row[q].user
                /\ row'[q].status \in {row[q].status, "active", "login_required"}
  <2>1. CASE q = p
    BY <1>2, <1>4, <1>5, <2>1
  <2>2. CASE q # p /\ q \in dirty[s]
    BY <1>2, <1>4, <1>6, <2>2
  <2>3. CASE q # p /\ q \notin dirty[s]
    BY <1>2, <1>6, <2>3
  <2>4. QED
    BY <2>1, <2>2, <2>3
<1>9. QED
  BY <1>1, <1>7, <1>8, EndsWriting

LEMMA CommitAccountsStep ==
    ASSUME LinkInv, NEW s \in Sessions, CommitAccounts(s)
    PROVE  LinkInv' /\ Effect(s)
<1>1. /\ TypeOK /\ SyncsOwn(s) /\ EndRequest(s) /\ minted' = minted
      /\ row' = WriteStatus(s, dirty[s], "active")
  BY DEF LinkInv, CommitAccounts, Justified
<1>2. dirty[s] \in SUBSET PlaidItems /\ "active" \in PlaidItemStatus
  BY <1>1 DEF TypeOK, PlaidItemStatus
<1>3. \A p \in dirty[s] : OwnedBy(s, p) /\ row[p] # Absent
  BY <1>1 DEF SyncsOwn, OwnedBy
<1>4. /\ row' \in [PlaidItems -> Row \cup {Absent}]
      /\ \A p \in PlaidItems :
           /\ row[p] # Absent =>
                /\ row'[p] # Absent /\ row'[p].user = row[p].user
                /\ row'[p].status \in {row[p].status, "active"}
           /\ p \notin dirty[s] => row'[p] = row[p]
  BY <1>1, <1>2, <1>3, WritesStatus
<1>5. QED
  BY <1>1, <1>3, <1>4, EndsWriting

LEMMA AbortStep ==
    ASSUME LinkInv, NEW s \in Sessions, Abort(s)
    PROVE  LinkInv' /\ Effect(s)
BY EndsOnly DEF Abort, LinkInv, TypeOK

LEMMA StepKeeps ==
    ASSUME LinkInv, NEW s \in Sessions, Step(s)
    PROVE  LinkInv' /\ Effect(s)
BY ExchangeStep, ValidateStep, LookupStep, RelinkStep, CheckStep, ReleaseStep, CreateStep,
   SyncAccountsStep, SyncItemStep, LoginRequiredStep, CommitAccountsStep, AbortStep
   DEF Step

LEMMA StutterKeeps == LinkInv /\ UNCHANGED vars => LinkInv'
BY DEF LinkInv, TypeOK, Justified, SyncsOwn, RelinksOwn, RetiresSameBank, OwnedBy, vars

LEMMA NextKeeps == LinkInv /\ [Next]_vars => LinkInv'
BY StepKeeps, StutterKeeps DEF Next

-----------------------------------------------------------------------------
(* The theorems.                                                           *)

\* The rows of plaid_items and what requests hold of them stay well typed,
\* for any number of users, banks, items and overlapping requests.
THEOREM LinkTypeCorrect == Spec => []TypeOK
<1>1. LinkInv => TypeOK
  BY DEF LinkInv
<1>2. QED
  BY <1>1, InitInv, NextKeeps, PTL DEF Spec

\* A user who has a live connection to a bank keeps one, whatever exchanges,
\* account syncs, login failures and crashes overlap: exchange_public_token
\* retires a connection only in the commit that adds its successor.
THEOREM BanksStayConnected == Spec => BankStaysConnected
<1>1. ASSUME LinkInv, [Next]_vars, NEW u \in Users, NEW b \in Banks, Connected(u, b)
      PROVE  Connected(u, b)'
  <2>1. CASE UNCHANGED vars
    BY <1>1, <2>1 DEF Connected, SameBank, Owned, vars
  <2>2. CASE Next
    <3>1. PICK s \in Sessions : Effect(s)
      BY <1>1, <2>2, StepKeeps DEF Next
    <3>2. PICK p \in PlaidItems :
            /\ row[p] # Absent /\ row[p].user = u /\ BankOf[p] = b
            /\ row[p].status # "disconnected"
      BY <1>1 DEF Connected, SameBank, Owned
    <3>3. row'[p] # Absent /\ row'[p].user = u
      BY <3>1, <3>2 DEF Effect, RowsKept
    <3>4. CASE row'[p].status # "disconnected"
      BY <3>2, <3>3, <3>4 DEF Connected, SameBank, Owned
    <3>5. CASE row'[p].status = "disconnected"
      <4>1. PICK q \in PlaidItems :
              /\ BankOf[q] = b
              /\ row'[q] = [user |-> u, status |-> "active"]
        BY <3>1, <3>2, <3>5 DEF Effect, Replaces
      <4>2. [user |-> u, status |-> "active"] \in Row
        BY DEF Row, PlaidItemStatus
      <4>3. row'[q] # Absent
        BY <4>1, <4>2, LinkAssumption
      <4>4. QED
        BY <4>1, <4>3 DEF Connected, SameBank, Owned
    <3>6. QED
      BY <3>4, <3>5
  <2>3. QED
    BY <1>1, <2>1, <2>2
<1>2. LinkInv /\ [Next]_vars =>
        [\A u \in Users, b \in Banks : Connected(u, b) => Connected(u, b)']_vars
  BY <1>1
<1>3. QED
  BY <1>2, InitInv, NextKeeps, PTL DEF Spec, BankStaysConnected

\* No request changes a row of another user's item: exchange_public_token
\* compares the owner of an existing item, and what account sync loaded
\* still belongs to its user when it is written.
THEOREM ForeignRowsSafe == Spec => ForeignRowsUntouched
<1>1. ASSUME LinkInv, [Next]_vars, NEW s \in Sessions, NEW p \in PlaidItems,
             pc[s] # "idle", pc'[s] # pc[s], row[p] # Absent, row[p].user # who[s]
      PROVE  row'[p] = row[p]
  <2>1. PICK r \in Sessions : Effect(r)
    BY <1>1, StepKeeps DEF Next, vars
  <2>2. r = s
    BY <1>1, <2>1 DEF Effect, OthersKeep
  <2>3. QED
    BY <1>1, <2>1, <2>2 DEF Effect, WritesOwn
<1>2. LinkInv /\ [Next]_vars =>
        [\A s \in Sessions, p \in PlaidItems :
           /\ pc[s] # "idle" /\ pc'[s] # pc[s]
           /\ row[p] # Absent /\ row[p].user # who[s]
           => row'[p] = row[p]]_vars
  BY <1>1
<1>3. QED
  BY <1>2, InitInv, NextKeeps, PTL DEF Spec, ForeignRowsUntouched

-----------------------------------------------------------------------------
(* Requests of one user one after the other, those of different users as   *)
(* they come.                                                              *)

\* What overlaps is about different users.
OnePerUser ==
    \A r, s \in Sessions : pc[r] # "idle" /\ pc[s] # "idle" /\ who[r] = who[s] => r = s

\* What the duplicate check has read is what the table holds.
CheckHolds(s) ==
    pc[s] = "create" /\ BankOf[target[s]] # NoBank =>
      \A q \in SameBank(who[s], BankOf[target[s]]) :
        row[q].status # "active" /\ seen[s][q] = row[q].status

ChecksHold == \A s \in Sessions : CheckHolds(s)

\* Only the creation of an item adds a row, and it is one of the request's user.
LEMMA AddsOwn ==
    ASSUME LinkInv, NEW s \in Sessions, Step(s), NEW p \in PlaidItems, row[p] = Absent,
           row'[p] # Absent
    PROVE  CreateItem(s) /\ p = target[s] /\ row'[p].user = who[s]
<1>1. TypeOK /\ Justified(s)
  BY DEF LinkInv
<1>2. CASE CreateItem(s)
  <2>1. CASE row' = row
    BY <2>1
  <2>2. CASE row' # row
    <3> DEFINE stale == {q \in PlaidItems : seen[s][q] # Absent}
               written == WriteStatus(s, stale, "disconnected")
               new == [user |-> who[s], status |-> "active"]
    <3>1. row' = [written EXCEPT ![target[s]] = new] /\ pc[s] = "create"
      BY <1>2, <2>2 DEF CreateItem
    <3>2. p \notin stale
      BY <1>1, <3>1 DEF Justified, RetiresSameBank, OwnedBy
    <3>3. written[p] = Absent
      BY <3>2 DEF WriteStatus
    <3>4. DOMAIN written = PlaidItems
      BY DEF WriteStatus
    <3> HIDE DEF written, stale
    <3>5. p = target[s]
      BY <3>1, <3>3, <3>4
    <3>6. row'[p] = new
      BY <3>1, <3>4, <3>5
    <3>7. QED
      BY <1>2, <3>5, <3>6
  <2>3. QED
    BY <2>1, <2>2
<1>3. CASE ~CreateItem(s)
  <2>1. CASE row' = row
    BY <2>1
  <2>2. CASE RelinkItem(s)
    <3>1. p # target[s]
      BY <1>1, <2>2 DEF RelinkItem, Justified, RelinksOwn, OwnedBy
    <3>2. QED
      BY <2>2, <3>1 DEF RelinkItem, WriteStatus
  <2>3. CASE LoginRequired(s)
    <3>1. p \notin todo[s] \cup dirty[s]
      BY <1>1 DEF Justified, SyncsOwn, OwnedBy
    <3>2. QED
      BY <2>3, <3>1 DEF LoginRequired, WriteStatus
  <2>4. CASE CommitAccounts(s)
    <3>1. p \notin dirty[s]
      BY <1>1 DEF Justified, SyncsOwn, OwnedBy
    <3>2. QED
      BY <2>4, <3>1 DEF CommitAccounts, WriteStatus
  <2>5. QED
    BY <1>3, <2>1, <2>2, <2>3, <2>4
       DEF Step, ExchangePublicToken, ValidateToken, LookupItem, CheckDuplicate, ReleaseDuplicate,
           SyncAccounts, SyncItem, Abort
<1>4. QED
  BY <1>2, <1>3

LEMMA ChecksStep ==
    ASSUME LinkInv, ChecksHold, OnePerUser, NEW s \in Sessions, Step(s)
    PROVE  ChecksHold'
<1>1. TypeOK /\ Effect(s)
  BY StepKeeps DEF LinkInv
<1>2. ASSUME NEW r \in Sessions \ {s} PROVE CheckHolds(r)'
  <2> SUFFICES ASSUME (pc[r] = "create" /\ BankOf[target[r]] # NoBank)',
                      NEW q \in SameBank(who[r], BankOf[target[r]])'
               PROVE  row'[q].status # "active" /\ seen'[r][q] = row'[q].status
    BY DEF CheckHolds
  <2>1. /\ pc[r] = "create" /\ who'[r] = who[r] /\ target'[r] = target[r] /\ seen'[r] = seen[r]
        /\ BankOf[target[r]] # NoBank
    BY <1>1 DEF Effect, OthersKeep
  <2>2. q \in PlaidItems /\ row'[q] # Absent /\ row'[q].user = who[r] /\ BankOf[q] = BankOf[target[r]]
    BY <2>1 DEF SameBank, Owned
  <2>3. pc[s] # "idle" => who[r] # who[s]
    BY <2>1 DEF OnePerUser
  <2>4. row[q] # Absent
    BY <2>2, <2>3, AddsOwn DEF CreateItem
  <2>5. row[q].user = who[r]
    BY <1>1, <2>2, <2>4 DEF Effect, RowsKept
  <2>6. row'[q] = row[q]
    <3>1. CASE pc[s] = "idle"
      BY <1>1, <3>1
         DEF Step, ExchangePublicToken, ValidateToken, LookupItem, RelinkItem, CheckDuplicate,
             ReleaseDuplicate, CreateItem, SyncAccounts, SyncItem, LoginRequired, CommitAccounts, Abort
    <3>2. CASE pc[s] # "idle"
      BY <1>1, <2>2, <2>3, <2>4, <2>5, <3>2 DEF Effect, WritesOwn
    <3>3. QED
      BY <3>1, <3>2
  <2>7. q \in SameBank(who[r], BankOf[target[r]])
    BY <2>2, <2>4, <2>5 DEF SameBank, Owned
  <2>8. QED
    BY <2>1, <2>6, <2>7 DEF ChecksHold, CheckHolds
<1>3. CheckHolds(s)'
  <2>1. CASE CheckDuplicate(s) /\ pc'[s] = "create" /\ BankOf[target'[s]] # NoBank
    <3> DEFINE same == SameBank(who[s], BankOf[target[s]])
    <3>1. UNCHANGED <<row, who, target>>
      BY <2>1 DEF CheckDuplicate
    <3>2. seen'[s] = StatusesOf(same) /\ \A q \in same : row[q].status # "active"
      BY <1>1, <2>1, <3>1 DEF CheckDuplicate, TypeOK
    <3>3. SameBank(who[s], BankOf[target[s]])' = same
      BY <3>1 DEF SameBank, Owned
    <3>4. \A q \in same : q \in PlaidItems
      BY DEF SameBank, Owned
    <3>5. \A q \in same : StatusesOf(same)[q] = row[q].status
      BY <3>4 DEF StatusesOf
    <3> HIDE DEF same
    <3>6. QED
      BY <3>1, <3>2, <3>3, <3>5 DEF CheckHolds
  <2>2. CASE pc'[s] # "create"
    BY <2>2 DEF CheckHolds
  <2>3. pc'[s] = "create" => CheckDuplicate(s)
    BY <1>1 DEF Step, TypeOK, ExchangePublicToken, ValidateToken, LookupItem, RelinkItem, EndRequest,
       ReleaseDuplicate, CreateItem, SyncAccounts, SyncItem, LoginRequired, CommitAccounts, Abort
  <2>4. QED
    BY <2>1, <2>2, <2>3 DEF CheckHolds
<1>4. QED
  BY <1>2, <1>3 DEF ChecksHold

\* With requests of one user one after the other, a fresh link for a bank the
\* user already has an active item for is rejected: no commit of
\* exchange_public_token adds a second one (_reject_duplicate_institution).
THEOREM FreshLinkRejectedSerially == Spec /\ []OnePerUser => FreshLinkRejected
<1> DEFINE Rejects ==
      \A p \in PlaidItems : row[p] = Absent /\ row'[p] # Absent =>
         \A q \in PlaidItems \ {p} :
           /\ row[q] # Absent /\ row[q].user = row'[p].user
           /\ BankOf[q] = BankOf[p] /\ BankOf[p] # NoBank
           => row'[q].status # "active"
<1>1. Init => ChecksHold
  BY DEF Init, ChecksHold, CheckHolds
<1>2. LinkInv /\ ChecksHold /\ OnePerUser /\ [Next]_vars => ChecksHold'
  <2>1. CASE UNCHANGED vars
    BY <2>1 DEF vars, ChecksHold, CheckHolds, SameBank, Owned
  <2>2. QED
    BY <2>1, ChecksStep DEF Next
<1>3. LinkInv /\ ChecksHold /\ [Next]_vars => Rejects
  <2> SUFFICES ASSUME LinkInv, ChecksHold, [Next]_vars,
                      NEW p \in PlaidItems, row[p] = Absent, row'[p] # Absent,
                      NEW q \in PlaidItems \ {p}, row[q] # Absent, row[q].user = row'[p].user,
                      BankOf[q] = BankOf[p], BankOf[p] # NoBank
               PROVE  row'[q].status # "active"
    OBVIOUS
  <2>1. PICK s \in Sessions : Step(s)
    BY DEF Next, vars
  <2>2. CreateItem(s) /\ p = target[s] /\ row'[p].user = who[s]
    BY <2>1, AddsOwn
  <2> DEFINE stale == {x \in PlaidItems : seen[s][x] # Absent}
             written == WriteStatus(s, stale, "disconnected")
  <2>3. row' = [written EXCEPT ![target[s]] = [user |-> who[s], status |-> "active"]]
        /\ pc[s] = "create"
    BY <2>2 DEF CreateItem
  <2>4. q \in SameBank(who[s], BankOf[target[s]])
    BY <2>2 DEF SameBank, Owned
  <2>5. row[q].status # "active" /\ seen[s][q] = row[q].status
    BY <2>2, <2>3, <2>4 DEF ChecksHold, CheckHolds
  <2>6. row'[q] = written[q]
    BY <2>2, <2>3 DEF WriteStatus
  <2>7. row[q] \in Row
    BY DEF LinkInv, TypeOK
  <2>8. [row[q] EXCEPT !.status = "disconnected"].status = "disconnected"
    BY <2>7 DEF Row
  <2>9. written[q] = IF q \in stale /\ seen[s][q] # "disconnected"
                       THEN [row[q] EXCEPT !.status = "disconnected"] ELSE row[q]
    BY DEF WriteStatus
  <2>10. QED
    BY <2>5, <2>6, <2>8, <2>9
<1>4. QED
  BY <1>1, <1>2, <1>3, InitInv, NextKeeps, PTL DEF Spec, FreshLinkRejected

=============================================================================

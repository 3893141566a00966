----------------------------- MODULE PlaidLink -----------------------------
(***************************************************************************)
(* The life of a bank connection: PlaidLinkService.exchange_public_token   *)
(* creates, relinks and retires plaid_items rows, AccountSyncService moves *)
(* their status.  Requests interleave at every await; a session keeps the  *)
(* statuses it loaded and writes back only what it changed from them.      *)
(*                                                                         *)
(* Plaid is external: it mints an item per fresh Link session, answers     *)
(* account requests or fails, and forgets an item it is asked to remove.   *)
(***************************************************************************)
EXTENDS Naturals, FiniteSets

CONSTANTS
    PlaidItems,   \* item ids Plaid can mint
    Users,
    Banks,
    Sessions,     \* concurrently served requests
    BankOf,       \* [PlaidItems -> Banks \cup {NoBank}]: institution_id, may be missing
    NoBank,
    Absent        \* no such row

PlaidItemStatus == {"active", "login_required", "disconnected"}
Row == [user : Users, status : PlaidItemStatus]

ASSUME LinkAssumption ==
    /\ BankOf \in [PlaidItems -> Banks \cup {NoBank}]
    /\ NoBank \notin Banks
    /\ Absent \notin Row
    /\ Absent \notin PlaidItemStatus
    /\ Users # {} /\ PlaidItems # {}

VARIABLES
    minted,   \* Plaid: items that exist there
    row,      \* plaid_items
    pc,
    who,      \* the request's user
    target,   \* exchange: the item id Plaid returned
    seen,     \* statuses the session loaded, Absent where it loaded no row
    todo,     \* account sync: items still to fetch
    dirty     \* account sync: items set active in memory

vars == <<minted, row, pc, who, target, seen, todo, dirty>>
sessVars == <<pc, who, target, seen, todo, dirty>>

NoUser == CHOOSE u \in Users : TRUE
NoTarget == CHOOSE p \in PlaidItems : TRUE
NothingSeen == [p \in PlaidItems |-> Absent]

TypeOK ==
    /\ minted \subseteq PlaidItems
    /\ row \in [PlaidItems -> Row \cup {Absent}]
    /\ pc \in [Sessions -> {"idle", "validate", "lookup", "relink", "check", "release",
                            "create", "accounts"}]
    /\ who \in [Sessions -> Users]
    /\ target \in [Sessions -> PlaidItems]
    /\ seen \in [Sessions -> [PlaidItems -> PlaidItemStatus \cup {Absent}]]
    /\ todo \in [Sessions -> SUBSET PlaidItems]
    /\ dirty \in [Sessions -> SUBSET PlaidItems]

Owned(u) == {p \in PlaidItems : row[p] # Absent /\ row[p].user = u}

\* list_by_user_and_institution
SameBank(u, b) == {p \in Owned(u) : BankOf[p] = b}

StatusesOf(ps) == [p \in PlaidItems |-> IF p \in ps THEN row[p].status ELSE Absent]

Init ==
    /\ minted = {}
    /\ row = [p \in PlaidItems |-> Absent]
    /\ pc = [s \in Sessions |-> "idle"]
    /\ who = [s \in Sessions |-> NoUser]
    /\ target = [s \in Sessions |-> NoTarget]
    /\ seen = [s \in Sessions |-> NothingSeen]
    /\ todo = [s \in Sessions |-> {}]
    /\ dirty = [s \in Sessions |-> {}]

\* The response; what was not committed is rolled back.
EndRequest(s) ==
    /\ pc' = [pc EXCEPT ![s] = "idle"]
    /\ who' = [who EXCEPT ![s] = NoUser]
    /\ target' = [target EXCEPT ![s] = NoTarget]
    /\ seen' = [seen EXCEPT ![s] = NothingSeen]
    /\ todo' = [todo EXCEPT ![s] = {}]
    /\ dirty' = [dirty EXCEPT ![s] = {}]

\* UPDATE of status: emitted only where the session's value differs from
\* the one it loaded.
WriteStatus(s, ps, st) ==
    [p \in PlaidItems |->
       IF p \in ps /\ seen[s][p] # st THEN [row[p] EXCEPT !.status = st] ELSE row[p]]

-----------------------------------------------------------------------------
(* POST /plaid/exchange-token                                              *)

\* Plaid turns the public token into an item: a new one after a fresh Link
\* session, an existing one after an update-mode session.
ExchangePublicToken(s) ==
    /\ pc[s] = "idle"
    /\ \E u \in Users, p \in PlaidItems :
         /\ who' = [who EXCEPT ![s] = u]
         /\ target' = [target EXCEPT ![s] = p]
         /\ minted' = minted \cup {p}
         /\ p \in minted => row[p] # Absent
    /\ pc' = [pc EXCEPT ![s] = "validate"]
    /\ UNCHANGED <<row, seen, todo, dirty>>

\* get_accounts with the fresh token: any Plaid error ends the request, and
\* the item stays at Plaid without a row.
ValidateToken(s) ==
    /\ pc[s] = "validate"
    /\ \/ /\ pc' = [pc EXCEPT ![s] = "lookup"]
          /\ UNCHANGED <<who, target, seen, todo, dirty>>
       \/ EndRequest(s)
    /\ UNCHANGED <<minted, row>>

\* Mutant: the owner of an existing item is not compared.
LookupItemNoOwner(s) ==
    LET p == target[s]
    IN  /\ pc[s] = "lookup"
        /\ IF row[p] = Absent
             THEN /\ pc' = [pc EXCEPT ![s] = "check"]
                  /\ UNCHANGED seen
             ELSE /\ pc' = [pc EXCEPT ![s] = "relink"]
                  /\ seen' = [seen EXCEPT ![s] = StatusesOf({p})]
        /\ UNCHANGED <<who, target, todo, dirty, minted, row>>

\* get_by_plaid_item_id: an item of another user is a conflict, an own one is
\* relinked, an unknown one goes through the duplicate check.
LookupItem(s) ==
    LET p == target[s]
    IN  /\ pc[s] = "lookup"
        /\ \/ /\ row[p] # Absent
              /\ row[p].user # who[s]
              /\ EndRequest(s)
           \/ /\ row[p] # Absent
              /\ row[p].user = who[s]
              /\ pc' = [pc EXCEPT ![s] = "relink"]
              /\ seen' = [seen EXCEPT ![s] = StatusesOf({p})]
              /\ UNCHANGED <<who, target, todo, dirty>>
           \/ /\ row[p] = Absent
              /\ pc' = [pc EXCEPT ![s] = "check"]
              /\ UNCHANGED <<who, target, seen, todo, dirty>>
        /\ UNCHANGED <<minted, row>>

\* The existing row gets the new token and is active again, whatever it was.
RelinkItem(s) ==
    /\ pc[s] = "relink"
    /\ row' = WriteStatus(s, {target[s]}, "active")
    /\ EndRequest(s)
    /\ UNCHANGED minted

\* _reject_duplicate_institution reads the user's items of the bank; an
\* active one means rejection.  Without an institution id there is no check.
CheckDuplicate(s) ==
    LET b == BankOf[target[s]]
        same == IF b = NoBank THEN {} ELSE SameBank(who[s], b)
    IN  /\ pc[s] = "check"
        /\ IF \E p \in same : row[p].status = "active"
             THEN /\ pc' = [pc EXCEPT ![s] = "release"]
                  /\ UNCHANGED seen
             ELSE /\ pc' = [pc EXCEPT ![s] = "create"]
                  /\ seen' = [seen EXCEPT ![s] = StatusesOf(same)]
        /\ UNCHANGED <<minted, row, who, target, todo, dirty>>

\* The rejected item is released at Plaid, best effort, then 409.
ReleaseDuplicate(s) ==
    /\ pc[s] = "release"
    /\ minted' \in {minted, minted \ {target[s]}}
    /\ EndRequest(s)
    /\ UNCHANGED row

\* Mutant: a retirement is committed without the new row.
CreateItemRetiresOnly(s) ==
    LET stale == {p \in PlaidItems : seen[s][p] # Absent}
    IN  /\ pc[s] = "create"
        /\ row' = IF stale # {} \/ row[target[s]] # Absent
                    THEN WriteStatus(s, stale, "disconnected")
                    ELSE [row EXCEPT ![target[s]] = [user |-> who[s], status |-> "active"]]
        /\ EndRequest(s)
        /\ UNCHANGED minted

\* Stale items of the bank are retired and the new row inserted, in one
\* commit; the INSERT fails if the id has a row by now.
CreateItem(s) ==
    LET stale == {p \in PlaidItems : seen[s][p] # Absent}
    IN  /\ pc[s] = "create"
        /\ IF row[target[s]] = Absent
             THEN row' = [WriteStatus(s, stale, "disconnected")
                            EXCEPT ![target[s]] = [user |-> who[s], status |-> "active"]]
             ELSE UNCHANGED row
        /\ EndRequest(s)
        /\ UNCHANGED minted

-----------------------------------------------------------------------------
(* POST /plaid/accounts/sync (and the status writes of transaction sync).  *)

\* One item by id, whatever its status, or all that are not disconnected.
SyncAccounts(s) ==
    /\ pc[s] = "idle"
    /\ \E u \in Users :
       \E ps \in {{p} : p \in Owned(u)}
                 \cup {{p \in Owned(u) : row[p].status # "disconnected"}} :
         /\ who' = [who EXCEPT ![s] = u]
         /\ todo' = [todo EXCEPT ![s] = ps]
         /\ seen' = [seen EXCEPT ![s] = StatusesOf(ps)]
    /\ pc' = [pc EXCEPT ![s] = "accounts"]
    /\ UNCHANGED <<minted, row, target, dirty>>

\* sync_item: Plaid answers, so the connection works; if the session loaded
\* another status it sets active, in memory until the commit at the end.
SyncItem(s) ==
    /\ pc[s] = "accounts"
    /\ \E p \in todo[s] :
         /\ p \in minted
         /\ todo' = [todo EXCEPT ![s] = @ \ {p}]
         /\ dirty' = [dirty EXCEPT ![s] = IF seen[s][p] # "active" THEN @ \cup {p} ELSE @]
    /\ UNCHANGED <<minted, row, pc, who, target, seen>>

\* Mutant: Plaid's error code is stored in place of the status.
LoginRequiredStoresCode(s) ==
    /\ pc[s] = "accounts"
    /\ \E p \in todo[s] : row' = WriteStatus(s, {p}, "ITEM_LOGIN_REQUIRED")
    /\ EndRequest(s)
    /\ UNCHANGED minted

\* ITEM_LOGIN_REQUIRED: flagged and committed, with the items done before.
LoginRequired(s) ==
    /\ pc[s] = "accounts"
    /\ \E p \in todo[s] :
         row' = [q \in PlaidItems |->
                   IF q = p THEN WriteStatus(s, {p}, "login_required")[q]
                   ELSE WriteStatus(s, dirty[s], "active")[q]]
    /\ EndRequest(s)
    /\ UNCHANGED minted

\* Every item answered: one commit.
CommitAccounts(s) ==
    /\ pc[s] = "accounts"
    /\ todo[s] = {}
    /\ row' = WriteStatus(s, dirty[s], "active")
    /\ EndRequest(s)
    /\ UNCHANGED minted

\* Any other Plaid error in account sync, or the process dies: rollback.
Abort(s) ==
    /\ pc[s] # "idle"
    /\ EndRequest(s)
    /\ UNCHANGED <<minted, row>>

-----------------------------------------------------------------------------

Step(s) ==
    \/ ExchangePublicToken(s)
    \/ ValidateToken(s)
    \/ LookupItem(s)
    \/ RelinkItem(s)
    \/ CheckDuplicate(s)
    \/ ReleaseDuplicate(s)
    \/ CreateItem(s)
    \/ SyncAccounts(s)
    \/ SyncItem(s)
    \/ LoginRequired(s)
    \/ CommitAccounts(s)
    \/ Abort(s)

Next == \E s \in Sessions : Step(s)

Spec == Init /\ [][Next]_vars

-----------------------------------------------------------------------------
(* Properties.                                                             *)

\* The user has a connection to the bank that is still synced.
Connected(u, b) == \E p \in SameBank(u, b) : row[p].status # "disconnected"

\* A fresh link retires the broken connection it replaces and creates the
\* new one in the same commit, so whatever exchanges, account syncs and
\* crashes overlap, a connected bank never ends up with retired items only.
BankStaysConnected ==
    [][\A u \in Users, b \in Banks : Connected(u, b) => Connected(u, b)']_vars

\* "An item already connected by another user is rejected": no request
\* changes the row of an item that belongs to somebody else.
ForeignRowsUntouched ==
    [][\A s \in Sessions, p \in PlaidItems :
         /\ pc[s] # "idle" /\ pc'[s] # pc[s]
         /\ row[p] # Absent /\ row[p].user # who[s]
         => row'[p] = row[p]]_vars

\* "A fresh Link session for an institution the user already has an active
\* item for is rejected": no commit adds a second active item for a bank.
FreshLinkRejected ==
    [][\A p \in PlaidItems : row[p] = Absent /\ row'[p] # Absent =>
         \A q \in PlaidItems \ {p} :
           /\ row[q] # Absent /\ row[q].user = row'[p].user
           /\ BankOf[q] = BankOf[p] /\ BankOf[p] # NoBank
           => row'[q].status # "active"]_vars

\* "Retired connections are dead tokens - syncing them can only fail": only
\* a relink, never an account sync, brings a retired item back.
RetiredStaysRetired ==
    [][\A s \in Sessions, p \in PlaidItems :
         /\ pc[s] = "accounts" /\ pc'[s] = "idle"
         /\ row[p] # Absent /\ row[p].status = "disconnected"
         => row'[p].status = "disconnected"]_vars

=============================================================================

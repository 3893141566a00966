------------------------------- MODULE Names --------------------------------
(***************************************************************************)
(* What a user names: labels and the transactions that carry them, and     *)
(* user categories and the Plaid categories they roll up.  The two services*)
(* have the same operations over a table of names (unique per user) and a  *)
(* table of members; which of the two is meant is fixed at the start.  The *)
(* Plaid categories are created by overlapping transaction syncs.          *)
(*                                                                         *)
(* One user; the reads of a request are one step, its write and commit     *)
(* another.  A Plaid category is the path of its names.                    *)
(***************************************************************************)
EXTENDS ApiErrors, FiniteSets

CONSTANTS
    Ids,           \* rows that can ever be inserted (a bound)
    RawNames,      \* names as requests send them, blanks around them or not
    Transactions,  \* as paths of length one
    Categories,    \* paths of one or two names
    Windows,       \* sequences of paths: what one sync can bring
    Sessions

ASSUME NamesAssumption ==
    /\ \A r \in RawNames : /\ r.blanks \in BOOLEAN /\ (r.text = "" => r.blanks)
                           /\ r.text \notin {"free", "gone", "nothing"}
    /\ "nothing" \notin Ids
    /\ \A c \in Categories : Len(c) \in {1, 2} /\ <<c[1]>> \in Categories
    /\ Windows \subseteq Seq(Categories)

VARIABLES
    table,       \* "labels" or "user_categories"
    name,        \* name of each row, Free before and Gone after its life
    member,      \* transaction_labels or category_mappings: <<thing, id>>
    things,      \* committed transactions, or Plaid categories
    pc, req,
    saw,         \* what the reads found that the write depends on
    todo,        \* categories a sync has to resolve
    held,        \* categories a sync has inserted and not committed
    overlapped,  \* history: another request ran at the same time
    answer       \* HTTP status of the last request, 0: none

dbVars == <<table, name, member, things>>
vars == <<dbVars, pc, req, saw, todo, held, overlapped, answer>>

\* body.name.strip(): of a name that is all blanks, which min_length=1 lets
\* in, nothing is left.
Strip(raw) == raw.text
NameSet == {Strip(raw) : raw \in RawNames}

Free == "free"
Gone == "gone"
Nothing == "nothing"
NoThing == <<>>
Request(op, id, n, t) == [op |-> op, id |-> id, name |-> n, thing |-> t]
NoRequest == Request("none", Nothing, Nothing, NoThing)

TypeOK ==
    /\ table \in {"labels", "user_categories"}
    /\ name \in [Ids -> NameSet \cup {Free, Gone}]
    /\ member \subseteq (Transactions \cup Categories) \X Ids
    /\ things \subseteq IF table = "labels" THEN Transactions ELSE Categories
    /\ pc \in [Sessions -> {"idle", "write", "lookup", "insert"}]
    /\ \A s \in Sessions : /\ pc[s] = "idle" <=> req[s] = NoRequest
                           /\ pc[s] \in {"idle", "write"} => held[s] = {} /\ todo[s] = <<>>
    /\ held \in [Sessions -> SUBSET Categories]
    /\ overlapped \in [Sessions -> BOOLEAN]
    /\ answer \in [Sessions -> {0} \cup Statuses]

Live(i) == name[i] \notin {Free, Gone}
Taken(n) == \E i \in Ids : name[i] = n
MappedTo(t) == IF \E i \in Ids : <<t, i>> \in member THEN CHOOSE i \in Ids : <<t, i>> \in member ELSE Nothing

-----------------------------------------------------------------------------
(* Requests                                                                *)

\* A request comes in while others may be under way.
Begins(s) ==
    LET active == {r \in Sessions \ {s} : pc[r] # "idle"}
    IN  overlapped' = [r \in Sessions |-> IF r = s THEN active # {} ELSE overlapped[r] \/ r \in active]

\* It reads, and is answered or goes on to write.
ReadThenWrite(s, q, found) ==
    /\ Begins(s)
    /\ pc' = [pc EXCEPT ![s] = "write"]
    /\ req' = [req EXCEPT ![s] = q]
    /\ saw' = [saw EXCEPT ![s] = found]
    /\ answer' = [answer EXCEPT ![s] = 0]
    /\ UNCHANGED <<dbVars, todo, held>>

ReadOnly(s, status) ==
    /\ Begins(s)
    /\ answer' = [answer EXCEPT ![s] = status]
    /\ UNCHANGED <<dbVars, pc, req, saw, todo, held>>

\* The session closes; what it has not committed is rolled back.
End(s, status) ==
    /\ pc' = [pc EXCEPT ![s] = "idle"]
    /\ req' = [req EXCEPT ![s] = NoRequest]
    /\ saw' = [saw EXCEPT ![s] = Nothing]
    /\ todo' = [todo EXCEPT ![s] = <<>>]
    /\ held' = [held EXCEPT ![s] = {}]
    /\ answer' = [answer EXCEPT ![s] = status]
    /\ UNCHANGED <<table, overlapped>>

\* An exception that no handler knows, an IntegrityError or StaleDataError.
Crashes(s) == End(s, Status("IntegrityError")) /\ UNCHANGED dbVars

-----------------------------------------------------------------------------
(* create_label, create_category                                           *)

\* Mutant: the names in use are not looked at.
CreateUnchecked(s) ==
    /\ pc[s] = "idle"
    /\ \E raw \in RawNames : ReadThenWrite(s, Request("create", Nothing, Strip(raw), NoThing), Nothing)

Create(s) ==
    /\ pc[s] = "idle"
    /\ \E raw \in RawNames :
         LET n == Strip(raw)
         IN  \/ Taken(n) /\ ReadOnly(s, Status("ConflictError"))
             \/ ~Taken(n) /\ ReadThenWrite(s, Request("create", Nothing, n, NoThing), Nothing)

\* The INSERT is flushed before the try: a name taken by now is an
\* IntegrityError nobody translates.
CreateWrite(s) ==
    /\ pc[s] = "write" /\ req[s].op = "create"
    /\ \/ Taken(req[s].name) /\ Crashes(s)
       \/ /\ ~Taken(req[s].name)
          /\ \E i \in Ids : name[i] = Free /\ name' = [name EXCEPT ![i] = req[s].name]
          /\ End(s, 200)
          /\ UNCHANGED <<member, things>>

-----------------------------------------------------------------------------
(* rename_label, rename_category                                           *)

Rename(s) ==
    /\ pc[s] = "idle"
    /\ \E i \in Ids, raw \in RawNames :
         LET n == Strip(raw)
         IN  \/ name[i] = Gone /\ ReadOnly(s, Status("NotFoundError"))
             \/ Live(i) /\ name[i] # n /\ Taken(n) /\ ReadOnly(s, Status("ConflictError"))
             \/ /\ Live(i) /\ (name[i] = n \/ ~Taken(n))
                /\ ReadThenWrite(s, Request("rename", i, n, NoThing), name[i])

\* The UPDATE is flushed by the commit, inside the try; there is none when
\* the name is the one that was read.  A row that is gone is a StaleDataError.
RenameWrite(s) ==
    LET i == req[s].id n == req[s].name
    IN  /\ pc[s] = "write" /\ req[s].op = "rename"
        /\ \/ saw[s] = n /\ End(s, 200) /\ UNCHANGED dbVars
           \/ saw[s] # n /\ ~Live(i) /\ Crashes(s)
           \/ /\ saw[s] # n /\ Live(i) /\ Taken(n) /\ name[i] # n
              /\ End(s, Status("ConflictError"))
              /\ UNCHANGED dbVars
           \/ /\ saw[s] # n /\ Live(i) /\ (~Taken(n) \/ name[i] = n)
              /\ name' = [name EXCEPT ![i] = n]
              /\ End(s, 200)
              /\ UNCHANGED <<member, things>>

-----------------------------------------------------------------------------
(* delete_label, delete_category                                           *)

Delete(s) ==
    /\ pc[s] = "idle"
    /\ \E i \in Ids :
         \/ name[i] = Gone /\ ReadOnly(s, Status("NotFoundError"))
         \/ Live(i) /\ ReadThenWrite(s, Request("delete", i, Nothing, NoThing), Nothing)

\* Mutant: the member rows stay.
DeleteWriteNoCascade(s) ==
    /\ pc[s] = "write" /\ req[s].op = "delete"
    /\ name' = [name EXCEPT ![req[s].id] = Gone]
    /\ End(s, 200)
    /\ UNCHANGED <<member, things>>

\* The members go by the foreign key's cascade; deleting what is gone already
\* is only warned about.
DeleteWrite(s) ==
    /\ pc[s] = "write" /\ req[s].op = "delete"
    /\ name' = [name EXCEPT ![req[s].id] = Gone]
    /\ member' = {m \in member : m[2] # req[s].id}
    /\ End(s, 200)
    /\ UNCHANGED things

-----------------------------------------------------------------------------
(* assign_label and unassign_label                                         *)

Assign(s) ==
    /\ pc[s] = "idle" /\ table = "labels"
    /\ \E t \in Transactions, i \in Ids :
         \/ (t \notin things \/ name[i] = Gone) /\ ReadOnly(s, Status("NotFoundError"))
         \/ t \in things /\ Live(i) /\ <<t, i>> \in member /\ ReadOnly(s, 200)
         \/ /\ t \in things /\ Live(i)
            /\ \/ <<t, i>> \notin member /\ ReadThenWrite(s, Request("assign", i, Nothing, t), Nothing)
               \/ ReadThenWrite(s, Request("unassign", i, Nothing, t), Nothing)

\* The primary key and both foreign keys are checked at the flush.
AssignWrite(s) ==
    LET t == req[s].thing i == req[s].id
    IN  /\ pc[s] = "write" /\ req[s].op = "assign"
        /\ \/ (t \notin things \/ ~Live(i) \/ <<t, i>> \in member) /\ Crashes(s)
           \/ /\ t \in things /\ Live(i) /\ <<t, i>> \notin member
              /\ member' = member \cup {<<t, i>>}
              /\ End(s, 200)
              /\ UNCHANGED <<name, things>>

\* The refresh after the commit fails when the transaction is gone.
UnassignWrite(s) ==
    /\ pc[s] = "write" /\ req[s].op = "unassign"
    /\ member' = member \ {<<req[s].thing, req[s].id>>}
    /\ End(s, IF req[s].thing \in things THEN 200 ELSE Status("InvalidRequestError"))
    /\ UNCHANGED <<name, things>>

\* A sync deletes a transaction that Plaid has removed.
TransactionRemoved ==
    /\ table = "labels"
    /\ \E t \in things : /\ things' = things \ {t}
                         /\ member' = {m \in member : m[1] # t}
    /\ overlapped' = [s \in Sessions |-> overlapped[s] \/ pc[s] # "idle"]
    /\ UNCHANGED <<table, name, pc, req, saw, todo, held, answer>>

-----------------------------------------------------------------------------
(* set_mapping and remove_mapping                                          *)

SetMapping(s) ==
    /\ pc[s] = "idle" /\ table = "user_categories"
    /\ \E c \in Categories :
         \/ \E i \in Ids :
              \/ (c \notin things \/ name[i] = Gone) /\ ReadOnly(s, Status("NotFoundError"))
              \/ c \in things /\ Live(i) /\ ReadThenWrite(s, Request("map", i, Nothing, c), MappedTo(c))
         \/ ReadThenWrite(s, Request("unmap", Nothing, Nothing, c), MappedTo(c))

\* Mutant: the mapping that is there is left where it points.
SetMappingWriteKeeps(s) ==
    LET c == req[s].thing i == req[s].id
    IN  /\ pc[s] = "write" /\ req[s].op = "map"
        /\ Live(i)
        /\ member' = IF MappedTo(c) = Nothing THEN member \cup {<<c, i>>} ELSE member
        /\ End(s, 200)
        /\ UNCHANGED <<name, things>>

\* "Create the mapping, or repoint it", as it was when it was read: no UPDATE
\* if it points there; a mapping created or removed since, or a category
\* deleted since, fails the flush.
SetMappingWrite(s) ==
    LET c == req[s].thing i == req[s].id
        fails == ~Live(i) \/ (saw[s] = Nothing) # (MappedTo(c) = Nothing)
    IN  /\ pc[s] = "write" /\ req[s].op = "map"
        /\ \/ saw[s] = i /\ End(s, 200) /\ UNCHANGED dbVars
           \/ saw[s] # i /\ fails /\ Crashes(s)
           \/ /\ saw[s] # i /\ ~fails
              /\ member' = {m \in member : m[1] # c} \cup {<<c, i>>}
              /\ End(s, 200)
              /\ UNCHANGED <<name, things>>

RemoveMappingWrite(s) ==
    /\ pc[s] = "write" /\ req[s].op = "unmap"
    /\ member' = IF saw[s] = Nothing THEN member ELSE {m \in member : m[1] # req[s].thing}
    /\ End(s, 200)
    /\ UNCHANGED <<name, things>>

-----------------------------------------------------------------------------
(* CategoryResolver in a transaction sync                                  *)

\* resolve(): the primary category, then the detailed one below it.
Wanted(path, known) == IF <<path[1]>> \in known THEN path ELSE <<path[1]>>

SyncStarts(s) ==
    /\ pc[s] = "idle" /\ table = "user_categories"
    /\ Begins(s)
    /\ \E w \in Windows : todo' = [todo EXCEPT ![s] = w]
    /\ pc' = [pc EXCEPT ![s] = "lookup"]
    /\ req' = [req EXCEPT ![s] = Request("sync", Nothing, Nothing, NoThing)]
    /\ answer' = [answer EXCEPT ![s] = 0]
    /\ UNCHANGED <<dbVars, saw, held>>

\* get_or_create finds the row (or the cache has it), or will insert it.
Lookup(s) ==
    /\ pc[s] = "lookup" /\ todo[s] # <<>>
    /\ LET path == Head(todo[s])
           known == things \cup held[s]
           next == Wanted(path, known)
       IN  \/ /\ next \in known
              /\ todo' = [todo EXCEPT ![s] = Tail(@)]
              /\ UNCHANGED pc
           \/ /\ next \notin known
              /\ todo' = [todo EXCEPT ![s] = IF next = path THEN @ ELSE <<next>> \o @]
              /\ pc' = [pc EXCEPT ![s] = "insert"]
    /\ UNCHANGED <<dbVars, req, saw, held, overlapped, answer>>

\* The session whose uncommitted row s has to wait for.
BlockedBy(s, r) == r # s /\ pc[s] = "insert" /\ Head(todo[s]) \in held[r]

\* Mutant: a failed INSERT is rolled back and tried again.
InsertCategoryRetries(s) ==
    /\ pc[s] = "insert"
    /\ \A r \in Sessions : ~BlockedBy(s, r)
    /\ \/ /\ Head(todo[s]) \in things
          /\ held' = [held EXCEPT ![s] = {}]
          /\ UNCHANGED <<dbVars, pc, req, saw, todo, overlapped, answer>>
       \/ /\ Head(todo[s]) \notin things
          /\ held' = [held EXCEPT ![s] = @ \cup {Head(todo[s])}]
          /\ todo' = [todo EXCEPT ![s] = Tail(@)]
          /\ pc' = [pc EXCEPT ![s] = "lookup"]
          /\ UNCHANGED <<dbVars, req, saw, overlapped, answer>>

\* The INSERT waits for another sync's uncommitted row of the same name and
\* parent, and fails when that has been committed.
InsertCategory(s) ==
    /\ pc[s] = "insert"
    /\ \A r \in Sessions : ~BlockedBy(s, r)
    /\ \/ Head(todo[s]) \in things /\ Crashes(s)
       \/ /\ Head(todo[s]) \notin things
          /\ held' = [held EXCEPT ![s] = @ \cup {Head(todo[s])}]
          /\ todo' = [todo EXCEPT ![s] = Tail(@)]
          /\ pc' = [pc EXCEPT ![s] = "lookup"]
          /\ UNCHANGED <<dbVars, req, saw, overlapped, answer>>

\* External: PostgreSQL ends one of two sessions that wait for each other.
DeadlockVictim(s) ==
    /\ \E r \in Sessions : BlockedBy(s, r) /\ BlockedBy(r, s)
    /\ Crashes(s)

SyncCommits(s) ==
    /\ pc[s] = "lookup" /\ todo[s] = <<>>
    /\ things' = things \cup held[s]
    /\ End(s, 200)
    /\ UNCHANGED <<name, member>>

\* The process dies or the client's request is cancelled.
Crash(s) == pc[s] # "idle" /\ End(s, 0) /\ UNCHANGED dbVars

-----------------------------------------------------------------------------

Init ==
    /\ table \in {"labels", "user_categories"}
    /\ name = [i \in Ids |-> Free]
    /\ member = {}
    /\ things = IF table = "labels" THEN Transactions ELSE {}
    /\ pc = [s \in Sessions |-> "idle"]
    /\ req = [s \in Sessions |-> NoRequest]
    /\ saw = [s \in Sessions |-> Nothing]
    /\ todo = [s \in Sessions |-> <<>>]
    /\ held = [s \in Sessions |-> {}]
    /\ overlapped = [s \in Sessions |-> FALSE]
    /\ answer = [s \in Sessions |-> 0]

Read(s) == Create(s) \/ Rename(s) \/ Delete(s) \/ Assign(s) \/ SetMapping(s) \/ SyncStarts(s)

Write(s) ==
    \/ CreateWrite(s)
    \/ RenameWrite(s)
    \/ DeleteWrite(s)
    \/ AssignWrite(s)
    \/ UnassignWrite(s)
    \/ SetMappingWrite(s)
    \/ RemoveMappingWrite(s)

SyncStep(s) == Lookup(s) \/ InsertCategory(s) \/ DeadlockVictim(s) \/ SyncCommits(s)

Next ==
    \/ \E s \in Sessions : Read(s) \/ Write(s) \/ SyncStep(s) \/ Crash(s)
    \/ TransactionRemoved

Spec == Init /\ [][Next]_vars

\* The event loop runs every sync, PostgreSQL breaks deadlocks and wakes a
\* waiting INSERT when the transaction it waits for ends, so that no stream of
\* later syncs keeps it waiting.
FairSpec == Spec /\ \A s \in Sessions : WF_vars(SyncStep(s)) /\ SF_vars(InsertCategory(s))

-----------------------------------------------------------------------------
(* Properties.                                                             *)

\* Names stay unique, a Plaid category has "at most one user category ... a
\* strict partition", members are of rows that exist, and a category's parent
\* does too, however requests overlap; an idle session holds nothing.
TablesSound ==
    /\ TypeOK
    /\ \A i, j \in Ids : Live(i) /\ name[i] = name[j] => i = j
    /\ \A m \in member : Live(m[2]) /\ m[1] \in things
    /\ table = "user_categories" =>
         /\ \A m, k \in member : m[1] = k[1] => m = k
         /\ \A c \in things : Len(c) = 2 => <<c[1]>> \in things

\* An internal error is only ever the price of an overlap: a request that runs
\* alone is answered 2xx, 404 or 409.
ErrorOnlyWhenOverlapped ==
    [][\A s \in Sessions : answer[s] # 500 /\ answer'[s] = 500 => overlapped'[s]]_vars

\* A request that is answered 200 has done what it says: unless the reads found
\* it done already, the commit leaves the name, the assignment or the mapping
\* that was asked for and no other change to it.
AnswerTrue ==
    [][\A s \in Sessions : pc[s] = "write" /\ answer'[s] = 200 =>
         LET q == req[s]
         IN  CASE q.op = "create"   -> \E i \in Ids : name[i] = Free /\ name'[i] = q.name
               [] q.op = "rename"   -> saw[s] = q.name \/ name'[q.id] = q.name
               [] q.op = "delete"   -> name'[q.id] = Gone
               [] q.op = "assign"   -> <<q.thing, q.id>> \in member'
               [] q.op = "unassign" -> <<q.thing, q.id>> \notin member'
               [] q.op = "map"      -> saw[s] = q.id \/ <<q.thing, q.id>> \in member'
               [] q.op = "unmap"    -> saw[s] = Nothing \/ \A i \in Ids : <<q.thing, i>> \notin member']_vars

\* Syncs that create the same categories in different orders do not wait for
\* each other for ever.
SyncEnds == \A s \in Sessions : pc[s] = "insert" ~> pc[s] = "idle"

=============================================================================

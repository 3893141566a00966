---------------------------- MODULE NamesProofs -----------------------------
(***************************************************************************)
(* Proofs about Names: the tables stay sound however requests overlap, an  *)
(* internal error is the price of an overlap, and an answer of 200 is true.*)
(*                                                                         *)
(* The invariant says what a request still knows between its reads and its *)
(* write.  Some of it nobody can take away (the names and rows it asks for *)
(* exist in the model, a Plaid category is never deleted, the parent of a  *)
(* category to be inserted is there); the rest, that the name is free, the *)
(* row alive and the mapping as it was read, holds as long as no other     *)
(* request has overlapped.                                                 *)
(***************************************************************************)
EXTENDS Names, TLAPS

WriteOps == {"create", "rename", "delete", "assign", "unassign", "map", "unmap"}

Requests ==
    [op : WriteOps \cup {"none", "sync"}, id : Ids \cup {Nothing}, name : NameSet \cup {Nothing},
     thing : Transactions \cup Categories \cup {NoThing}]

\* TypeOK, and the types it leaves out.
Typed ==
    /\ TypeOK
    /\ req \in [Sessions -> Requests]
    /\ saw \in [Sessions -> NameSet \cup Ids \cup {Nothing}]
    /\ todo \in [Sessions -> Seq(Categories)]

\* What a write asks for, and what of it was never in question.
AsksFor(q) ==
    /\ q \in Requests /\ q.op \in WriteOps
    /\ q.op \in {"create", "rename"} => q.name \in NameSet
    /\ q.op \in {"rename", "delete", "assign", "unassign", "map"} => q.id \in Ids
    /\ q.op \in {"assign", "unassign"} => table = "labels" /\ q.thing \in Transactions
    /\ q.op \in {"map", "unmap"} => table = "user_categories"
    /\ q.op = "map" => q.thing \in things

Asks(s) == pc[s] = "write" => AsksFor(req[s]) /\ answer[s] = 0

\* Every category in cs with a parent has it in known.
ParentsIn(cs, known) == \A c \in cs : Len(c) = 2 => <<c[1]>> \in known

\* A sync holds no category, and is about to insert none, without its parent.
Syncs(s) ==
    /\ pc[s] \in {"lookup", "insert"} => table = "user_categories" /\ req[s].op = "sync"
    /\ ParentsIn(held[s], things \cup held[s])
    /\ pc[s] = "insert" =>
         todo[s] # <<>> /\ ParentsIn({Head(todo[s])}, things \cup held[s])

\* What the reads of a write have found.
FoundFor(q, found) ==
    /\ q.op = "create" => ~Taken(q.name)
    /\ q.op = "rename" => /\ Live(q.id) /\ found = name[q.id]
                          /\ name[q.id] = q.name \/ ~Taken(q.name)
    /\ q.op = "assign" => q.thing \in things /\ Live(q.id) /\ <<q.thing, q.id>> \notin member
    /\ q.op = "unassign" => q.thing \in things
    /\ q.op = "map" => Live(q.id) /\ found = MappedTo(q.thing)

Found(s) ==
    /\ pc[s] = "write" => FoundFor(req[s], saw[s])
    /\ pc[s] = "insert" => Head(todo[s]) \notin things

\* As long as a request has been alone, what it read still holds.
Alone(s) ==
    pc[s] # "idle" /\ ~overlapped[s] =>
      /\ \A r \in Sessions \ {s} : pc[r] = "idle"
      /\ Found(s)

Local(s) == Asks(s) /\ Syncs(s) /\ Alone(s)

NamesInv == TablesSound /\ Typed /\ \A s \in Sessions : Local(s)

-----------------------------------------------------------------------------

TablesTyped ==
    /\ table \in {"labels", "user_categories"}
    /\ name \in [Ids -> NameSet \cup {Free, Gone}]
    /\ member \subseteq (Transactions \cup Categories) \X Ids
    /\ things \subseteq IF table = "labels" THEN Transactions ELSE Categories

SessionsTyped ==
    /\ pc \in [Sessions -> {"idle", "write", "lookup", "insert"}]
    /\ \A s \in Sessions : /\ pc[s] = "idle" <=> req[s] = NoRequest
                           /\ pc[s] \in {"idle", "write"} => held[s] = {} /\ todo[s] = <<>>
    /\ held \in [Sessions -> SUBSET Categories]
    /\ overlapped \in [Sessions -> BOOLEAN]
    /\ answer \in [Sessions -> {0} \cup Statuses]
    /\ req \in [Sessions -> Requests]
    /\ saw \in [Sessions -> NameSet \cup Ids \cup {Nothing}]
    /\ todo \in [Sessions -> Seq(Categories)]

\* TablesSound without the types.
Sound ==
    /\ \A i, j \in Ids : Live(i) /\ name[i] = name[j] => i = j
    /\ \A m \in member : Live(m[2]) /\ m[1] \in things
    /\ table = "user_categories" =>
         /\ \A m, k \in member : m[1] = k[1] => m = k
         /\ ParentsIn(things, things)

LEMMA Parts ==
    NamesInv <=> TablesTyped /\ SessionsTyped /\ Sound /\ \A s \in Sessions : Local(s)
BY DEF NamesInv, TablesSound, Typed, TypeOK, TablesTyped, SessionsTyped, Sound, ParentsIn

LEMMA PartsNext ==
    ASSUME TablesTyped', SessionsTyped', Sound', \A s \in Sessions : Local(s)'
    PROVE  NamesInv'
BY DEF NamesInv, TablesSound, Typed, TypeOK, TablesTyped, SessionsTyped, Sound, ParentsIn

LEMMA NamesNotSpecial ==
    /\ Free \notin NameSet /\ Gone \notin NameSet /\ Nothing \notin NameSet
    /\ Nothing \notin Ids /\ Free # Gone
BY NamesAssumption DEF NameSet, Strip, Free, Gone, Nothing

LEMMA NoRequestTyped == NoRequest \in Requests /\ NoRequest.op = "none"
BY DEF NoRequest, Request, Requests

\* The statuses of the answers (register_exception_handlers).
LEMMA StatusValues ==
    /\ Status("NotFoundError") = 404 /\ Status("ConflictError") = 409
    /\ Status("IntegrityError") = 500 /\ Status("InvalidRequestError") = 500
    /\ {0, 200, 404, 409, 500} \subseteq {0} \cup Statuses
<1>1. /\ Mro("NotFoundError") = <<"NotFoundError">> /\ Mro("ConflictError") = <<"ConflictError">>
      /\ Mro("IntegrityError") = <<"IntegrityError">>
      /\ Mro("InvalidRequestError") = <<"InvalidRequestError">>
  BY DEF Mro
<1>2. ASSUME NEW e, Mro(e) = <<e>>, e \in DOMAIN Handlers PROVE Status(e) = Handlers[e]
  <2>1. {i \in DOMAIN Mro(e) : Mro(e)[i] \in DOMAIN Handlers} = {1}
    BY <1>2
  <2>2. Min({1}) = 1
    BY DEF Min
  <2>3. QED
    BY <1>2, <2>1, <2>2 DEF Status
<1>3. ASSUME NEW e, Mro(e) = <<e>>, e \notin DOMAIN Handlers PROVE Status(e) = 500
  <2>1. {i \in DOMAIN Mro(e) : Mro(e)[i] \in DOMAIN Handlers} = {}
    BY <1>3
  <2>2. QED
    BY <2>1 DEF Status
<1>4. /\ "NotFoundError" \in DOMAIN Handlers /\ "ConflictError" \in DOMAIN Handlers
      /\ "IntegrityError" \notin DOMAIN Handlers /\ "InvalidRequestError" \notin DOMAIN Handlers
      /\ Handlers["NotFoundError"] = 404 /\ Handlers["ConflictError"] = 409
  BY DEF Handlers
<1>5. {404, 409} \subseteq Statuses /\ {200, 500} \subseteq Statuses
  BY <1>4 DEF Statuses
<1>6. Status("NotFoundError") = 404 /\ Status("ConflictError") = 409
  BY <1>1, <1>2, <1>4
<1>7. Status("IntegrityError") = 500 /\ Status("InvalidRequestError") = 500
  BY <1>1, <1>3, <1>4
<1>8. QED
  BY <1>5, <1>6, <1>7

\* get_mapping finds the mapping there is.
LEMMA Mapped ==
    ASSUME TablesTyped, NEW t
    PROVE  /\ MappedTo(t) \in Ids \cup {Nothing}
           /\ MappedTo(t) # Nothing => <<t, MappedTo(t)>> \in member
           /\ MappedTo(t) = Nothing => \A i \in Ids : <<t, i>> \notin member
<1>1. CASE \E i \in Ids : <<t, i>> \in member
  <2>1. MappedTo(t) \in Ids /\ <<t, MappedTo(t)>> \in member
    BY <1>1 DEF MappedTo
  <2>2. QED
    BY <2>1, NamesNotSpecial
<1>2. CASE ~\E i \in Ids : <<t, i>> \in member
  BY <1>2 DEF MappedTo
<1>3. QED
  BY <1>1, <1>2

MappedSomewhere(t) == MappedTo(t) \in Ids \cup {Nothing}

LEMMA MappedKnown == ASSUME TablesTyped, NEW t PROVE MappedSomewhere(t)
BY Mapped DEF MappedSomewhere

LEMMA InitInv == Init => NamesInv
<1> SUFFICES ASSUME Init PROVE NamesInv
  OBVIOUS
<1>1. TablesTyped
  BY DEF Init, TablesTyped
<1>2. SessionsTyped
  BY NoRequestTyped DEF Init, SessionsTyped
<1>3. Sound
  <2>1. \A i \in Ids : ~Live(i)
    BY DEF Init, Live
  <2>2. member = {} /\ (table = "user_categories" => things = {})
    BY DEF Init
  <2>3. QED
    BY <2>1, <2>2 DEF Sound, ParentsIn
<1>4. \A s \in Sessions : Local(s)
  BY DEF Init, Local, Asks, Syncs, Alone, ParentsIn
<1>5. QED
  BY <1>1, <1>2, <1>3, <1>4, Parts

-----------------------------------------------------------------------------
(* What a step of one session means for the others.                        *)

OthersKeep(s) ==
    \A r \in Sessions \ {s} :
      /\ pc'[r] = pc[r] /\ req'[r] = req[r] /\ saw'[r] = saw[r]
      /\ todo'[r] = todo[r] /\ held'[r] = held[r] /\ answer'[r] = answer[r]

\* A request that begins is noticed by those that are under way.
Noticed(s) ==
    \A r \in Sessions \ {s} : pc[r] # "idle" =>
      overlapped'[r] \/ (pc[s] # "idle" /\ overlapped'[r] = overlapped[r])

\* Plaid categories are never deleted.
Kept == table = "user_categories" => things \subseteq things'

LEMMA OthersLocal ==
    ASSUME NamesInv, NEW s \in Sessions, OthersKeep(s), Noticed(s), Kept, table' = table
    PROVE  \A r \in Sessions \ {s} : Local(r)'
<1> SUFFICES ASSUME NEW r \in Sessions, r # s PROVE Local(r)'
  OBVIOUS
<1>1. /\ pc'[r] = pc[r] /\ req'[r] = req[r] /\ saw'[r] = saw[r]
      /\ todo'[r] = todo[r] /\ held'[r] = held[r] /\ answer'[r] = answer[r]
  BY DEF OthersKeep
<1>2. Local(r) /\ SessionsTyped
  BY Parts
<1>3. Asks(r)'
  BY <1>1, <1>2 DEF Local, Asks, AsksFor, Kept
<1>4. Syncs(r)'
  <2>1. CASE pc[r] \in {"lookup", "insert"}
    <3>1. things \subseteq things'
      BY <1>2, <2>1 DEF Local, Syncs, Kept
    <3>2. QED
      BY <1>1, <1>2, <2>1, <3>1 DEF Local, Syncs, ParentsIn
  <2>2. CASE pc[r] \notin {"lookup", "insert"}
    <3>1. held[r] = {}
      BY <1>2, <2>2 DEF SessionsTyped
    <3>2. QED
      BY <1>1, <2>2, <3>1 DEF Syncs, ParentsIn
  <2>3. QED
    BY <2>1, <2>2
<1>5. Alone(r)'
  <2>1. CASE pc[r] = "idle"
    BY <1>1, <2>1 DEF Alone
  <2>2. CASE overlapped'[r]
    BY <2>2 DEF Alone
  <2>3. CASE pc[r] # "idle" /\ pc[s] # "idle" /\ overlapped'[r] = overlapped[r]
    BY <1>1, <1>2, <2>3 DEF Local, Alone
  <2>4. QED
    BY <2>1, <2>2, <2>3 DEF Noticed
<1>6. QED
  BY <1>3, <1>4, <1>5 DEF Local

LEMMA BeginsTyped ==
    ASSUME SessionsTyped, NEW s \in Sessions, Begins(s)
    PROVE  /\ overlapped' \in [Sessions -> BOOLEAN] /\ Noticed(s)
           /\ ~overlapped'[s] => \A r \in Sessions \ {s} : pc[r] = "idle"
<1>1. \A r \in Sessions : overlapped'[r] =
        IF r = s THEN {x \in Sessions \ {s} : pc[x] # "idle"} # {}
                 ELSE overlapped[r] \/ r \in {x \in Sessions \ {s} : pc[x] # "idle"}
  BY DEF Begins
<1>2. overlapped' \in [Sessions -> BOOLEAN]
  BY DEF Begins, SessionsTyped
<1>3. Noticed(s)
  BY <1>1 DEF Noticed
<1>4. QED
  BY <1>1, <1>2, <1>3

-----------------------------------------------------------------------------
(* Reads.                                                                  *)

LEMMA ReadOnlyStep ==
    ASSUME NamesInv, NEW s \in Sessions, pc[s] = "idle", NEW status \in {0} \cup Statuses,
           ReadOnly(s, status)
    PROVE  NamesInv'
<1>1. TablesTyped /\ SessionsTyped /\ Sound /\ Begins(s)
  BY Parts DEF ReadOnly
<1>2. /\ UNCHANGED <<table, name, member, things>>
      /\ UNCHANGED <<pc, req, saw, todo, held>> /\ answer' = [answer EXCEPT ![s] = status]
  BY DEF ReadOnly, dbVars
<1>3. TablesTyped' /\ SessionsTyped'
  BY <1>1, <1>2, BeginsTyped DEF TablesTyped, SessionsTyped
<1>4. Sound'
  BY <1>1, <1>2 DEF Sound, Live, ParentsIn
<1>5. OthersKeep(s) /\ Kept
  BY <1>1, <1>2 DEF OthersKeep, Kept, SessionsTyped
<1>6. Local(s)'
  <2>1. held[s] = {}
    BY <1>1 DEF SessionsTyped
  <2>2. QED
    BY <1>2, <2>1 DEF Local, Asks, Syncs, Alone, ParentsIn
<1>7. QED
  BY <1>1, <1>2, <1>3, <1>4, <1>5, <1>6, BeginsTyped, OthersLocal, PartsNext

LEMMA ReadThenWriteStep ==
    ASSUME NamesInv, NEW s \in Sessions, pc[s] = "idle",
           NEW q, NEW found \in NameSet \cup Ids \cup {Nothing},
           ReadThenWrite(s, q, found), AsksFor(q), FoundFor(q, found)
    PROVE  NamesInv'
<1>1. TablesTyped /\ SessionsTyped /\ Sound /\ Begins(s) /\ q \in Requests /\ q # NoRequest
  BY Parts, NoRequestTyped DEF ReadThenWrite, AsksFor, WriteOps
<1>2. /\ UNCHANGED <<table, name, member, things>> /\ UNCHANGED <<todo, held>>
      /\ pc' = [pc EXCEPT ![s] = "write"] /\ req' = [req EXCEPT ![s] = q]
      /\ saw' = [saw EXCEPT ![s] = found] /\ answer' = [answer EXCEPT ![s] = 0]
  BY DEF ReadThenWrite, dbVars
<1>3. /\ pc'[s] = "write" /\ req'[s] = q /\ saw'[s] = found /\ answer'[s] = 0
      /\ held'[s] = {} /\ OthersKeep(s) /\ Kept
  BY <1>1, <1>2 DEF SessionsTyped, OthersKeep, Kept
<1>4. TablesTyped'
  BY <1>1, <1>2 DEF TablesTyped
<1>5. SessionsTyped'
  <2>1. ASSUME NEW r \in Sessions
        PROVE  /\ pc'[r] = "idle" <=> req'[r] = NoRequest
               /\ pc'[r] \in {"idle", "write"} => held'[r] = {} /\ todo'[r] = <<>>
    <3>1. CASE r = s
      BY <1>1, <1>2, <1>3, <3>1 DEF SessionsTyped
    <3>2. CASE r # s
      BY <1>1, <1>3, <3>2 DEF SessionsTyped, OthersKeep
    <3>3. QED
      BY <3>1, <3>2
  <2>2. QED
    BY <1>1, <1>2, <2>1, BeginsTyped DEF SessionsTyped
<1>6. Sound'
  BY <1>1, <1>2 DEF Sound, Live, ParentsIn
<1>7. Asks(s)' /\ Syncs(s)'
  BY <1>2, <1>3 DEF Asks, AsksFor, Syncs, ParentsIn
<1>8. Alone(s)'
  <2>1. Found(s)'
    <3>1. MappedTo(q.thing)' = MappedTo(q.thing)
      BY <1>2, Zenon DEF MappedTo
    <3>2. FoundFor(q, found)'
      BY <1>2, <3>1 DEF FoundFor, Taken, Live
    <3>3. QED
      BY <1>3, <3>2 DEF Found, FoundFor
  <2>2. ~overlapped'[s] => \A r \in Sessions \ {s} : pc'[r] = "idle"
    BY <1>1, <1>3, BeginsTyped DEF OthersKeep
  <2>3. QED
    BY <2>1, <2>2 DEF Alone
<1>9. QED
  BY <1>1, <1>2, <1>3, <1>4, <1>5, <1>6, <1>7, <1>8, BeginsTyped, OthersLocal, PartsNext DEF Local

LEMMA ReadSteps ==
    ASSUME NamesInv, NEW s \in Sessions,
           Create(s) \/ Rename(s) \/ Delete(s) \/ Assign(s) \/ SetMapping(s)
    PROVE  NamesInv'
<1> USE StatusValues
<1>1. TablesTyped /\ pc[s] = "idle"
  BY Parts DEF Create, Rename, Delete, Assign, SetMapping
<1>2. CASE Create(s)
  <2>1. PICK raw \in RawNames :
          \/ ReadOnly(s, Status("ConflictError"))
          \/ /\ ~Taken(Strip(raw))
             /\ ReadThenWrite(s, Request("create", Nothing, Strip(raw), NoThing), Nothing)
    BY <1>2 DEF Create
  <2> DEFINE q == Request("create", Nothing, Strip(raw), NoThing)
  <2>2. Strip(raw) \in NameSet
    BY DEF NameSet
  <2>3. q.op = "create" /\ q.name = Strip(raw) /\ q \in Requests
    BY <2>2 DEF Request, Requests, WriteOps
  <2>4. AsksFor(q) /\ (~Taken(Strip(raw)) => FoundFor(q, Nothing))
    BY <2>2, <2>3 DEF AsksFor, FoundFor, WriteOps
  <2>5. QED
    BY <1>1, <2>1, <2>4, ReadOnlyStep, ReadThenWriteStep
<1>3. CASE Rename(s)
  <2>1. PICK i \in Ids, raw \in RawNames :
          \/ ReadOnly(s, Status("NotFoundError"))
          \/ ReadOnly(s, Status("ConflictError"))
          \/ /\ Live(i) /\ (name[i] = Strip(raw) \/ ~Taken(Strip(raw)))
             /\ ReadThenWrite(s, Request("rename", i, Strip(raw), NoThing), name[i])
    BY <1>3 DEF Rename
  <2> DEFINE q == Request("rename", i, Strip(raw), NoThing)
  <2>2. Strip(raw) \in NameSet /\ (Live(i) => name[i] \in NameSet)
    BY <1>1 DEF NameSet, Live, TablesTyped
  <2>3. q.op = "rename" /\ q.id = i /\ q.name = Strip(raw) /\ q \in Requests
    BY <2>2 DEF Request, Requests, WriteOps
  <2>4. AsksFor(q)
    BY <2>2, <2>3 DEF AsksFor, WriteOps
  <2>5. Live(i) /\ (name[i] = Strip(raw) \/ ~Taken(Strip(raw))) => FoundFor(q, name[i])
    BY <2>3 DEF FoundFor
  <2> HIDE DEF q
  <2>6. QED
    BY <1>1, <2>1, <2>2, <2>4, <2>5, ReadOnlyStep, ReadThenWriteStep DEF q
<1>4. CASE Delete(s)
  <2>1. PICK i \in Ids :
          \/ ReadOnly(s, Status("NotFoundError"))
          \/ ReadThenWrite(s, Request("delete", i, Nothing, NoThing), Nothing)
    BY <1>4 DEF Delete
  <2> DEFINE q == Request("delete", i, Nothing, NoThing)
  <2>2. q.op = "delete" /\ q.id = i /\ q \in Requests
    BY DEF Request, Requests, WriteOps
  <2>3. AsksFor(q) /\ FoundFor(q, Nothing)
    BY <2>2 DEF AsksFor, FoundFor, WriteOps
  <2>4. QED
    BY <1>1, <2>1, <2>3, ReadOnlyStep, ReadThenWriteStep
<1>5. CASE Assign(s)
  <2>1. PICK t \in Transactions, i \in Ids :
          \/ ReadOnly(s, Status("NotFoundError")) \/ ReadOnly(s, 200)
          \/ /\ t \in things /\ Live(i)
             /\ \/ /\ <<t, i>> \notin member
                   /\ ReadThenWrite(s, Request("assign", i, Nothing, t), Nothing)
                \/ ReadThenWrite(s, Request("unassign", i, Nothing, t), Nothing)
    BY <1>5 DEF Assign
  <2>2. table = "labels"
    BY <1>5 DEF Assign
  <2> DEFINE q == Request("assign", i, Nothing, t)
             u == Request("unassign", i, Nothing, t)
  <2>3. q.op = "assign" /\ q.id = i /\ q.thing = t /\ q \in Requests
    BY DEF Request, Requests, WriteOps
  <2>4. u.op = "unassign" /\ u.id = i /\ u.thing = t /\ u \in Requests
    BY DEF Request, Requests, WriteOps
  <2>5. AsksFor(q) /\ AsksFor(u)
    BY <2>2, <2>3, <2>4 DEF AsksFor, WriteOps
  <2>6. t \in things /\ Live(i) =>
          /\ <<t, i>> \notin member => FoundFor(q, Nothing)
          /\ FoundFor(u, Nothing)
    BY <2>3, <2>4 DEF FoundFor
  <2> HIDE DEF q, u
  <2>7. QED
    BY <1>1, <2>1, <2>5, <2>6, ReadOnlyStep, ReadThenWriteStep DEF q, u
<1>6. CASE SetMapping(s)
  <2>1. PICK c \in Categories :
          \/ ReadOnly(s, Status("NotFoundError"))
          \/ \E i \in Ids : /\ c \in things /\ Live(i)
                            /\ ReadThenWrite(s, Request("map", i, Nothing, c), MappedTo(c))
          \/ ReadThenWrite(s, Request("unmap", Nothing, Nothing, c), MappedTo(c))
    BY <1>6 DEF SetMapping
  <2>2. table = "user_categories" /\ MappedTo(c) \in Ids \cup {Nothing}
    <3>1. table = "user_categories"
      BY <1>6, ZenonT(30) DEF SetMapping
    <3>2. TablesTyped
      BY <1>1
    <3>3. MappedTo(c) \in Ids \cup {Nothing}
      <4>1. MappedSomewhere(c)
        BY <3>2, MappedKnown
      <4>2. QED
        BY <4>1, ZenonT(30) DEF MappedSomewhere
    <3>4. QED
      BY <3>1, <3>3, ZenonT(30)
  <2>3. CASE ReadOnly(s, Status("NotFoundError"))
    BY <1>1, <2>3, ReadOnlyStep
  <2>4. ASSUME NEW i \in Ids, c \in things, Live(i),
               ReadThenWrite(s, Request("map", i, Nothing, c), MappedTo(c))
        PROVE  NamesInv'
    <3> DEFINE q == Request("map", i, Nothing, c)
    <3>1. q.op = "map" /\ q.id = i /\ q.thing = c /\ q \in Requests
      BY DEF Request, Requests, WriteOps
    <3>2. AsksFor(q) /\ FoundFor(q, MappedTo(c))
      BY <2>2, <2>4, <3>1 DEF AsksFor, FoundFor, WriteOps
    <3>3. QED
      BY <1>1, <2>2, <2>4, <3>2, ReadThenWriteStep
  <2>5. CASE ReadThenWrite(s, Request("unmap", Nothing, Nothing, c), MappedTo(c))
    <3> DEFINE q == Request("unmap", Nothing, Nothing, c)
    <3>1. q.op = "unmap" /\ q.thing = c /\ q \in Requests
      BY DEF Request, Requests, WriteOps
    <3>2. AsksFor(q) /\ FoundFor(q, MappedTo(c))
      BY <2>2, <3>1 DEF AsksFor, FoundFor, WriteOps
    <3>3. QED
      BY <1>1, <2>2, <2>5, <3>2, ReadThenWriteStep
  <2>6. QED
    BY <2>1, <2>3, <2>4, <2>5
<1>7. QED
  BY <1>2, <1>3, <1>4, <1>5, <1>6

-----------------------------------------------------------------------------
(* Writes.                                                                 *)

\* A request that ends leaves the other sessions as they are.
LEMMA EndsWith ==
    ASSUME NamesInv, NEW s \in Sessions, pc[s] # "idle", NEW status \in {0} \cup Statuses,
           End(s, status), TablesTyped', Sound', Kept
    PROVE  NamesInv'
<1>1. SessionsTyped
  BY Parts
<1>2. /\ pc' = [pc EXCEPT ![s] = "idle"] /\ req' = [req EXCEPT ![s] = NoRequest]
      /\ saw' = [saw EXCEPT ![s] = Nothing] /\ todo' = [todo EXCEPT ![s] = <<>>]
      /\ held' = [held EXCEPT ![s] = {}] /\ answer' = [answer EXCEPT ![s] = status]
      /\ UNCHANGED <<table, overlapped>>
  BY DEF End
<1>3. /\ pc'[s] = "idle" /\ req'[s] = NoRequest /\ held'[s] = {} /\ todo'[s] = <<>>
      /\ OthersKeep(s)
  BY <1>1, <1>2 DEF SessionsTyped, OthersKeep
<1>4. SessionsTyped'
  <2>1. ASSUME NEW r \in Sessions
        PROVE  /\ pc'[r] = "idle" <=> req'[r] = NoRequest
               /\ pc'[r] \in {"idle", "write"} => held'[r] = {} /\ todo'[r] = <<>>
    BY <1>1, <1>3 DEF SessionsTyped, OthersKeep
  <2>2. <<>> \in Seq(Categories)
    OBVIOUS
  <2>3. QED
    BY <1>1, <1>2, <2>1, <2>2, NoRequestTyped DEF SessionsTyped
<1>5. Noticed(s)
  BY <1>2 DEF Noticed
<1>6. Local(s)'
  BY <1>3 DEF Local, Asks, Syncs, Alone, ParentsIn
<1>7. QED
  BY <1>2, <1>3, <1>4, <1>5, <1>6, OthersLocal, PartsNext

LEMMA EndsOnly ==
    ASSUME NamesInv, NEW s \in Sessions, pc[s] # "idle", NEW status \in {0} \cup Statuses,
           End(s, status), UNCHANGED dbVars
    PROVE  NamesInv'
<1>1. TablesTyped /\ Sound /\ UNCHANGED <<table, name, member, things>>
  BY Parts DEF dbVars
<1>2. TablesTyped' /\ Sound' /\ Kept
  BY <1>1 DEF TablesTyped, Sound, Live, ParentsIn, Kept
<1>3. QED
  BY <1>2, EndsWith

LEMMA CrashesStep ==
    ASSUME NamesInv, NEW s \in Sessions, pc[s] # "idle", Crashes(s)
    PROVE  NamesInv'
BY EndsOnly, StatusValues DEF Crashes

LEMMA CreateWriteStep ==
    ASSUME NamesInv, NEW s \in Sessions, CreateWrite(s)
    PROVE  NamesInv'
<1>1. TablesTyped /\ Sound /\ pc[s] # "idle" /\ req[s].name \in NameSet
  BY Parts DEF CreateWrite, Local, Asks, AsksFor
<1>2. CASE Crashes(s)
  BY <1>1, <1>2, CrashesStep
<1>3. CASE ~Crashes(s)
  <2>1. PICK i \in Ids : name[i] = Free /\ name' = [name EXCEPT ![i] = req[s].name]
    BY <1>3 DEF CreateWrite
  <2>2. ~Taken(req[s].name) /\ End(s, 200) /\ UNCHANGED <<table, member, things>>
    BY <1>3 DEF CreateWrite, End
  <2>3. TablesTyped'
    BY <1>1, <2>1, <2>2 DEF TablesTyped
  <2>4. \A k \in Ids : name'[k] = IF k = i THEN req[s].name ELSE name[k]
    BY <1>1, <2>1 DEF TablesTyped
  <2>5. \A k \in Ids : Live(k)' <=> Live(k) \/ k = i
    BY <1>1, <2>4, NamesNotSpecial DEF Live
  <2>6. ~Live(i)
    BY <2>1 DEF Live
  <2>7. \A j, k \in Ids : Live(j)' /\ name'[j] = name'[k] => j = k
    BY <1>1, <2>2, <2>4, <2>5 DEF Sound, Taken
  <2>8. Sound'
    BY <1>1, <2>2, <2>5, <2>7 DEF Sound, TablesTyped, ParentsIn
  <2>9. QED
    BY <1>1, <2>2, <2>3, <2>8, EndsWith, StatusValues DEF Kept
<1>4. QED
  BY <1>2, <1>3

LEMMA RenameWriteStep ==
    ASSUME NamesInv, NEW s \in Sessions, RenameWrite(s)
    PROVE  NamesInv'
<1> DEFINE i == req[s].id
           n == req[s].name
<1>1. TablesTyped /\ Sound /\ pc[s] # "idle" /\ n \in NameSet /\ i \in Ids
  BY Parts DEF RenameWrite, Local, Asks, AsksFor
<1>2. CASE Crashes(s)
  BY <1>1, <1>2, CrashesStep
<1>3. CASE UNCHANGED dbVars /\ (End(s, 200) \/ End(s, Status("ConflictError")))
  BY <1>1, <1>3, EndsOnly, StatusValues
<1>4. CASE /\ Live(i) /\ (~Taken(n) \/ name[i] = n)
           /\ name' = [name EXCEPT ![i] = n]
           /\ End(s, 200)
           /\ UNCHANGED <<member, things>>
  <2>1. table' = table
    BY <1>4 DEF End
  <2> HIDE DEF i, n
  <2>2. TablesTyped'
    BY <1>1, <1>4, <2>1 DEF TablesTyped
  <2>3. \A k \in Ids : name'[k] = IF k = i THEN n ELSE name[k]
    BY <1>1, <1>4 DEF TablesTyped
  <2>4. \A k \in Ids : Live(k)' <=> Live(k)
    BY <1>1, <1>4, <2>3, NamesNotSpecial DEF Live
  <2>5. \A j, k \in Ids : Live(j)' /\ name'[j] = name'[k] => j = k
    BY <1>1, <1>4, <2>3, <2>4 DEF Sound, Taken
  <2>6. Sound'
    BY <1>1, <1>4, <2>1, <2>4, <2>5 DEF Sound, TablesTyped, ParentsIn
  <2>7. QED
    BY <1>1, <1>4, <2>2, <2>6, EndsWith, StatusValues DEF Kept
<1>5. QED
  BY <1>2, <1>3, <1>4 DEF RenameWrite

LEMMA DeleteWriteStep ==
    ASSUME NamesInv, NEW s \in Sessions, DeleteWrite(s)
    PROVE  NamesInv'
<1> DEFINE i == req[s].id
<1>1. TablesTyped /\ Sound /\ pc[s] # "idle" /\ i \in Ids
  BY Parts DEF DeleteWrite, Local, Asks, AsksFor
<1>2. /\ name' = [name EXCEPT ![i] = Gone] /\ member' = {m \in member : m[2] # i}
      /\ End(s, 200) /\ UNCHANGED <<table, things>>
  BY DEF DeleteWrite, End
<1> HIDE DEF i
<1>3. TablesTyped'
  BY <1>1, <1>2 DEF TablesTyped
<1>4. \A k \in Ids : name'[k] = IF k = i THEN Gone ELSE name[k]
  BY <1>1, <1>2 DEF TablesTyped
<1>5. \A k \in Ids : Live(k)' <=> Live(k) /\ k # i
  BY <1>4 DEF Live
<1>6. Sound'
  <2>1. \A j, k \in Ids : Live(j)' /\ name'[j] = name'[k] => j = k
    <3> SUFFICES ASSUME NEW j \in Ids, NEW k \in Ids, Live(j)', name'[j] = name'[k]
                 PROVE  j = k
      OBVIOUS
    <3>1. k # i
      BY <1>4 DEF Live
    <3>2. Live(j) /\ name[j] = name[k]
      BY <1>4, <1>5, <3>1
    <3>3. QED
      BY <1>1, <3>2 DEF Sound
  <2>2. \A m \in member' : Live(m[2])' /\ m[1] \in things'
    BY <1>1, <1>2, <1>5 DEF Sound, TablesTyped
  <2>3. QED
    BY <1>1, <1>2, <2>1, <2>2 DEF Sound, ParentsIn
<1>7. QED
  BY <1>1, <1>2, <1>3, <1>6, EndsWith, StatusValues DEF Kept

\* A write of the member table alone.
LEMMA MembersStep ==
    ASSUME NamesInv, NEW s \in Sessions, pc[s] # "idle", NEW status \in {0} \cup Statuses,
           End(s, status), UNCHANGED <<name, things>>,
           \A m \in member' :
             \/ m \in member
             \/ m[1] \in things /\ m[2] \in Ids /\ Live(m[2]) /\ m = <<m[1], m[2]>>,
           table = "user_categories" => \A m, k \in member' : m[1] = k[1] => m = k
    PROVE  NamesInv'
<1>1. TablesTyped /\ Sound /\ table' = table
  BY Parts DEF End
<1>2. TablesTyped'
  BY <1>1 DEF TablesTyped
<1>3. Sound' /\ Kept
  BY <1>1 DEF Sound, Live, ParentsIn, Kept
<1>4. QED
  BY <1>2, <1>3, EndsWith

LEMMA AssignWriteSteps ==
    ASSUME NamesInv, NEW s \in Sessions, AssignWrite(s) \/ UnassignWrite(s)
    PROVE  NamesInv'
<1> DEFINE t == req[s].thing
           i == req[s].id
<1>1. TablesTyped /\ Sound /\ pc[s] # "idle" /\ i \in Ids /\ table = "labels"
  BY Parts DEF AssignWrite, UnassignWrite, Local, Asks, AsksFor
<1>2. CASE Crashes(s)
  BY <1>1, <1>2, CrashesStep
<1>3. CASE /\ t \in things /\ Live(i)
           /\ member' = member \cup {<<t, i>>}
           /\ End(s, 200) /\ UNCHANGED <<name, things>>
  BY <1>1, <1>3, MembersStep, StatusValues
<1>4. CASE UnassignWrite(s)
  <2>1. PICK status \in {200, 500} : End(s, status)
    BY <1>4, StatusValues DEF UnassignWrite
  <2>2. member' \subseteq member /\ UNCHANGED <<name, things>>
    BY <1>4 DEF UnassignWrite
  <2>3. QED
    BY <1>1, <2>1, <2>2, MembersStep, StatusValues
<1>5. QED
  BY <1>2, <1>3, <1>4 DEF AssignWrite

LEMMA MappingWriteSteps ==
    ASSUME NamesInv, NEW s \in Sessions, SetMappingWrite(s) \/ RemoveMappingWrite(s)
    PROVE  NamesInv'
<1> DEFINE c == req[s].thing
           i == req[s].id
<1>1. TablesTyped /\ Sound /\ pc[s] # "idle" /\ table = "user_categories"
  BY Parts DEF SetMappingWrite, RemoveMappingWrite, Local, Asks, AsksFor
<1>2. CASE Crashes(s)
  BY <1>1, <1>2, CrashesStep
<1>3. CASE End(s, 200) /\ UNCHANGED dbVars
  BY <1>1, <1>3, EndsOnly, StatusValues
<1>4. CASE /\ SetMappingWrite(s) /\ Live(i)
           /\ member' = {m \in member : m[1] # c} \cup {<<c, i>>}
           /\ End(s, 200) /\ UNCHANGED <<name, things>>
  <2>1. i \in Ids /\ c \in things
    BY <1>4, Parts DEF SetMappingWrite, Local, Asks, AsksFor
  <2> HIDE DEF c, i
  <2>2. \A m, k \in member' : m[1] = k[1] => m = k
    BY <1>1, <1>4 DEF Sound
  <2>3. QED
    BY <1>1, <1>4, <2>1, <2>2, MembersStep, StatusValues
<1>5. CASE RemoveMappingWrite(s)
  <2>1. member' \subseteq member /\ UNCHANGED <<name, things>> /\ End(s, 200)
    BY <1>5 DEF RemoveMappingWrite
  <2>2. \A m, k \in member' : m[1] = k[1] => m = k
    BY <1>1, <2>1 DEF Sound
  <2>3. QED
    BY <1>1, <2>1, <2>2, MembersStep, StatusValues
<1>6. QED
  BY <1>2, <1>3, <1>4, <1>5 DEF SetMappingWrite

-----------------------------------------------------------------------------
(* Syncs, and the removal of a transaction.                                *)

LEMMA SyncStartsStep ==
    ASSUME NamesInv, NEW s \in Sessions, SyncStarts(s)
    PROVE  NamesInv'
<1> DEFINE q == Request("sync", Nothing, Nothing, NoThing)
<1>1. TablesTyped /\ SessionsTyped /\ Sound /\ pc[s] = "idle" /\ Begins(s)
      /\ table = "user_categories"
  BY Parts DEF SyncStarts
<1>2. PICK w \in Windows : todo' = [todo EXCEPT ![s] = w]
  BY DEF SyncStarts
<1>3. /\ UNCHANGED <<table, name, member, things>> /\ UNCHANGED <<saw, held>>
      /\ pc' = [pc EXCEPT ![s] = "lookup"] /\ req' = [req EXCEPT ![s] = q]
      /\ answer' = [answer EXCEPT ![s] = 0]
  BY DEF SyncStarts, dbVars
<1>4. q \in Requests /\ q.op = "sync" /\ q # NoRequest
  BY NoRequestTyped DEF Request, Requests
<1> HIDE DEF q
<1>5. w \in Seq(Categories)
  BY NamesAssumption
<1>6. /\ pc'[s] = "lookup" /\ req'[s] = q /\ held'[s] = {} /\ OthersKeep(s) /\ Kept
  BY <1>1, <1>2, <1>3, <1>4 DEF SessionsTyped, OthersKeep, Kept
<1>7. TablesTyped' /\ Sound'
  BY <1>1, <1>3 DEF TablesTyped, Sound, Live, ParentsIn
<1>8. SessionsTyped'
  <2>1. ASSUME NEW r \in Sessions
        PROVE  /\ pc'[r] = "idle" <=> req'[r] = NoRequest
               /\ pc'[r] \in {"idle", "write"} => held'[r] = {} /\ todo'[r] = <<>>
    BY <1>1, <1>4, <1>6 DEF SessionsTyped, OthersKeep
  <2>2. QED
    BY <1>1, <1>2, <1>3, <1>4, <1>5, <2>1, BeginsTyped DEF SessionsTyped
<1>9. Asks(s)' /\ Syncs(s)'
  BY <1>1, <1>3, <1>4, <1>6 DEF Asks, Syncs, ParentsIn
<1>10. Alone(s)'
  BY <1>1, <1>6, BeginsTyped DEF Alone, Found, OthersKeep
<1>11. QED
  BY <1>1, <1>3, <1>6, <1>7, <1>8, <1>9, <1>10, BeginsTyped, OthersLocal, PartsNext DEF Local

\* A sync that goes on from pc "lookup" or "insert" writes nothing others see.
LEMMA SyncGoesOn ==
    ASSUME NamesInv, NEW s \in Sessions, pc[s] \in {"lookup", "insert"},
           NEW at \in {"lookup", "insert"}, pc' = [pc EXCEPT ![s] = at],
           NEW rest \in Seq(Categories), todo' = [todo EXCEPT ![s] = rest],
           NEW more \in SUBSET Categories, held' = [held EXCEPT ![s] = more],
           held[s] \subseteq more, ParentsIn(more, things \cup more),
           at = "insert" =>
             /\ rest # <<>> /\ ParentsIn({Head(rest)}, things \cup more)
             /\ Head(rest) \notin things,
           UNCHANGED <<dbVars, req, saw, overlapped, answer>>
    PROVE  NamesInv'
<1>1. TablesTyped /\ SessionsTyped /\ Sound /\ UNCHANGED <<table, name, member, things>>
  BY Parts DEF dbVars
<1>2. /\ pc'[s] = at /\ todo'[s] = rest /\ held'[s] = more /\ OthersKeep(s) /\ Kept
  BY <1>1 DEF SessionsTyped, OthersKeep, Kept
<1>3. TablesTyped' /\ Sound'
  BY <1>1 DEF TablesTyped, Sound, Live, ParentsIn
<1>4. SessionsTyped'
  <2>1. ASSUME NEW r \in Sessions
        PROVE  /\ pc'[r] = "idle" <=> req'[r] = NoRequest
               /\ pc'[r] \in {"idle", "write"} => held'[r] = {} /\ todo'[r] = <<>>
    BY <1>1, <1>2 DEF SessionsTyped, OthersKeep
  <2>2. QED
    BY <1>1, <2>1 DEF SessionsTyped
<1>5. Local(s) /\ Noticed(s)
  BY Parts DEF Noticed
<1>6. Asks(s)' /\ Syncs(s)'
  BY <1>1, <1>2, <1>5 DEF Local, Asks, Syncs
<1>7. Alone(s)'
  <2>1. \A r \in Sessions \ {s} : pc'[r] = pc[r]
    BY <1>2 DEF OthersKeep
  <2>2. Found(s)'
    BY <1>1, <1>2 DEF Found
  <2>3. QED
    BY <1>5, <2>1, <2>2 DEF Local, Alone
<1>8. QED
  BY <1>1, <1>2, <1>3, <1>4, <1>5, <1>6, <1>7, OthersLocal, PartsNext DEF Local

LEMMA LookupStep ==
    ASSUME NamesInv, NEW s \in Sessions, Lookup(s)
    PROVE  NamesInv'
<1> DEFINE path == Head(todo[s])
           known == things \cup held[s]
           next == Wanted(path, known)
<1>1. /\ SessionsTyped /\ pc[s] = "lookup" /\ todo[s] # <<>> /\ todo[s] \in Seq(Categories)
      /\ UNCHANGED <<dbVars, req, saw, overlapped, answer>> /\ held' = held
  BY Parts DEF Lookup, SessionsTyped
<1>2. /\ path \in Categories /\ Tail(todo[s]) \in Seq(Categories)
      /\ <<path[1]>> \in Categories /\ next \in Categories
  <2>1. path \in Categories /\ Tail(todo[s]) \in Seq(Categories)
    BY <1>1
  <2>2. <<path[1]>> \in Categories
    BY <2>1, NamesAssumption
  <2>3. next \in Categories
    BY <2>1, <2>2 DEF Wanted
  <2>4. QED
    BY <2>1, <2>2, <2>3
<1>3. ParentsIn(held[s], known) /\ held[s] \in SUBSET Categories
      /\ held' = [held EXCEPT ![s] = held[s]]
  BY <1>1, Parts DEF Local, Syncs, SessionsTyped
<1>4. CASE next \in known /\ todo' = [todo EXCEPT ![s] = Tail(@)] /\ UNCHANGED pc
  <2>1. pc' = [pc EXCEPT ![s] = "lookup"]
    BY <1>1, <1>4 DEF SessionsTyped
  <2>2. todo' = [todo EXCEPT ![s] = Tail(todo[s])]
    BY <1>4
  <2> HIDE DEF next
  <2>3. QED
    BY <1>1, <1>2, <1>3, <2>1, <2>2, SyncGoesOn
<1>5. CASE /\ next \notin known
           /\ todo' = [todo EXCEPT ![s] = IF next = path THEN @ ELSE <<next>> \o @]
           /\ pc' = [pc EXCEPT ![s] = "insert"]
  <2> DEFINE rest == IF next = path THEN todo[s] ELSE <<next>> \o todo[s]
  <2>1. rest \in Seq(Categories) /\ rest # <<>> /\ Head(rest) = next
    BY <1>1, <1>2
  <2>2. ParentsIn({next}, known)
    <3>1. CASE <<path[1]>> \in known
      BY <3>1 DEF Wanted, ParentsIn
    <3>2. CASE <<path[1]>> \notin known
      BY <3>2 DEF Wanted, ParentsIn
    <3>3. QED
      BY <3>1, <3>2
  <2>3. todo' = [todo EXCEPT ![s] = rest]
    BY <1>5
  <2> HIDE DEF next, rest
  <2>4. ParentsIn({Head(rest)}, known) /\ Head(rest) \notin things
    BY <1>5, <2>1, <2>2
  <2>5. QED
    BY <1>1, <1>3, <1>5, <2>1, <2>3, <2>4, SyncGoesOn
<1>6. QED
  BY <1>4, <1>5 DEF Lookup

LEMMA InsertStep ==
    ASSUME NamesInv, NEW s \in Sessions, InsertCategory(s)
    PROVE  NamesInv'
<1> DEFINE path == Head(todo[s])
           more == held[s] \cup {path}
<1>1. SessionsTyped /\ pc[s] = "insert"
  BY Parts DEF InsertCategory
<1>2. CASE Crashes(s)
  BY <1>1, <1>2, CrashesStep
<1>3. CASE ~Crashes(s)
  <2>1. /\ held' = [held EXCEPT ![s] = more] /\ todo' = [todo EXCEPT ![s] = Tail(todo[s])]
        /\ pc' = [pc EXCEPT ![s] = "lookup"]
        /\ UNCHANGED <<dbVars, req, saw, overlapped, answer>>
    BY <1>3 DEF InsertCategory
  <2>2. /\ todo[s] # <<>> /\ todo[s] \in Seq(Categories) /\ held[s] \subseteq Categories
        /\ ParentsIn(held[s], things \cup held[s]) /\ ParentsIn({path}, things \cup held[s])
    BY <1>1, Parts DEF Local, Syncs, SessionsTyped
  <2>3. path \in Categories /\ Tail(todo[s]) \in Seq(Categories) /\ more \in SUBSET Categories
    BY <2>2
  <2>4. ParentsIn(more, things \cup more)
    BY <2>2 DEF ParentsIn
  <2> HIDE DEF more
  <2>5. held[s] \subseteq more
    BY DEF more
  <2>6. QED
    BY <1>1, <2>1, <2>3, <2>4, <2>5, SyncGoesOn
<1>4. QED
  BY <1>2, <1>3

LEMMA SyncCommitsStep ==
    ASSUME NamesInv, NEW s \in Sessions, SyncCommits(s)
    PROVE  NamesInv'
<1>1. TablesTyped /\ SessionsTyped /\ Sound /\ pc[s] = "lookup" /\ Local(s)
  BY Parts DEF SyncCommits
<1>2. /\ things' = things \cup held[s] /\ End(s, 200) /\ UNCHANGED <<table, name, member>>
      /\ table = "user_categories" /\ held[s] \subseteq Categories
  BY <1>1 DEF SyncCommits, End, Local, Syncs, SessionsTyped
<1>3. TablesTyped' /\ Kept
  BY <1>1, <1>2 DEF TablesTyped, Kept
<1>4. ParentsIn(things', things')
  BY <1>1, <1>2 DEF Sound, Local, Syncs, ParentsIn
<1>5. Sound'
  BY <1>1, <1>2, <1>4 DEF Sound, Live
<1>6. QED
  BY <1>1, <1>2, <1>3, <1>5, EndsWith, StatusValues

\* Only labels lose a transaction, and whoever is under way is told.
LEMMA RemovedStep ==
    ASSUME NamesInv, TransactionRemoved
    PROVE  NamesInv'
<1>1. TablesTyped /\ SessionsTyped /\ Sound
  BY Parts
<1>2. PICK t \in things : things' = things \ {t} /\ member' = {m \in member : m[1] # t}
  BY DEF TransactionRemoved
<1>3. /\ table = "labels" /\ UNCHANGED <<table, name, pc, req, saw, todo, held, answer>>
      /\ overlapped' = [s \in Sessions |-> overlapped[s] \/ pc[s] # "idle"]
  BY DEF TransactionRemoved
<1>4. TablesTyped' /\ SessionsTyped'
  BY <1>1, <1>2, <1>3 DEF TablesTyped, SessionsTyped
<1>5. Sound'
  BY <1>1, <1>2, <1>3 DEF Sound, Live
<1>6. ASSUME NEW s \in Sessions PROVE Local(s)'
  <2>1. Local(s) /\ pc[s] \in {"idle", "write"} /\ held[s] = {}
    BY <1>1, <1>3, Parts DEF Local, Syncs, SessionsTyped
  <2>2. Asks(s)'
    BY <1>3, <2>1 DEF Local, Asks, AsksFor
  <2>3. Syncs(s)' /\ Alone(s)'
    BY <1>3, <2>1 DEF Syncs, Alone, ParentsIn
  <2>4. QED
    BY <2>2, <2>3 DEF Local
<1>7. QED
  BY <1>4, <1>5, <1>6, PartsNext

-----------------------------------------------------------------------------
(* Next, and the theorems.                                                 *)

LEMMA Stutter == NamesInv /\ UNCHANGED vars => NamesInv'
<1> SUFFICES ASSUME NamesInv, UNCHANGED vars PROVE NamesInv'
  OBVIOUS
<1>1. /\ UNCHANGED <<table, name, member, things>>
      /\ UNCHANGED <<pc, req, saw, todo, held, overlapped, answer>>
  BY DEF vars, dbVars
<1>2. TablesTyped /\ SessionsTyped /\ Sound
  BY Parts
<1>3. TablesTyped' /\ SessionsTyped' /\ Sound'
  BY <1>1, <1>2 DEF TablesTyped, SessionsTyped, Sound, Live, ParentsIn
<1>4. ASSUME NEW s \in Sessions PROVE Local(s)'
  <2>1. Local(s)
    BY Parts
  <2>2. Asks(s)' /\ Syncs(s)'
    BY <1>1, <2>1 DEF Local, Asks, AsksFor, Syncs, ParentsIn
  <2>3. MappedTo(req[s].thing)' = MappedTo(req[s].thing)
    BY <1>1, Zenon DEF MappedTo
  <2>4. Alone(s)'
    BY <1>1, <2>1, <2>3 DEF Local, Alone, Found, FoundFor, Taken, Live
  <2>5. QED
    BY <2>2, <2>4 DEF Local
<1>5. QED
  BY <1>3, <1>4, PartsNext

LEMMA NextInv == NamesInv /\ [Next]_vars => NamesInv'
<1> SUFFICES ASSUME NamesInv, [Next]_vars PROVE NamesInv'
  OBVIOUS
<1>1. ASSUME NEW s \in Sessions, Read(s) PROVE NamesInv'
  BY <1>1, ReadSteps, SyncStartsStep DEF Read
<1>2. ASSUME NEW s \in Sessions, Write(s) PROVE NamesInv'
  BY <1>2, CreateWriteStep, RenameWriteStep, DeleteWriteStep, AssignWriteSteps,
     MappingWriteSteps DEF Write
<1>3. ASSUME NEW s \in Sessions, SyncStep(s) PROVE NamesInv'
  <2>1. CASE DeadlockVictim(s)
    <3>1. pc[s] # "idle" /\ Crashes(s)
      BY <2>1 DEF DeadlockVictim, BlockedBy
    <3>2. QED
      BY <3>1, CrashesStep
  <2>2. QED
    BY <1>3, <2>1, LookupStep, InsertStep, SyncCommitsStep DEF SyncStep
<1>4. ASSUME NEW s \in Sessions, Crash(s) PROVE NamesInv'
  BY <1>4, EndsOnly, StatusValues DEF Crash
<1>5. CASE TransactionRemoved
  BY <1>5, RemovedStep
<1>6. CASE UNCHANGED vars
  BY <1>6, Stutter
<1>7. QED
  BY <1>1, <1>2, <1>3, <1>4, <1>5, <1>6 DEF Next

LEMMA Inductive == Spec => []NamesInv
BY InitInv, NextInv, PTL DEF Spec

\* Invariant: TypeOK, names are unique, members are of rows that exist, a
\* Plaid category has one user category at most and its parent is there
\* (the unique and foreign keys, and CategoryResolver).
THEOREM TablesStaySound == Spec => []TablesSound
<1>1. NamesInv => TablesSound
  BY DEF NamesInv
<1>2. QED
  BY <1>1, Inductive, PTL

\* What a step answers: a session answers for itself only, an end with its
\* status, a read never with an internal error.
LEMMA EndAnswers ==
    ASSUME SessionsTyped, NEW r \in Sessions, NEW status, End(r, status), NEW s \in Sessions
    PROVE  answer'[s] = IF s = r THEN status ELSE answer[s]
BY DEF End, SessionsTyped

LEMMA ReadAnswers ==
    ASSUME NamesInv, NEW r \in Sessions, Read(r), NEW s \in Sessions
    PROVE  IF s = r THEN answer'[s] \in {0, 200, 404, 409} ELSE answer'[s] = answer[s]
<1>1. SessionsTyped
  BY Parts
<1>2. ASSUME NEW status \in {200, 404, 409}, ReadOnly(r, status)
      PROVE  IF s = r THEN answer'[s] \in {0, 200, 404, 409} ELSE answer'[s] = answer[s]
  BY <1>1, <1>2 DEF ReadOnly, SessionsTyped
<1>3. ASSUME NEW q, NEW found, ReadThenWrite(r, q, found)
      PROVE  IF s = r THEN answer'[s] \in {0, 200, 404, 409} ELSE answer'[s] = answer[s]
  BY <1>1, <1>3 DEF ReadThenWrite, SessionsTyped
<1>4. CASE SyncStarts(r)
  BY <1>1, <1>4 DEF SyncStarts, SessionsTyped
<1>5. CASE Create(r) \/ Rename(r)
  BY <1>2, <1>3, <1>5, StatusValues DEF Create, Rename
<1>6. CASE Delete(r) \/ Assign(r)
  <2>1. \/ ReadOnly(r, Status("NotFoundError")) \/ ReadOnly(r, 200)
        \/ \E q, found : ReadThenWrite(r, q, found)
    <3>1. CASE Delete(r)
      BY <3>1 DEF Delete
    <3>2. CASE Assign(r)
      BY <3>2 DEF Assign
    <3>3. QED
      BY <1>6, <3>1, <3>2
  <2>2. QED
    BY <1>2, <1>3, <2>1, StatusValues
<1>7. CASE SetMapping(r)
  BY <1>2, <1>3, <1>7, StatusValues DEF SetMapping
<1>8. QED
  BY <1>4, <1>5, <1>6, <1>7 DEF Read

\* A write ends its request, or the session's crash does.
LEMMA WriteEnds ==
    ASSUME NEW r \in Sessions, Write(r)
    PROVE  \E status : End(r, status)
BY DEF Write, CreateWrite, RenameWrite, DeleteWrite, AssignWrite, UnassignWrite,
       SetMappingWrite, RemoveMappingWrite, Crashes

LEMMA OthersAnswer ==
    ASSUME NamesInv, NEW r \in Sessions, NEW s \in Sessions, s # r,
           Read(r) \/ Write(r) \/ SyncStep(r) \/ Crash(r)
    PROVE  answer'[s] = answer[s]
<1>1. SessionsTyped
  BY Parts
<1>2. CASE Read(r)
  BY <1>2, ReadAnswers
<1>3. CASE Write(r)
  BY <1>1, <1>3, WriteEnds, EndAnswers
<1>4. CASE \E status : End(r, status)
  BY <1>1, <1>4, EndAnswers
<1>5. CASE UNCHANGED answer
  BY <1>5
<1>6. QED
  BY <1>2, <1>3, <1>4, <1>5
     DEF SyncStep, Lookup, InsertCategory, DeadlockVictim, SyncCommits, Crash, Crashes

\* A write that has been alone finds what its reads found.
LEMMA AloneWrites ==
    ASSUME NamesInv, NEW s \in Sessions, Write(s), ~overlapped[s]
    PROVE  answer'[s] # 500
<1>1. TablesTyped /\ SessionsTyped /\ pc[s] = "write" /\ Local(s)
  BY Parts DEF Write, CreateWrite, RenameWrite, DeleteWrite, AssignWrite, UnassignWrite,
               SetMappingWrite, RemoveMappingWrite
<1>2. FoundFor(req[s], saw[s])
  BY <1>1 DEF Local, Alone, Found
<1>3. ASSUME NEW status \in {200, 404, 409}, End(s, status) PROVE answer'[s] # 500
  BY <1>1, <1>3, EndAnswers
<1>4. CASE CreateWrite(s)
  BY <1>2, <1>3, <1>4 DEF CreateWrite, FoundFor
<1>5. CASE RenameWrite(s)
  BY <1>2, <1>3, <1>5, StatusValues DEF RenameWrite, FoundFor
<1>6. CASE DeleteWrite(s)
  BY <1>3, <1>6 DEF DeleteWrite
<1>7. CASE AssignWrite(s)
  BY <1>2, <1>3, <1>7 DEF AssignWrite, FoundFor
<1>8. CASE UnassignWrite(s)
  BY <1>2, <1>3, <1>8 DEF UnassignWrite, FoundFor
<1>9. CASE SetMappingWrite(s)
  BY <1>2, <1>3, <1>9 DEF SetMappingWrite, FoundFor
<1>10. CASE RemoveMappingWrite(s)
  BY <1>3, <1>10 DEF RemoveMappingWrite
<1>11. QED
  BY <1>4, <1>5, <1>6, <1>7, <1>8, <1>9, <1>10 DEF Write

\* Action property: whoever answers with an internal error has overlapped
\* with another request (the flushes outside the try of create_label,
\* assign_label and set_mapping, get_or_create of the resolver).
THEOREM AloneNoError == Spec => ErrorOnlyWhenOverlapped
<1>1. ASSUME NamesInv, [Next]_vars, NEW s \in Sessions, answer[s] # 500, answer'[s] = 500
      PROVE  overlapped'[s]
  <2>1. SessionsTyped /\ Local(s)
    BY <1>1, Parts
  <2>2. ~UNCHANGED answer
    BY <1>1
  <2>3. Read(s) \/ Write(s) \/ SyncStep(s) \/ Crash(s)
    <3>1. PICK r \in Sessions : Read(r) \/ Write(r) \/ SyncStep(r) \/ Crash(r)
      BY <1>1, <2>2 DEF Next, TransactionRemoved, vars
    <3>2. r = s
      BY <1>1, <3>1, OthersAnswer
    <3>3. QED
      BY <3>1, <3>2
  <2>4. ~Read(s)
    BY <1>1, ReadAnswers
  <2>5. CASE Write(s)
    <3>1. overlapped[s]
      BY <1>1, <2>5, AloneWrites
    <3>2. overlapped' = overlapped
      BY <2>5, WriteEnds DEF End
    <3>3. QED
      BY <3>1, <3>2
  <2>6. CASE SyncStep(s)
    <3>1. Crashes(s)
      <4>1. CASE SyncCommits(s)
        BY <1>1, <2>1, <4>1, EndAnswers DEF SyncCommits
      <4>2. QED
        BY <2>2, <2>6, <4>1 DEF SyncStep, Lookup, InsertCategory, DeadlockVictim
    <3>2. overlapped' = overlapped
      BY <3>1 DEF Crashes, End
    <3>3. SUFFICES ASSUME ~overlapped[s] PROVE FALSE
      BY <3>2
    <3>4. CASE InsertCategory(s)
      <4>1. pc[s] = "insert" /\ Head(todo[s]) \notin things
        BY <2>1, <3>3, <3>4 DEF InsertCategory, Local, Alone, Found
      <4>2. UNCHANGED answer
        BY <3>4, <4>1 DEF InsertCategory
      <4>3. QED
        BY <2>2, <4>2
    <3>5. CASE DeadlockVictim(s)
      <4>1. PICK r \in Sessions : BlockedBy(s, r) /\ BlockedBy(r, s)
        BY <3>5 DEF DeadlockVictim
      <4>2. r # s /\ pc[s] = "insert" /\ pc[r] = "insert"
        BY <4>1 DEF BlockedBy
      <4>3. QED
        BY <2>1, <3>3, <4>2 DEF Local, Alone
    <3>6. CASE SyncCommits(s)
      BY <1>1, <2>1, <3>6, EndAnswers DEF SyncCommits
    <3>7. QED
      BY <2>2, <2>6, <3>4, <3>5, <3>6 DEF SyncStep, Lookup
  <2>7. CASE Crash(s)
    BY <1>1, <2>1, <2>7, EndAnswers DEF Crash
  <2>8. QED
    BY <2>3, <2>4, <2>5, <2>6, <2>7
<1>2. NamesInv /\ [Next]_vars =>
        \A s \in Sessions : answer[s] # 500 /\ answer'[s] = 500 => overlapped'[s]
  BY <1>1
<1>3. QED
  BY <1>2, Inductive, PTL DEF Spec, ErrorOnlyWhenOverlapped

\* What a 200 promises of a write.
Done(s) ==
    LET q == req[s]
    IN  CASE q.op = "create"   -> \E i \in Ids : name[i] = Free /\ name'[i] = q.name
          [] q.op = "rename"   -> saw[s] = q.name \/ name'[q.id] = q.name
          [] q.op = "delete"   -> name'[q.id] = Gone
          [] q.op = "assign"   -> <<q.thing, q.id>> \in member'
          [] q.op = "unassign" -> <<q.thing, q.id>> \notin member'
          [] q.op = "map"      -> saw[s] = q.id \/ <<q.thing, q.id>> \in member'
          [] q.op = "unmap"    -> saw[s] = Nothing \/ \A i \in Ids : <<q.thing, i>> \notin member'

LEMMA WritesDone ==
    ASSUME NamesInv, NEW s \in Sessions, Write(s), answer'[s] = 200
    PROVE  Done(s)
<1>1. TablesTyped /\ SessionsTyped /\ pc[s] = "write" /\ AsksFor(req[s])
  BY Parts DEF Write, CreateWrite, RenameWrite, DeleteWrite, AssignWrite, UnassignWrite,
               SetMappingWrite, RemoveMappingWrite, Local, Asks
<1>2. ~Crashes(s) /\ ~End(s, 409)
  BY <1>1, EndAnswers, StatusValues DEF Crashes
<1>3. CASE CreateWrite(s)
  <2>1. req[s].op = "create"
    BY <1>3 DEF CreateWrite
  <2>2. PICK i \in Ids : name[i] = Free /\ name' = [name EXCEPT ![i] = req[s].name]
    BY <1>2, <1>3 DEF CreateWrite
  <2>3. name'[i] = req[s].name
    BY <1>1, <2>2 DEF TablesTyped
  <2>4. QED
    BY <2>1, <2>2, <2>3 DEF Done
<1>4. CASE RenameWrite(s)
  <2>1. req[s].op = "rename" /\ req[s].id \in Ids
    BY <1>1, <1>4 DEF RenameWrite, AsksFor
  <2>2. saw[s] = req[s].name \/ name' = [name EXCEPT ![req[s].id] = req[s].name]
    BY <1>2, <1>4, StatusValues DEF RenameWrite
  <2>3. saw[s] = req[s].name \/ name'[req[s].id] = req[s].name
    BY <1>1, <2>1, <2>2 DEF TablesTyped
  <2>4. QED
    BY <2>1, <2>3 DEF Done
<1>5. CASE DeleteWrite(s)
  <2>1. req[s].op = "delete" /\ req[s].id \in Ids /\ name' = [name EXCEPT ![req[s].id] = Gone]
    BY <1>1, <1>5 DEF DeleteWrite, AsksFor
  <2>2. QED
    BY <1>1, <2>1 DEF Done, TablesTyped
<1>6. CASE AssignWrite(s)
  <2>1. req[s].op = "assign" /\ member' = member \cup {<<req[s].thing, req[s].id>>}
    BY <1>2, <1>6 DEF AssignWrite
  <2>2. QED
    BY <2>1 DEF Done
<1>7. CASE UnassignWrite(s)
  BY <1>7 DEF UnassignWrite, Done
<1>8. CASE SetMappingWrite(s)
  <2>1. /\ req[s].op = "map"
        /\ \/ saw[s] = req[s].id
           \/ member' = {m \in member : m[1] # req[s].thing} \cup {<<req[s].thing, req[s].id>>}
    BY <1>2, <1>8 DEF SetMappingWrite
  <2>2. QED
    BY <2>1 DEF Done
<1>9. CASE RemoveMappingWrite(s)
  <2>1. /\ req[s].op = "unmap"
        /\ saw[s] = Nothing \/ member' = {m \in member : m[1] # req[s].thing}
    BY <1>9 DEF RemoveMappingWrite
  <2>2. QED
    BY <2>1 DEF Done
<1>10. QED
  BY <1>3, <1>4, <1>5, <1>6, <1>7, <1>8, <1>9 DEF Write

\* Action property: a write that is answered 200 has done what was asked for,
\* or its reads had found it done (the services of labels and user categories).
THEOREM AnswersAreTrue == Spec => AnswerTrue
<1>1. ASSUME NamesInv, [Next]_vars, NEW s \in Sessions, pc[s] = "write", answer'[s] = 200
      PROVE  Done(s)
  <2>1. SessionsTyped /\ answer[s] = 0
    BY <1>1, Parts DEF Local, Asks
  <2>2. ~UNCHANGED answer
    BY <1>1, <2>1
  <2>3. PICK r \in Sessions : Read(r) \/ Write(r) \/ SyncStep(r) \/ Crash(r)
    BY <1>1, <2>2 DEF Next, TransactionRemoved, vars
  <2>4. r = s
    BY <1>1, <2>1, <2>3, OthersAnswer
  <2>5. ~Read(s)
    BY <1>1 DEF Read, Create, Rename, Delete, Assign, SetMapping, SyncStarts
  <2>6. ~SyncStep(s)
    BY <1>1 DEF SyncStep, Lookup, InsertCategory, DeadlockVictim, BlockedBy, SyncCommits
  <2>7. ~Crash(s)
    BY <1>1, <2>1, EndAnswers DEF Crash
  <2>8. QED
    BY <1>1, <2>3, <2>4, <2>5, <2>6, <2>7, WritesDone
<1>2. NamesInv /\ [Next]_vars => \A s \in Sessions : pc[s] = "write" /\ answer'[s] = 200 => Done(s)
  BY <1>1
<1>3. QED
  BY <1>2, Inductive, PTL DEF Spec, AnswerTrue, Done

=============================================================================

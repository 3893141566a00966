--------------------------- MODULE ReceiptsProofs ---------------------------
(***************************************************************************)
(* Proofs about Receipts: rows and objects stay in step, and the limit on  *)
(* attachments is exceeded by no more than the overlap of requests.        *)
(*                                                                         *)
(* Neither follows from the tables alone.  What matters is whose hands an  *)
(* object is in: an upload's object has no row and is nobody else's until  *)
(* the commit, so no compensation and no sweep of another request can      *)
(* delete it under the row that is about to point at it.                   *)
(***************************************************************************)
EXTENDS Receipts, FiniteSetTheorems, TLAPS

\* What a session's place in the code says about its locals.
Local(s) ==
    /\ keys[s] \subseteq taken
    /\ pc[s] = "idle" => op[s] = "none" /\ ~fresh[s]
    /\ pc[s] \in {"idle", "create", "put"} => keys[s] = {}
    /\ pc[s] = "put" => op[s] = "image"
    /\ op[s] = "details" => keys[s] = {}
    /\ pc[s] \in {"put", "commit"} => rid[s] # 0
    /\ fresh[s] => pc[s] \in {"put", "commit"}

\* An uncommitted receipt means that there is none, and is the only one.
FreshAlone ==
    \A s \in Sessions : fresh[s] =>
      receipt = 0 /\ \A r \in Sessions \ {s} : ~fresh[r]

\* An uploaded object is there, has no row and is in no other hands.
UploadOwned ==
    \A s \in Sessions : pc[s] = "commit" =>
      /\ keys[s] \subseteq objects
      /\ \A k \in keys[s] : image[k] = 0
      /\ \A r \in Sessions \ {s} : keys[s] \cap keys[r] = {}

\* What is about to be deleted from storage has no row (that anybody was
\* told of).
DeletableUnrowed ==
    \A s \in Sessions : \A k \in keys[s] :
      /\ pc[s] = "undo" => image[k] = 0 \/ k \in hidden
      /\ pc[s] = "sweep" => image[k] = 0

RowsTaken == \A k \in Keys : image[k] # 0 => k \in taken

ObjInv ==
    /\ NoDanglingRow
    /\ NoStrayObject
    /\ RowsTaken
    /\ \A s \in Sessions : Local(s)
    /\ FreshAlone
    /\ UploadOwned
    /\ DeletableUnrowed

\* Attachments, and uploads that may still add one.
Rowed == {k \in Keys : image[k] # 0}
Uploading == {s \in Sessions : pc[s] \in {"create", "put", "commit"}}

\* An upload is of one object.
OneEach ==
    \A s \in Sessions : pc[s] = "commit" =>
      keys[s] = {} \/ \E k \in Keys : keys[s] = {k}

\* With at most n uploads under way at a time.
CountInv(n) ==
    /\ OneEach
    /\ IsFiniteSet(Rowed)
    /\ Cardinality(Rowed) + Cardinality(Uploading) <= MaxImages + n - 1

AtMostUploading(n) == Cardinality(Uploading) <= n

-----------------------------------------------------------------------------
(* Rows and objects.                                                       *)

LEMMA InitObj == Init => ObjInv
<1> SUFFICES ASSUME Init PROVE ObjInv
  OBVIOUS
<1>1. TypeOK
  BY ReceiptsAssumption DEF Init, TypeOK, Ids
<1>2. NoDanglingRow /\ NoStrayObject /\ RowsTaken /\ FreshAlone
  BY <1>1 DEF Init, NoDanglingRow, NoStrayObject, RowsTaken, FreshAlone
<1>3. UploadOwned /\ DeletableUnrowed /\ \A s \in Sessions : Local(s)
  BY DEF Init, UploadOwned, DeletableUnrowed, Local
<1>4. QED
  BY <1>2, <1>3 DEF ObjInv

OthersKeep(s) ==
    \A r \in Sessions \ {s} :
      /\ pc'[r] = pc[r] /\ op'[r] = op[r] /\ rid'[r] = rid[r]
      /\ fresh'[r] = fresh[r] /\ keys'[r] = keys[r]

SessionsTyped ==
    /\ pc \in [Sessions -> {"idle", "create", "put", "commit", "undo", "delete", "sweep"}]
    /\ op \in [Sessions -> {"none", "image", "details"}]
    /\ rid \in [Sessions -> Ids]
    /\ fresh \in [Sessions -> BOOLEAN]
    /\ keys \in [Sessions -> SUBSET Keys]

TablesTyped ==
    /\ txn \in BOOLEAN
    /\ receipt \in Ids /\ lastId \in Ids
    /\ image \in [Keys -> Ids]
    /\ objects \subseteq taken
    /\ taken \subseteq Keys
    /\ excused \subseteq Keys /\ hidden \subseteq Keys
    /\ \A k \in Keys : image[k] # 0 => image[k] = receipt

LEMMA Typed == TypeOK <=> TablesTyped /\ SessionsTyped
BY DEF TypeOK, TablesTyped, SessionsTyped

LEMMA ObjTyped == ObjInv => TablesTyped /\ SessionsTyped
BY Typed DEF ObjInv, NoDanglingRow

LEMMA ZeroId == 0 \in Ids
BY ReceiptsAssumption DEF Ids

\* The end of a request leaves it nothing.
LEMMA Ends ==
    ASSUME SessionsTyped, NEW s \in Sessions, EndRequest(s)
    PROVE  /\ SessionsTyped' /\ OthersKeep(s) /\ Local(s)'
           /\ pc'[s] = "idle" /\ keys'[s] = {} /\ fresh'[s] = FALSE
<1>1. SessionsTyped' /\ OthersKeep(s)
  BY ZeroId DEF SessionsTyped, EndRequest, OthersKeep
<1>2. /\ pc'[s] = "idle" /\ op'[s] = "none" /\ rid'[s] = 0
      /\ fresh'[s] = FALSE /\ keys'[s] = {}
  BY DEF SessionsTyped, EndRequest
<1>3. QED
  BY <1>1, <1>2 DEF Local

\* The locals of the sessions that did not move.
LEMMA OthersLocal ==
    ASSUME \A r \in Sessions : Local(r), NEW s \in Sessions, OthersKeep(s), Local(s)',
           taken \subseteq taken'
    PROVE  \A r \in Sessions : Local(r)'
<1> SUFFICES ASSUME NEW r \in Sessions, r # s PROVE Local(r)'
  OBVIOUS
<1>1. /\ pc'[r] = pc[r] /\ op'[r] = op[r] /\ rid'[r] = rid[r]
      /\ fresh'[r] = fresh[r] /\ keys'[r] = keys[r]
  BY DEF OthersKeep
<1>2. QED
  BY <1>1 DEF Local

\* A step that changes neither rows nor objects: it may load rows to delete,
\* insert a receipt, or end.
LEMMA Quiet ==
    ASSUME ObjInv, NEW s \in Sessions, OthersKeep(s), SessionsTyped', Local(s)',
           UNCHANGED <<txn, receipt, image, objects, taken, hidden>>,
           lastId' \in Ids, excused \subseteq excused', excused' \subseteq Keys,
           \A k \in keys[s] : k \in keys'[s] \/ k \in excused'
                              \/ k \notin objects \/ image[k] # 0,
           \A k \in keys'[s] : k \in keys[s] \/ image[k] # 0,
           pc'[s] = "commit" => keys'[s] = {},
           \A k \in keys'[s] :
             /\ pc'[s] = "undo" => image[k] = 0 \/ k \in hidden
             /\ pc'[s] = "sweep" => image[k] = 0,
           fresh'[s] => receipt = 0 /\ \A r \in Sessions \ {s} : ~fresh[r]
    PROVE  ObjInv'
<1>1. TypeOK'
  BY ObjTyped, Typed DEF TablesTyped, TypeOK, SessionsTyped
<1>2. NoDanglingRow'
  BY <1>1 DEF ObjInv, NoDanglingRow
<1>3. NoStrayObject'
  <2> SUFFICES ASSUME NEW k \in objects, image[k] = 0, k \notin excused'
               PROVE  \E r \in Sessions : k \in keys'[r]
    BY DEF NoStrayObject
  <2>1. PICK r \in Sessions : k \in keys[r]
    BY DEF ObjInv, NoStrayObject
  <2>2. QED
    BY <2>1 DEF OthersKeep
<1>4. RowsTaken'
  BY DEF ObjInv, RowsTaken
<1>5. \A r \in Sessions : Local(r)'
  BY OthersLocal DEF ObjInv
<1>6. FreshAlone'
  BY DEF ObjInv, FreshAlone, OthersKeep
<1>7. UploadOwned'
  <2> SUFFICES ASSUME NEW r \in Sessions, pc'[r] = "commit"
               PROVE  /\ keys'[r] \subseteq objects
                      /\ \A k \in keys'[r] : image[k] = 0
                      /\ \A q \in Sessions \ {r} : keys'[r] \cap keys'[q] = {}
    BY DEF UploadOwned
  <2>1. CASE r = s
    BY <2>1
  <2>2. CASE r # s
    BY <2>2 DEF ObjInv, UploadOwned, OthersKeep
  <2>3. QED
    BY <2>1, <2>2
<1>8. DeletableUnrowed'
  BY DEF ObjInv, DeletableUnrowed, OthersKeep
<1>9. QED
  BY <1>2, <1>3, <1>4, <1>5, <1>6, <1>7, <1>8 DEF ObjInv

LEMMA BeginsUpload ==
    ASSUME ObjInv, NEW s \in Sessions, AddImage(s) \/ UpsertDetails(s)
    PROVE  ObjInv'
<1>1. SessionsTyped /\ TablesTyped /\ Local(s)
  BY ObjTyped DEF ObjInv
<1>2. pc[s] = "idle" /\ keys[s] = {} /\ ~fresh[s]
  BY <1>1 DEF AddImage, UpsertDetails, Local
<1>3. SessionsTyped' /\ OthersKeep(s)
  BY <1>1 DEF SessionsTyped, TablesTyped, AddImage, UpsertDetails, OthersKeep
<1>4. /\ keys'[s] = {} /\ ~fresh'[s] /\ pc'[s] \in {"create", "put"}
      /\ pc'[s] = "put" => op'[s] = "image" /\ rid'[s] # 0
  BY <1>1, <1>2 DEF SessionsTyped, AddImage, UpsertDetails
<1>5. Local(s)'
  BY <1>4 DEF Local
<1>6. /\ UNCHANGED <<txn, receipt, image, objects, taken, hidden, excused>>
      /\ lastId' \in Ids /\ excused \subseteq Keys
  BY <1>1 DEF AddImage, UpsertDetails, dbVars, TablesTyped
<1>7. QED
  BY <1>2, <1>3, <1>4, <1>5, <1>6, Quiet

LEMMA CreateReceiptObj ==
    ASSUME ObjInv, NEW s \in Sessions, CreateReceipt(s)
    PROVE  ObjInv'
<1>1. SessionsTyped /\ TablesTyped /\ Local(s)
  BY ObjTyped DEF ObjInv
<1>2. /\ pc[s] = "create" /\ keys[s] = {} /\ \A r \in Sessions : ~fresh[r]
      /\ UNCHANGED <<txn, receipt, image, objects, taken, hidden, excused>>
      /\ excused \subseteq Keys
  BY <1>1 DEF CreateReceipt, Local, TablesTyped
<1>3. CASE EndRequest(s) /\ UNCHANGED lastId
  <2>1. lastId' \in Ids
    BY <1>1, <1>3 DEF TablesTyped
  <2>2. /\ SessionsTyped' /\ OthersKeep(s) /\ Local(s)'
        /\ pc'[s] = "idle" /\ keys'[s] = {} /\ fresh'[s] = FALSE
    BY <1>1, <1>3, Ends
  <2>3. QED
    BY <1>2, <2>1, <2>2, Quiet
<1>4. CASE /\ receipt = 0 /\ lastId < MaxReceipts
           /\ lastId' = lastId + 1
           /\ rid' = [rid EXCEPT ![s] = lastId + 1]
           /\ fresh' = [fresh EXCEPT ![s] = TRUE]
           /\ pc' = [pc EXCEPT ![s] = IF op[s] = "image" THEN "put" ELSE "commit"]
           /\ UNCHANGED <<op, keys>>
  <2>1. lastId + 1 \in Ids /\ lastId + 1 # 0
    BY <1>1, <1>4, ReceiptsAssumption DEF TablesTyped, Ids
  <2>2. SessionsTyped' /\ OthersKeep(s)
    BY <1>1, <1>4, <2>1 DEF SessionsTyped, OthersKeep
  <2>3. /\ keys'[s] = {} /\ fresh'[s] /\ rid'[s] # 0 /\ op'[s] = op[s]
        /\ pc'[s] = IF op[s] = "image" THEN "put" ELSE "commit"
    BY <1>1, <1>2, <1>4, <2>1 DEF SessionsTyped
  <2>4. Local(s)'
    BY <2>3 DEF Local
  <2>5. QED
    BY <1>2, <1>4, <2>1, <2>2, <2>3, <2>4, Quiet
<1>5. QED
  BY <1>3, <1>4 DEF CreateReceipt

\* A new key is in nobody's hands yet.
LEMMA PutObjectObj ==
    ASSUME ObjInv, NEW s \in Sessions, PutObject(s)
    PROVE  ObjInv'
<1>1. SessionsTyped /\ TablesTyped /\ Local(s) /\ \A r \in Sessions : Local(r)
  BY ObjTyped DEF ObjInv
<1>2. /\ pc[s] = "put" /\ keys[s] = {}
      /\ UNCHANGED <<txn, receipt, lastId, image, op, rid, fresh, excused, hidden>>
  BY <1>1 DEF PutObject, Local, dbVars
<1>3. PICK k \in Keys \ taken :
        /\ taken' = taken \cup {k}
        /\ objects' = objects \cup {k}
        /\ keys' = [keys EXCEPT ![s] = {k}]
        /\ pc' = [pc EXCEPT ![s] = "commit"]
  BY DEF PutObject
<1>4. SessionsTyped' /\ OthersKeep(s)
  BY <1>1, <1>2, <1>3 DEF SessionsTyped, OthersKeep
<1>5. keys'[s] = {k} /\ pc'[s] = "commit"
  BY <1>1, <1>3 DEF SessionsTyped
<1>6. Local(s)'
  BY <1>1, <1>2, <1>3, <1>5 DEF Local
<1>7. image[k] = 0 /\ \A r \in Sessions : k \notin keys[r]
  BY <1>1, <1>3 DEF ObjInv, RowsTaken, Local
<1>8. TypeOK'
  BY <1>1, <1>2, <1>3, <1>4, Typed DEF TablesTyped, TypeOK, SessionsTyped
<1>9. NoDanglingRow' /\ RowsTaken'
  BY <1>2, <1>3, <1>8 DEF ObjInv, NoDanglingRow, RowsTaken
<1>10. NoStrayObject'
  <2> SUFFICES ASSUME NEW j \in objects', image[j] = 0, j \notin excused
               PROVE  \E r \in Sessions : j \in keys'[r]
    BY <1>2 DEF NoStrayObject
  <2>1. CASE j = k
    BY <1>5, <2>1
  <2>2. CASE j # k
    <3>1. PICK r \in Sessions : j \in keys[r]
      BY <1>3, <2>2 DEF ObjInv, NoStrayObject
    <3>2. QED
      BY <1>2, <1>4, <3>1 DEF OthersKeep
  <2>3. QED
    BY <2>1, <2>2
<1>11. \A r \in Sessions : Local(r)'
  BY <1>1, <1>3, <1>4, <1>6, OthersLocal
<1>12. FreshAlone'
  BY <1>2 DEF ObjInv, FreshAlone
<1>13. UploadOwned'
  <2> SUFFICES ASSUME NEW r \in Sessions, pc'[r] = "commit"
               PROVE  /\ keys'[r] \subseteq objects'
                      /\ \A j \in keys'[r] : image[j] = 0
                      /\ \A q \in Sessions \ {r} : keys'[r] \cap keys'[q] = {}
    BY <1>2 DEF UploadOwned
  <2>1. CASE r = s
    BY <1>3, <1>4, <1>5, <1>7, <2>1 DEF OthersKeep
  <2>2. CASE r # s
    <3>1. /\ keys[r] \subseteq objects /\ \A j \in keys[r] : image[j] = 0
          /\ \A q \in Sessions \ {r} : keys[r] \cap keys[q] = {}
          /\ keys'[r] = keys[r]
      BY <1>4, <2>2 DEF ObjInv, UploadOwned, OthersKeep
    <3>2. ASSUME NEW q \in Sessions \ {r} PROVE keys'[r] \cap keys'[q] = {}
      <4>1. CASE q = s
        BY <1>5, <1>7, <3>1, <4>1
      <4>2. CASE q # s
        BY <1>4, <3>1, <4>2 DEF OthersKeep
      <4>3. QED
        BY <4>1, <4>2
    <3>3. QED
      BY <1>3, <3>1, <3>2
  <2>3. QED
    BY <2>1, <2>2
<1>14. DeletableUnrowed'
  BY <1>2, <1>4, <1>5 DEF ObjInv, DeletableUnrowed, OthersKeep
<1>15. QED
  BY <1>9, <1>10, <1>11, <1>12, <1>13, <1>14 DEF ObjInv

\* An upload that raised leaves an object that is excused, or none.
LEMMA PutFailsObj ==
    ASSUME ObjInv, NEW s \in Sessions, PutFails(s)
    PROVE  ObjInv'
<1>1. SessionsTyped /\ TablesTyped /\ Local(s) /\ \A r \in Sessions : Local(r)
  BY ObjTyped DEF ObjInv
<1>2. /\ pc[s] = "put" /\ keys[s] = {} /\ EndRequest(s)
      /\ UNCHANGED <<txn, receipt, lastId, image, hidden>>
  BY <1>1 DEF PutFails, Local, dbVars
<1>3. PICK k \in Keys \ taken :
        /\ taken' = taken \cup {k}
        /\ \/ objects' = objects \cup {k} /\ excused' = excused \cup {k}
           \/ UNCHANGED <<objects, excused>>
  BY DEF PutFails
<1>4. /\ SessionsTyped' /\ OthersKeep(s) /\ Local(s)'
      /\ pc'[s] = "idle" /\ keys'[s] = {} /\ fresh'[s] = FALSE
  BY <1>1, <1>2, Ends
<1>5. /\ objects \subseteq objects' /\ excused \subseteq excused'
      /\ objects' \subseteq taken' /\ excused' \subseteq Keys
      /\ \A j \in objects' : j \in objects \/ j \in excused'
  BY <1>1, <1>3 DEF TablesTyped
<1>6. TypeOK'
  BY <1>1, <1>2, <1>3, <1>4, <1>5, Typed DEF TablesTyped, TypeOK, SessionsTyped
<1>7. NoDanglingRow' /\ RowsTaken'
  BY <1>2, <1>3, <1>5, <1>6 DEF ObjInv, NoDanglingRow, RowsTaken
<1>8. NoStrayObject'
  <2> SUFFICES ASSUME NEW j \in objects', image[j] = 0, j \notin excused'
               PROVE  \E r \in Sessions : j \in keys'[r]
    BY <1>2 DEF NoStrayObject
  <2>1. PICK r \in Sessions : j \in keys[r]
    BY <1>5 DEF ObjInv, NoStrayObject
  <2>2. QED
    BY <1>2, <1>4, <2>1 DEF OthersKeep
<1>9. \A r \in Sessions : Local(r)'
  BY <1>1, <1>3, <1>4, OthersLocal
<1>10. FreshAlone'
  BY <1>2, <1>4 DEF ObjInv, FreshAlone, OthersKeep
<1>11. UploadOwned'
  BY <1>2, <1>4, <1>5 DEF ObjInv, UploadOwned, OthersKeep
<1>12. DeletableUnrowed'
  BY <1>2, <1>4 DEF ObjInv, DeletableUnrowed, OthersKeep
<1>13. QED
  BY <1>7, <1>8, <1>9, <1>10, <1>11, <1>12 DEF ObjInv

\* The commit, whether or not the service learns of it: the object the new
\* row points at is there.
LEMMA Inserts ==
    ASSUME ObjInv, NEW s \in Sessions, pc[s] = "commit", ParentsExist(s),
           receipt' = rid[s],
           image' = [k \in Keys |-> IF k \in keys[s] THEN rid[s] ELSE image[k]],
           UNCHANGED <<txn, lastId, objects, taken, excused>>,
           OthersKeep(s), SessionsTyped', Local(s)', fresh'[s] = FALSE,
           hidden \subseteq hidden', hidden' \subseteq Keys,
           \/ keys'[s] = {} /\ pc'[s] # "commit"
           \/ keys'[s] = keys[s] /\ keys[s] \subseteq hidden' /\ pc'[s] = "undo"
    PROVE  ObjInv'
<1>1. SessionsTyped /\ TablesTyped /\ Local(s) /\ \A r \in Sessions : Local(r)
  BY ObjTyped DEF ObjInv
<1>2. rid[s] # 0 /\ rid[s] \in Ids /\ keys[s] \subseteq Keys
  BY <1>1 DEF Local, SessionsTyped
<1>3. \A k \in keys[s] : k \in objects /\ k \in taken
  BY <1>1 DEF ObjInv, UploadOwned, Local
<1>4. \A k \in Keys : image[k] # 0 => image[k] = rid[s]
  <2>1. CASE fresh[s]
    BY <1>1, <2>1 DEF ObjInv, FreshAlone, TablesTyped
  <2>2. CASE ~fresh[s]
    BY <1>1, <2>2 DEF ParentsExist, TablesTyped
  <2>3. QED
    BY <2>1, <2>2
<1>5. \A k \in Keys : image'[k] = IF k \in keys[s] THEN rid[s] ELSE image[k]
  OBVIOUS
<1>6. TypeOK'
  <2>1. TablesTyped'
    BY <1>1, <1>2, <1>4, <1>5 DEF TablesTyped
  <2>2. QED
    BY <2>1, Typed DEF TypeOK, TablesTyped, SessionsTyped
<1>7. NoDanglingRow' /\ RowsTaken'
  BY <1>3, <1>5, <1>6 DEF ObjInv, NoDanglingRow, RowsTaken
<1>8. NoStrayObject'
  <2> SUFFICES ASSUME NEW j \in objects, image'[j] = 0, j \notin excused
               PROVE  \E r \in Sessions : j \in keys'[r]
    BY DEF NoStrayObject
  <2>1. j \in Keys /\ j \notin keys[s] /\ image[j] = 0
    BY <1>1, <1>2, <1>5 DEF TablesTyped
  <2>2. PICK r \in Sessions : j \in keys[r]
    BY <2>1 DEF ObjInv, NoStrayObject
  <2>3. QED
    BY <2>1, <2>2 DEF OthersKeep
<1>9. \A r \in Sessions : Local(r)'
  BY <1>1, OthersLocal
<1>10. FreshAlone'
  <2> SUFFICES ASSUME NEW r \in Sessions, fresh'[r]
               PROVE  receipt' = 0 /\ \A q \in Sessions \ {r} : ~fresh'[q]
    BY DEF FreshAlone
  <2>1. r # s /\ fresh[r]
    BY DEF OthersKeep
  <2>2. receipt = 0 /\ ~fresh[s]
    BY <2>1 DEF ObjInv, FreshAlone
  <2>3. QED
    BY <1>2, <2>2 DEF ParentsExist
<1>11. \A r \in Sessions \ {s} : pc[r] = "commit" =>
         /\ keys[r] \subseteq objects
         /\ \A k \in keys[r] : image'[k] = 0
         /\ \A q \in Sessions \ {r} : keys[r] \cap keys[q] = {}
  <2>1. \A r \in Sessions \ {s} : keys[r] \subseteq Keys
    BY <1>1 DEF SessionsTyped
  <2>2. QED
    BY <1>5, <2>1 DEF ObjInv, UploadOwned
<1>12. UploadOwned'
  BY <1>11 DEF UploadOwned, OthersKeep
<1>13. DeletableUnrowed'
  <2> SUFFICES ASSUME NEW r \in Sessions, NEW k \in keys'[r]
               PROVE  /\ pc'[r] = "undo" => image'[k] = 0 \/ k \in hidden'
                      /\ pc'[r] = "sweep" => image'[k] = 0
    BY DEF DeletableUnrowed
  <2>1. CASE r = s
    BY <2>1
  <2>2. CASE r # s
    <3>1. k \in keys[r] /\ pc'[r] = pc[r] /\ k \in Keys
      BY <1>1, <2>2 DEF OthersKeep, SessionsTyped
    <3>2. k \notin keys[s]
      BY <2>2, <3>1 DEF ObjInv, UploadOwned
    <3>3. QED
      BY <1>5, <3>1, <3>2 DEF ObjInv, DeletableUnrowed
  <2>3. QED
    BY <2>1, <2>2
<1>14. QED
  BY <1>7, <1>8, <1>9, <1>10, <1>12, <1>13 DEF ObjInv

LEMMA CommitObj ==
    ASSUME ObjInv, NEW s \in Sessions, Commit(s)
    PROVE  ObjInv'
<1>1. SessionsTyped /\ TablesTyped /\ EndRequest(s)
  BY ObjTyped DEF Commit
<1>2. /\ SessionsTyped' /\ OthersKeep(s) /\ Local(s)'
      /\ pc'[s] = "idle" /\ keys'[s] = {} /\ fresh'[s] = FALSE
  BY <1>1, Ends
<1>3. hidden \subseteq hidden' /\ hidden' \subseteq Keys
  BY <1>1 DEF Commit, TablesTyped
<1>4. QED
  BY <1>2, <1>3, Inserts DEF Commit

LEMMA CommitFailsObj ==
    ASSUME ObjInv, NEW s \in Sessions, CommitFails(s)
    PROVE  ObjInv'
<1>1. SessionsTyped /\ TablesTyped /\ Local(s)
  BY ObjTyped DEF ObjInv
<1>2. pc[s] = "commit" /\ UNCHANGED <<txn, lastId, objects, taken, excused>>
      /\ keys[s] \subseteq Keys
  BY <1>1 DEF CommitFails, SessionsTyped
<1>3. \/ /\ op[s] = "image"
         /\ fresh' = [fresh EXCEPT ![s] = FALSE]
         /\ pc' = [pc EXCEPT ![s] = "undo"]
         /\ UNCHANGED <<op, rid, keys>>
      \/ /\ op[s] = "details"
         /\ EndRequest(s)
  BY DEF CommitFails
<1>4. /\ SessionsTyped' /\ OthersKeep(s) /\ Local(s)' /\ fresh'[s] = FALSE
      /\ \/ keys'[s] = {} /\ keys[s] = {} /\ pc'[s] = "idle"
         \/ keys'[s] = keys[s] /\ pc'[s] = "undo"
  <2>1. CASE EndRequest(s) /\ op[s] = "details"
    BY <1>1, <2>1, Ends DEF Local
  <2>2. CASE /\ op[s] = "image"
             /\ fresh' = [fresh EXCEPT ![s] = FALSE]
             /\ pc' = [pc EXCEPT ![s] = "undo"]
             /\ UNCHANGED <<op, rid, keys>>
    <3>1. SessionsTyped' /\ OthersKeep(s)
      BY <1>1, <2>2 DEF SessionsTyped, OthersKeep
    <3>2. fresh'[s] = FALSE /\ pc'[s] = "undo" /\ keys'[s] = keys[s] /\ op'[s] = "image"
      BY <1>1, <2>2 DEF SessionsTyped
    <3>3. Local(s)'
      BY <1>1, <1>2, <3>2 DEF Local
    <3>4. QED
      BY <3>1, <3>2, <3>3
  <2>3. QED
    BY <1>3, <2>1, <2>2
<1>5. CASE UNCHANGED <<receipt, image, hidden>>
  <2>1. lastId' \in Ids /\ excused \subseteq excused' /\ excused' \subseteq Keys
    BY <1>1, <1>2 DEF TablesTyped
  <2>2. \A k \in keys[s] : image[k] = 0
    BY <1>2 DEF ObjInv, UploadOwned
  <2>3. QED
    BY <1>2, <1>4, <1>5, <2>1, <2>2, Quiet
<1>6. CASE /\ ParentsExist(s)
           /\ receipt' = rid[s]
           /\ image' = [k \in Keys |-> IF k \in keys[s] THEN rid[s] ELSE image[k]]
           /\ hidden' = hidden \cup keys[s]
  <2>1. hidden \subseteq hidden' /\ hidden' \subseteq Keys /\ keys[s] \subseteq hidden'
    BY <1>1, <1>2, <1>6 DEF TablesTyped
  <2>2. QED
    BY <1>2, <1>4, <1>6, <2>1, Inserts
<1>7. QED
  BY <1>5, <1>6 DEF CommitFails

\* Objects that a compensation or a sweep deletes have no row, and are not
\* the upload of another request.
LEMMA Discards ==
    ASSUME ObjInv, NEW s \in Sessions, NEW D \in SUBSET keys[s],
           pc[s] \in {"undo", "sweep"}, objects' = objects \ D,
           UNCHANGED <<txn, receipt, lastId, image, taken, hidden>>,
           excused \subseteq excused', excused' \subseteq Keys,
           OthersKeep(s), SessionsTyped', Local(s)', ~fresh'[s],
           keys'[s] \subseteq keys[s],
           pc'[s] = "idle" \/ (pc[s] = "sweep" /\ pc'[s] = "sweep"),
           \A k \in keys[s] : k \in keys'[s] \/ k \in excused' \/ k \in D
    PROVE  ObjInv'
<1>1. SessionsTyped /\ TablesTyped /\ \A r \in Sessions : Local(r)
  BY ObjTyped DEF ObjInv
<1>2. \A k \in D : image[k] = 0 \/ k \in hidden
  BY DEF ObjInv, DeletableUnrowed
<1>3. TypeOK'
  BY <1>1, Typed DEF TablesTyped, TypeOK, SessionsTyped
<1>4. NoDanglingRow' /\ RowsTaken'
  BY <1>2, <1>3 DEF ObjInv, NoDanglingRow, RowsTaken
<1>5. NoStrayObject'
  <2> SUFFICES ASSUME NEW k \in objects', image[k] = 0, k \notin excused'
               PROVE  \E r \in Sessions : k \in keys'[r]
    BY DEF NoStrayObject
  <2>1. k \in objects /\ k \notin D
    OBVIOUS
  <2>2. PICK r \in Sessions : k \in keys[r]
    BY <2>1 DEF ObjInv, NoStrayObject
  <2>3. QED
    BY <2>1, <2>2 DEF OthersKeep
<1>6. \A r \in Sessions : Local(r)'
  BY <1>1, OthersLocal
<1>7. FreshAlone'
  BY DEF ObjInv, FreshAlone, OthersKeep
<1>8. UploadOwned'
  <2> SUFFICES ASSUME NEW r \in Sessions, pc'[r] = "commit"
               PROVE  /\ keys'[r] \subseteq objects'
                      /\ \A k \in keys'[r] : image[k] = 0
                      /\ \A q \in Sessions \ {r} : keys'[r] \cap keys'[q] = {}
    BY DEF UploadOwned
  <2>1. r # s
    OBVIOUS
  <2>2. /\ keys[r] \subseteq objects /\ \A k \in keys[r] : image[k] = 0
        /\ \A q \in Sessions \ {r} : keys[r] \cap keys[q] = {}
        /\ keys'[r] = keys[r]
    BY <2>1 DEF ObjInv, UploadOwned, OthersKeep
  <2>3. keys[r] \cap keys[s] = {}
    BY <2>1, <2>2
  <2>4. \A q \in Sessions : keys'[q] \subseteq keys[q]
    BY DEF OthersKeep
  <2>5. QED
    BY <2>2, <2>3, <2>4
<1>9. DeletableUnrowed'
  <2> SUFFICES ASSUME NEW r \in Sessions, NEW k \in keys'[r]
               PROVE  /\ pc'[r] = "undo" => image[k] = 0 \/ k \in hidden
                      /\ pc'[r] = "sweep" => image[k] = 0
    BY DEF DeletableUnrowed
  <2>1. CASE r = s
    BY <2>1 DEF ObjInv, DeletableUnrowed
  <2>2. CASE r # s
    BY <2>2 DEF ObjInv, DeletableUnrowed, OthersKeep
  <2>3. QED
    BY <2>1, <2>2
<1>10. QED
  BY <1>4, <1>5, <1>6, <1>7, <1>8, <1>9 DEF ObjInv

LEMMA UndoObj ==
    ASSUME ObjInv, NEW s \in Sessions, Undo(s)
    PROVE  ObjInv'
<1>1. SessionsTyped /\ TablesTyped /\ EndRequest(s) /\ keys[s] \subseteq Keys
  BY ObjTyped DEF Undo, SessionsTyped
<1>2. PICK D \in {{}, keys[s]} :
        /\ objects' = objects \ D
        /\ excused' = excused \cup (keys[s] \ D)
  <2>1. CASE objects' = objects \ keys[s] /\ UNCHANGED excused
    BY <2>1
  <2>2. CASE UNCHANGED objects /\ excused' = excused \cup keys[s]
    BY <2>2
  <2>3. QED
    BY <2>1, <2>2 DEF Undo
<1>3. /\ SessionsTyped' /\ OthersKeep(s) /\ Local(s)'
      /\ pc'[s] = "idle" /\ keys'[s] = {} /\ fresh'[s] = FALSE
  BY <1>1, Ends
<1>4. /\ UNCHANGED <<txn, receipt, lastId, image, taken, hidden>> /\ pc[s] = "undo"
      /\ excused \subseteq excused' /\ excused' \subseteq Keys /\ D \in SUBSET keys[s]
  BY <1>1, <1>2 DEF Undo, dbVars, TablesTyped
<1>5. QED
  BY <1>2, <1>3, <1>4, Discards

LEMMA SweepObjectObj ==
    ASSUME ObjInv, NEW s \in Sessions, SweepObject(s)
    PROVE  ObjInv'
<1>1. SessionsTyped /\ TablesTyped /\ Local(s) /\ keys[s] \subseteq Keys
  BY ObjTyped DEF ObjInv, SessionsTyped
<1>2. PICK k \in keys[s] :
        /\ \/ objects' = objects \ {k} /\ UNCHANGED excused
           \/ UNCHANGED objects /\ excused' = excused \cup {k}
        /\ keys' = [keys EXCEPT ![s] = @ \ {k}]
  BY DEF SweepObject
<1>3. PICK D \in {{}, {k}} :
        /\ objects' = objects \ D
        /\ excused' = excused \cup ({k} \ D)
  <2>1. CASE objects' = objects \ {k} /\ UNCHANGED excused
    BY <2>1
  <2>2. CASE UNCHANGED objects /\ excused' = excused \cup {k}
    BY <2>2
  <2>3. QED
    BY <1>2, <2>1, <2>2
<1>4. /\ UNCHANGED <<txn, receipt, lastId, image, taken, hidden, pc, op, rid, fresh>>
      /\ pc[s] = "sweep"
  BY DEF SweepObject, dbVars
<1>5. SessionsTyped' /\ OthersKeep(s) /\ keys'[s] = keys[s] \ {k}
  BY <1>1, <1>2, <1>4 DEF SessionsTyped, OthersKeep
<1>6. Local(s)' /\ ~fresh'[s]
  BY <1>1, <1>4, <1>5 DEF Local
<1>7. /\ excused \subseteq excused' /\ excused' \subseteq Keys /\ D \in SUBSET keys[s]
      /\ \A j \in keys[s] : j \in keys'[s] \/ j \in excused' \/ j \in D
  BY <1>1, <1>2, <1>3, <1>5 DEF TablesTyped
<1>8. QED
  BY <1>3, <1>4, <1>5, <1>6, <1>7, Discards

LEMMA LoadForDeleteObj ==
    ASSUME ObjInv, NEW s \in Sessions, LoadForDelete(s)
    PROVE  ObjInv'
<1>1. SessionsTyped /\ TablesTyped /\ Local(s)
  BY ObjTyped DEF ObjInv
<1>2. /\ pc[s] = "idle" /\ keys[s] = {} /\ ~fresh[s] /\ op[s] = "none"
      /\ UNCHANGED <<txn, receipt, lastId, image, objects, taken, op, fresh, excused, hidden>>
      /\ pc' = [pc EXCEPT ![s] = "delete"]
  BY <1>1 DEF LoadForDelete, Local, dbVars
<1>3. PICK ks \in SUBSET ImagesOf(receipt) : keys' = [keys EXCEPT ![s] = ks]
  BY DEF LoadForDelete
<1>4. \A k \in ks : k \in Keys /\ image[k] # 0 /\ k \in taken
  BY <1>3 DEF ImagesOf, ObjInv, RowsTaken
<1>5. rid' \in [Sessions -> Ids] /\ \A r \in Sessions \ {s} : rid'[r] = rid[r]
  <2>1. receipt \in Ids /\ rid \in [Sessions -> Ids]
    BY <1>1 DEF TablesTyped, SessionsTyped
  <2>2. rid' = rid \/ rid' = [rid EXCEPT ![s] = receipt]
    BY DEF LoadForDelete
  <2>3. QED
    BY <2>1, <2>2
<1>6. SessionsTyped' /\ OthersKeep(s) /\ pc'[s] = "delete" /\ keys'[s] = ks
  BY <1>1, <1>2, <1>3, <1>4, <1>5 DEF SessionsTyped, OthersKeep
<1>7. Local(s)'
  BY <1>2, <1>4, <1>6 DEF Local
<1>8. lastId' \in Ids /\ excused \subseteq excused' /\ excused' \subseteq Keys
  BY <1>1, <1>2 DEF TablesTyped
<1>9. QED
  BY <1>2, <1>4, <1>6, <1>7, <1>8, Quiet

LEMMA SweepDoneObj ==
    ASSUME ObjInv, NEW s \in Sessions, SweepDone(s)
    PROVE  ObjInv'
<1>1. SessionsTyped /\ TablesTyped
  BY ObjTyped
<1>2. /\ SessionsTyped' /\ OthersKeep(s) /\ Local(s)'
      /\ pc'[s] = "idle" /\ keys'[s] = {} /\ fresh'[s] = FALSE
  BY <1>1, Ends DEF SweepDone
<1>3. /\ UNCHANGED <<txn, receipt, image, objects, taken, hidden, excused>>
      /\ lastId' \in Ids /\ excused \subseteq Keys /\ keys[s] = {}
  BY <1>1 DEF SweepDone, dbVars, TablesTyped
<1>4. QED
  BY <1>2, <1>3, Quiet

LEMMA CrashObj ==
    ASSUME ObjInv, NEW s \in Sessions, Crash(s)
    PROVE  ObjInv'
<1>1. SessionsTyped /\ TablesTyped
  BY ObjTyped
<1>2. /\ SessionsTyped' /\ OthersKeep(s) /\ Local(s)'
      /\ pc'[s] = "idle" /\ keys'[s] = {} /\ fresh'[s] = FALSE
  BY <1>1, Ends DEF Crash
<1>3. /\ UNCHANGED <<txn, receipt, image, objects, taken, hidden>>
      /\ lastId' \in Ids /\ excused' = excused \cup keys[s]
      /\ excused' \subseteq Keys
  BY <1>1 DEF Crash, dbVars, TablesTyped, SessionsTyped
<1>4. QED
  BY <1>2, <1>3, Quiet

\* Rows go: with the receipt a request deletes or with their transaction.
\* Their objects are in the hands of that request or excused.
LEMMA RowsGo ==
    ASSUME ObjInv, SessionsTyped', TablesTyped',
           UNCHANGED <<objects, taken, fresh, keys, rid, op, hidden>>,
           excused \subseteq excused',
           \A k \in Keys : image'[k] = image[k] \/ image'[k] = 0,
           \A k \in Keys : image[k] # 0 /\ image'[k] = 0 =>
             k \in excused' \/ \E s \in Sessions : k \in keys[s],
           receipt' = receipt \/ receipt' = 0,
           \A s \in Sessions :
             pc'[s] = pc[s] \/ (pc'[s] = "sweep" /\ ~fresh[s] /\ \A k \in keys[s] : image'[k] = 0)
    PROVE  ObjInv'
<1>1. SessionsTyped /\ TablesTyped /\ \A r \in Sessions : Local(r)
  BY ObjTyped DEF ObjInv
<1>2. \A s \in Sessions : keys[s] \subseteq Keys
  BY <1>1 DEF SessionsTyped
<1>3. TypeOK'
  BY Typed DEF TablesTyped, TypeOK, SessionsTyped
<1>4. NoDanglingRow' /\ RowsTaken'
  BY <1>3 DEF ObjInv, NoDanglingRow, RowsTaken
<1>5. NoStrayObject'
  <2> SUFFICES ASSUME NEW k \in objects, image'[k] = 0, k \notin excused'
               PROVE  \E r \in Sessions : k \in keys[r]
    BY DEF NoStrayObject
  <2>1. k \in Keys
    BY <1>1 DEF TablesTyped
  <2>2. QED
    BY <2>1 DEF ObjInv, NoStrayObject
<1>6. \A r \in Sessions : Local(r)'
  <2> SUFFICES ASSUME NEW r \in Sessions PROVE Local(r)'
    OBVIOUS
  <2>1. QED
    BY <1>1 DEF Local
<1>7. FreshAlone'
  BY DEF ObjInv, FreshAlone
<1>8. UploadOwned'
  BY <1>2 DEF ObjInv, UploadOwned
<1>9. DeletableUnrowed'
  BY <1>2 DEF ObjInv, DeletableUnrowed
<1>10. QED
  BY <1>4, <1>5, <1>6, <1>7, <1>8, <1>9 DEF ObjInv

LEMMA DeleteRowsObj ==
    ASSUME ObjInv, NEW s \in Sessions, DeleteRows(s)
    PROVE  ObjInv'
<1>1. SessionsTyped /\ TablesTyped /\ Local(s)
  BY ObjTyped DEF ObjInv
<1>2. /\ pc[s] = "delete" /\ ~fresh[s]
      /\ UNCHANGED <<txn, lastId, objects, taken, fresh, keys, rid, op, hidden>>
      /\ pc' = [pc EXCEPT ![s] = "sweep"]
      /\ excused' = excused \cup (ImagesOf(rid[s]) \ keys[s])
  BY <1>1 DEF DeleteRows, Goto, Local
<1>3. \A k \in Keys : image'[k] =
        IF k \in keys[s] \/ (rid[s] # 0 /\ image[k] = rid[s]) THEN 0 ELSE image[k]
  BY DEF DeleteRows
<1>4. receipt' = IF rid[s] # 0 /\ receipt = rid[s] THEN 0 ELSE receipt
  BY DEF DeleteRows
<1>5. image' \in [Keys -> Ids]
  BY <1>1, ZeroId DEF DeleteRows, TablesTyped
<1>6. TablesTyped'
  BY <1>1, <1>2, <1>3, <1>4, <1>5, ZeroId DEF TablesTyped, ImagesOf
<1>7. SessionsTyped'
  BY <1>1, <1>2 DEF SessionsTyped
<1>8. keys[s] \subseteq Keys /\ pc'[s] = "sweep" /\ \A r \in Sessions \ {s} : pc'[r] = pc[r]
  BY <1>1, <1>2 DEF SessionsTyped
<1>9. \A k \in keys[s] : image'[k] = 0
  BY <1>3, <1>8
<1>10. \A k \in Keys : image[k] # 0 /\ image'[k] = 0 =>
         k \in excused' \/ \E r \in Sessions : k \in keys[r]
  BY <1>2, <1>3 DEF ImagesOf
<1>11. \A r \in Sessions :
         pc'[r] = pc[r] \/ (pc'[r] = "sweep" /\ ~fresh[r] /\ \A k \in keys[r] : image'[k] = 0)
  BY <1>2, <1>8, <1>9
<1>12. /\ \A k \in Keys : image'[k] = image[k] \/ image'[k] = 0
       /\ receipt' = receipt \/ receipt' = 0
  BY <1>3, <1>4
<1>13. QED
  BY <1>2, <1>6, <1>7, <1>10, <1>11, <1>12, RowsGo

LEMMA TransactionRemovedObj ==
    ASSUME ObjInv, TransactionRemoved
    PROVE  ObjInv'
<1>1. SessionsTyped /\ TablesTyped
  BY ObjTyped
<1>2. /\ UNCHANGED <<lastId, objects, taken, pc, op, rid, fresh, keys, hidden>>
      /\ txn' = FALSE /\ receipt' = 0
      /\ excused' = excused \cup ImagesOf(receipt)
  BY DEF TransactionRemoved, sessVars
<1>3. \A k \in Keys : image'[k] = 0
  BY <1>1 DEF TransactionRemoved, Cascade, TablesTyped
<1>4. image' \in [Keys -> Ids]
  BY <1>1, ZeroId DEF TransactionRemoved, Cascade, TablesTyped
<1>5. TablesTyped' /\ SessionsTyped'
  BY <1>1, <1>2, <1>3, <1>4, ZeroId DEF TablesTyped, SessionsTyped, ImagesOf
<1>6. \A k \in Keys : image[k] # 0 => k \in excused'
  BY <1>1, <1>2 DEF TablesTyped, ImagesOf
<1>7. QED
  BY <1>2, <1>3, <1>5, <1>6, RowsGo

LEMMA ObjNext == ObjInv /\ [Next]_vars => ObjInv'
<1> SUFFICES ASSUME ObjInv, [Next]_vars PROVE ObjInv'
  OBVIOUS
<1>1. ASSUME NEW s \in Sessions, Step(s) PROVE ObjInv'
  BY <1>1, BeginsUpload, CreateReceiptObj, PutObjectObj, PutFailsObj, CommitObj,
     CommitFailsObj, UndoObj, LoadForDeleteObj, DeleteRowsObj, SweepObjectObj,
     SweepDoneObj, CrashObj DEF Step
<1>2. CASE UNCHANGED vars
  BY <1>2 DEF vars, dbVars, sessVars, ObjInv, NoDanglingRow, TypeOK, NoStrayObject, RowsTaken,
              Local, FreshAlone, UploadOwned, DeletableUnrowed
<1>3. QED
  BY <1>1, <1>2, TransactionRemovedObj DEF Next

LEMMA ObjAlways == Spec => []ObjInv
BY InitObj, ObjNext, PTL DEF Spec

\* An image row points at bytes that are there, whatever uploads, deletions,
\* compensations, crashes and synced removals overlap, unless its commit took
\* place and raised, which add_image takes for a failure.
THEOREM RowsPointAtBytes == Spec => []NoDanglingRow
<1>1. ObjInv => NoDanglingRow
  BY DEF ObjInv
<1>2. QED
  BY <1>1, ObjAlways, PTL

\* An object without a row is in the hands of a request, or a failure, a
\* crash or a cascade left it.
THEOREM ObjectsAccountedFor == Spec => []NoStrayObject
<1>1. ObjInv => NoStrayObject
  BY DEF ObjInv
<1>2. QED
  BY <1>1, ObjAlways, PTL

-----------------------------------------------------------------------------
(* The number of attachments.  The limit is read when an upload begins, so *)
(* what is bounded is the attachments together with the uploads under way. *)

LEMMA UploadingFinite ==
    /\ IsFiniteSet(Uploading)
    /\ Cardinality(Uploading) <= Cardinality(Sessions)
    /\ Cardinality(Uploading) \in Nat /\ Cardinality(Sessions) \in Nat
BY FS_Subset, FS_CardinalityType, ReceiptsAssumption DEF Uploading

LEMMA RowedIs == TablesTyped => Rowed = ImagesOf(receipt)
BY DEF TablesTyped, Rowed, ImagesOf

\* Nothing is added: neither an attachment nor an upload.
LEMMA Shrinks ==
    ASSUME NEW n \in Nat, CountInv(n), Rowed' \subseteq Rowed, Uploading' \subseteq Uploading, OneEach'
    PROVE  CountInv(n)'
<1>1. IsFiniteSet(Rowed') /\ Cardinality(Rowed') <= Cardinality(Rowed)
  BY FS_Subset DEF CountInv
<1>2. Cardinality(Uploading') <= Cardinality(Uploading)
  BY UploadingFinite, FS_Subset
<1>3. /\ IsFiniteSet(Uploading) /\ IsFiniteSet(Uploading')
      /\ Cardinality(Uploading) \in Nat /\ Cardinality(Uploading') \in Nat
      /\ Cardinality(Rowed) \in Nat /\ Cardinality(Rowed') \in Nat
  BY <1>1, UploadingFinite, FS_Subset, FS_CardinalityType DEF CountInv
<1>4. /\ IsFiniteSet(Rowed)
      /\ Cardinality(Rowed) + Cardinality(Uploading) <= MaxImages + n - 1
  BY DEF CountInv
<1>5. Cardinality(Rowed') + Cardinality(Uploading')
        <= MaxImages + n - 1
  <2> DEFINE a == Cardinality(Rowed)
             b == Cardinality(Uploading)
             c == Cardinality(Rowed')
             d == Cardinality(Uploading')
  <2>1. /\ a \in Nat /\ b \in Nat /\ c \in Nat /\ d \in Nat
        /\ a + b <= MaxImages + n - 1 /\ c <= a /\ d <= b
    BY <1>1, <1>2, <1>3, <1>4
  <2> HIDE DEF a, b, c, d
  <2>2. c + d <= MaxImages + n - 1
    BY <2>1, ReceiptsAssumption
  <2>3. QED
    BY <2>2 DEF c, d
<1>6. QED
  BY <1>1, <1>5 DEF CountInv

\* An upload begins only below the limit.
LEMMA BeginsBelowLimit ==
    ASSUME NEW n \in Nat, TablesTyped, CountInv(n), image' = image, OneEach',
           Cardinality(ImagesOf(receipt)) < MaxImages, AtMostUploading(n)'
    PROVE  CountInv(n)'
<1>1. Rowed' = Rowed /\ Rowed = ImagesOf(receipt)
  BY RowedIs DEF Rowed
<1>2. /\ Cardinality(Uploading') <= n
      /\ Cardinality(Uploading') \in Nat
  BY FS_Subset, FS_CardinalityType, ReceiptsAssumption DEF Uploading, AtMostUploading
<1>3. IsFiniteSet(Rowed) /\ Cardinality(Rowed) \in Nat /\ Cardinality(Rowed) < MaxImages
  BY <1>1, FS_CardinalityType DEF CountInv
<1>4. Cardinality(Rowed') + Cardinality(Uploading')
        <= MaxImages + n - 1
  BY <1>1, <1>2, <1>3, ReceiptsAssumption
<1>5. QED
  BY <1>1, <1>3, <1>4 DEF CountInv

\* A commit makes an upload into at most one attachment.
LEMMA UploadEnds ==
    ASSUME NEW n \in Nat, SessionsTyped, CountInv(n), NEW s \in Sessions, pc[s] = "commit",
           Rowed' \subseteq Rowed \cup keys[s],
           Uploading' \subseteq Uploading \ {s}, OneEach'
    PROVE  CountInv(n)'
<1> DEFINE more == Rowed \cup keys[s]
           less == Uploading \ {s}
<1>1. IsFiniteSet(Rowed) /\ Cardinality(Rowed) \in Nat
  BY FS_CardinalityType DEF CountInv
<1>2. IsFiniteSet(more) /\ Cardinality(more) <= Cardinality(Rowed) + 1
  <2>1. CASE keys[s] = {}
    <3>1. more = Rowed
      BY <2>1
    <3> HIDE DEF more
    <3>2. QED
      BY <1>1, <3>1
  <2>2. ASSUME NEW k \in Keys, keys[s] = {k}
        PROVE  IsFiniteSet(more) /\ Cardinality(more) <= Cardinality(Rowed) + 1
    <3>1. more = Rowed \cup {k}
      BY <2>2
    <3>2. /\ IsFiniteSet(Rowed \cup {k})
          /\ Cardinality(Rowed \cup {k}) =
               IF k \in Rowed THEN Cardinality(Rowed) ELSE Cardinality(Rowed) + 1
      BY <1>1, FS_AddElement
    <3> HIDE DEF more
    <3>3. QED
      BY <1>1, <3>1, <3>2
  <2>3. QED
    BY <2>1, <2>2 DEF CountInv, OneEach
<1>3. IsFiniteSet(Rowed') /\ Cardinality(Rowed') <= Cardinality(more)
  BY <1>2, FS_Subset
<1>4. /\ IsFiniteSet(less) /\ Cardinality(less) = Cardinality(Uploading) - 1
  <2>1. s \in Uploading
    BY DEF Uploading
  <2>2. QED
    BY <2>1, UploadingFinite, FS_RemoveElement
<1>5. IsFiniteSet(Uploading') /\ Cardinality(Uploading') <= Cardinality(less)
  BY <1>4, FS_Subset
<1>6. /\ Cardinality(more) \in Nat /\ Cardinality(less) \in Nat
      /\ Cardinality(Rowed') \in Nat /\ Cardinality(Uploading') \in Nat
  BY <1>2, <1>3, <1>4, <1>5, FS_CardinalityType
<1>7. Cardinality(Rowed) + Cardinality(Uploading) <= MaxImages + n - 1
  BY DEF CountInv
<1> HIDE DEF more, less
<1>8. Cardinality(Rowed') + Cardinality(Uploading')
        <= MaxImages + n - 1
  BY <1>1, <1>2, <1>3, <1>4, <1>5, <1>6, <1>7, UploadingFinite, ReceiptsAssumption
<1>9. QED
  BY <1>3, <1>8 DEF CountInv

LEMMA InitCount ==
    ASSUME NEW n \in Nat, Init
    PROVE  CountInv(n)
<1>1. Rowed = {} /\ Uploading = {} /\ OneEach
  BY DEF Init, Rowed, Uploading, OneEach
<1>2. QED
  BY <1>1, FS_EmptySet, ReceiptsAssumption DEF CountInv

\* The end of a request adds nothing.
LEMMA EndsCount ==
    ASSUME SessionsTyped, OneEach, NEW s \in Sessions, EndRequest(s)
    PROVE  Uploading' \subseteq Uploading \ {s} /\ OneEach'
<1>1. OthersKeep(s) /\ pc'[s] = "idle"
  BY Ends
<1>2. QED
  BY <1>1 DEF OthersKeep, Uploading, OneEach

LEMMA CountStep ==
    ASSUME NEW n \in Nat, ObjInv, CountInv(n), NEW s \in Sessions, Step(s),
           AtMostUploading(n)'
    PROVE  CountInv(n)'
<1>1. SessionsTyped /\ TablesTyped /\ Local(s) /\ OneEach /\ keys[s] \subseteq Keys
  BY ObjTyped DEF ObjInv, CountInv, SessionsTyped
<1>2. CASE AddImage(s) \/ UpsertDetails(s)
  <2>1. OneEach'
    BY <1>1, <1>2 DEF AddImage, UpsertDetails, SessionsTyped, OneEach
  <2>2. Cardinality(ImagesOf(receipt)) < MaxImages
    <3>1. CASE UpsertDetails(s)
      <4>1. ImagesOf(receipt) = {}
        BY <3>1 DEF UpsertDetails, ImagesOf
      <4>2. QED
        BY <4>1, FS_EmptySet, ReceiptsAssumption
    <3>2. QED
      BY <1>2, <3>1 DEF AddImage
  <2>3. QED
    BY <1>1, <1>2, <2>1, <2>2, BeginsBelowLimit DEF AddImage, UpsertDetails, dbVars
<1>3. CASE CreateReceipt(s)
  <2>1. Rowed' = Rowed
    BY <1>3 DEF CreateReceipt, Rowed
  <2>2. CASE EndRequest(s)
    BY <1>1, <2>1, <2>2, EndsCount, Shrinks
  <2>3. CASE /\ pc' = [pc EXCEPT ![s] = IF op[s] = "image" THEN "put" ELSE "commit"]
             /\ UNCHANGED <<op, keys>>
    <3>1. keys[s] = {} /\ s \in Uploading
      BY <1>1, <1>3 DEF CreateReceipt, Local, Uploading
    <3>2. Uploading' \subseteq Uploading /\ OneEach'
      BY <1>1, <2>3, <3>1 DEF SessionsTyped, Uploading, OneEach
    <3>3. QED
      BY <2>1, <3>2, Shrinks
  <2>4. QED
    BY <1>3, <2>2, <2>3 DEF CreateReceipt
<1>4. CASE PutObject(s)
  <2>1. Rowed' = Rowed /\ s \in Uploading
    BY <1>4 DEF PutObject, Rowed, Uploading, dbVars
  <2>2. Uploading' \subseteq Uploading /\ OneEach'
    BY <1>1, <1>4, <2>1 DEF PutObject, SessionsTyped, Uploading, OneEach
  <2>3. QED
    BY <2>1, <2>2, Shrinks
<1>5. CASE PutFails(s) \/ Undo(s) \/ SweepDone(s) \/ Crash(s)
  <2>1. Rowed' = Rowed /\ EndRequest(s)
    BY <1>5 DEF PutFails, Undo, SweepDone, Crash, Rowed, dbVars
  <2>2. QED
    BY <1>1, <2>1, EndsCount, Shrinks
<1>6. CASE Commit(s)
  <2>1. Rowed' \subseteq Rowed \cup keys[s] /\ EndRequest(s) /\ pc[s] = "commit"
    BY <1>6 DEF Commit, Rowed
  <2>2. QED
    BY <1>1, <2>1, EndsCount, UploadEnds
<1>7. CASE CommitFails(s)
  <2>1. Rowed' \subseteq Rowed \cup keys[s] /\ pc[s] = "commit"
    BY <1>7 DEF CommitFails, Rowed
  <2>2. Uploading' \subseteq Uploading \ {s} /\ OneEach'
    <3>1. CASE EndRequest(s)
      BY <1>1, <3>1, EndsCount
    <3>2. CASE pc' = [pc EXCEPT ![s] = "undo"] /\ UNCHANGED <<op, rid, keys>>
      BY <1>1, <3>2 DEF SessionsTyped, Uploading, OneEach
    <3>3. QED
      BY <1>7, <3>1, <3>2 DEF CommitFails
  <2>3. QED
    BY <1>1, <2>1, <2>2, UploadEnds
<1>8. CASE LoadForDelete(s)
  <2>1. Rowed' = Rowed /\ Uploading' \subseteq Uploading /\ OneEach'
    BY <1>1, <1>8 DEF LoadForDelete, dbVars, Rowed, SessionsTyped, Uploading, OneEach
  <2>2. QED
    BY <2>1, Shrinks
<1>9. CASE DeleteRows(s)
  <2>1. Rowed' \subseteq Rowed
    BY <1>9 DEF DeleteRows, Rowed
  <2>2. Uploading' \subseteq Uploading /\ OneEach'
    BY <1>1, <1>9 DEF DeleteRows, Goto, SessionsTyped, Uploading, OneEach
  <2>3. QED
    BY <2>1, <2>2, Shrinks
<1>10. CASE SweepObject(s)
  <2>1. Rowed' = Rowed /\ Uploading' = Uploading
    BY <1>10 DEF SweepObject, dbVars, Rowed, Uploading
  <2>2. OneEach'
    BY <1>1, <1>10 DEF SweepObject, SessionsTyped, OneEach
  <2>3. QED
    BY <2>1, <2>2, Shrinks
<1>11. QED
  BY <1>2, <1>3, <1>4, <1>5, <1>6, <1>7, <1>8, <1>9, <1>10 DEF Step

LEMMA CountNext ==
    ASSUME NEW n \in Nat, ObjInv, CountInv(n), [Next]_vars, AtMostUploading(n)'
    PROVE  CountInv(n)'
<1>1. CASE TransactionRemoved
  <2>1. Rowed' \subseteq Rowed
    BY <1>1 DEF TransactionRemoved, Cascade, Rowed
  <2>2. Uploading' = Uploading /\ OneEach'
    BY <1>1 DEF TransactionRemoved, sessVars, Uploading, CountInv, OneEach
  <2>3. QED
    BY <2>1, <2>2, Shrinks
<1>2. CASE UNCHANGED vars
  <2>1. Rowed' = Rowed /\ Uploading' = Uploading /\ OneEach'
    BY <1>2 DEF vars, dbVars, sessVars, Rowed, Uploading, CountInv, OneEach
  <2>2. QED
    BY <2>1, Shrinks
<1>3. QED
  BY <1>1, <1>2, CountStep DEF Next

\* What the count says of the receipt.
LEMMA CountBounds ==
    ASSUME NEW n \in Nat, ObjInv, CountInv(n)
    PROVE  Cardinality(ImagesOf(receipt)) <= MaxImages + n - 1
<1>1. Rowed = ImagesOf(receipt)
  BY ObjTyped, RowedIs
<1>2. Cardinality(Rowed) \in Nat /\ Cardinality(Uploading) \in Nat
  BY UploadingFinite, FS_CardinalityType DEF CountInv
<1>3. QED
  BY <1>1, <1>2, ReceiptsAssumption DEF CountInv

\* "Up to 10 attachments", give or take the uploads that overlap: the limit is
\* checked before the upload, so it is exceeded by at most the number of
\* requests served at once, less one.
THEOREM ImagesStayBounded == Spec => []ImagesBounded
<1> DEFINE N == Cardinality(Sessions)
<1>1. N \in Nat
  BY UploadingFinite
<1>2. Init => ObjInv /\ CountInv(N)
  BY <1>1, InitObj, InitCount
<1>3. ObjInv /\ CountInv(N) /\ [Next]_vars => (ObjInv /\ CountInv(N))'
  <2>1. AtMostUploading(N)'
    BY FS_Subset, ReceiptsAssumption DEF AtMostUploading, Uploading
  <2> HIDE DEF N
  <2>2. QED
    BY <1>1, <2>1, ObjNext, CountNext
<1>4. ObjInv /\ CountInv(N) => ImagesBounded
  BY <1>1, CountBounds DEF ImagesBounded
<1>5. QED
  BY <1>2, <1>3, <1>4, PTL DEF Spec

\* "Up to 10 attachments" holds exactly as documented while uploads of a
\* receipt come one after the other, whatever deletions, failures, lost
\* acknowledgements and crashes overlap them (add_image).
THEOREM LimitHoldsSerially == Spec /\ []AtMostUploading(1) => []AtMostMaxImages
<1>1. Init => ObjInv /\ CountInv(1)
  BY InitObj, InitCount
<1>2. ObjInv /\ CountInv(1) /\ AtMostUploading(1)' /\ [Next]_vars => (ObjInv /\ CountInv(1))'
  BY ObjNext, CountNext
<1>3. ObjInv /\ CountInv(1) => AtMostMaxImages
  BY CountBounds, ReceiptsAssumption DEF AtMostMaxImages
<1>4. QED
  BY <1>1, <1>2, <1>3, PTL DEF Spec

=============================================================================

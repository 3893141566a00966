------------------------------ MODULE Receipts ------------------------------
(***************************************************************************)
(* ReceiptService for one transaction: the receipts and receipt_images     *)
(* rows, and the attachment bytes in object storage that no database       *)
(* transaction covers.  Requests overlap, storage calls fail, the process  *)
(* dies, and a transaction sync may delete the transaction underneath.     *)
(*                                                                         *)
(* A storage key names an attachment and its object.  The details text of  *)
(* a receipt is left out: only whether there is a receipt row matters.     *)
(***************************************************************************)
EXTENDS Naturals, FiniteSets

CONSTANTS
    Keys,             \* storage keys (uuids) that uploads can get
    Sessions,         \* concurrently served requests
    MaxImages,        \* settings.receipt_max_images
    MaxReceipts       \* bound: receipt rows ever inserted

ASSUME ReceiptsAssumption ==
    /\ MaxImages \in Nat \ {0}
    /\ MaxReceipts \in Nat \ {0}
    /\ IsFiniteSet(Sessions)

VARIABLES
    txn,       \* the transaction row exists
    receipt,   \* id of the receipt row, 0: none
    lastId,    \* receipt ids used so far
    image,     \* receipt_images: receipt id of each key's row, 0: no row
    objects,   \* keys present in object storage
    taken,     \* keys generated so far
    pc, op,
    rid,       \* the receipt the session loaded or inserted
    fresh,     \* it has inserted that receipt and not committed
    keys,      \* objects the session uploads or is to delete
    excused,   \* history: objects a failure or a cascade may have left behind
    hidden     \* history: keys of rows whose commit took place and raised

dbVars == <<txn, receipt, lastId, image>>
sessVars == <<pc, op, rid, fresh, keys>>
vars == <<dbVars, objects, taken, sessVars, excused, hidden>>

Ids == 0..MaxReceipts

TypeOK ==
    /\ txn \in BOOLEAN
    /\ receipt \in Ids
    /\ lastId \in Ids
    /\ image \in [Keys -> Ids]
    /\ objects \subseteq taken
    /\ taken \subseteq Keys
    /\ pc \in [Sessions -> {"idle", "create", "put", "commit", "undo", "delete", "sweep"}]
    /\ op \in [Sessions -> {"none", "image", "details"}]
    /\ rid \in [Sessions -> Ids]
    /\ fresh \in [Sessions -> BOOLEAN]
    /\ keys \in [Sessions -> SUBSET Keys]
    /\ excused \subseteq Keys /\ hidden \subseteq Keys
    /\ \A k \in Keys : image[k] # 0 => image[k] = receipt

ImagesOf(r) == {k \in Keys : r # 0 /\ image[k] = r}

\* Rows of receipt r go, by the foreign keys' ON DELETE CASCADE.
Cascade(r) == [k \in Keys |-> IF image[k] = r THEN 0 ELSE image[k]]

\* The request ends; what is not committed is rolled back.
EndRequest(s) ==
    /\ pc' = [pc EXCEPT ![s] = "idle"]
    /\ op' = [op EXCEPT ![s] = "none"]
    /\ rid' = [rid EXCEPT ![s] = 0]
    /\ fresh' = [fresh EXCEPT ![s] = FALSE]
    /\ keys' = [keys EXCEPT ![s] = {}]

Goto(s, at) ==
    /\ pc' = [pc EXCEPT ![s] = at]
    /\ UNCHANGED <<op, rid, fresh, keys>>

-----------------------------------------------------------------------------
(* add_image and upsert_details                                            *)

\* Mutant: the limit is one too high.
AddImageOffByOne(s) ==
    /\ pc[s] = "idle"
    /\ txn
    /\ Cardinality(ImagesOf(receipt)) <= MaxImages
    /\ op' = [op EXCEPT ![s] = "image"]
    /\ rid' = [rid EXCEPT ![s] = receipt]
    /\ pc' = [pc EXCEPT ![s] = IF receipt = 0 THEN "create" ELSE "put"]
    /\ UNCHANGED <<dbVars, objects, taken, fresh, keys, excused, hidden>>

\* The transaction and its receipt with images are loaded; a full receipt is
\* a conflict.
AddImage(s) ==
    /\ pc[s] = "idle"
    /\ txn
    /\ Cardinality(ImagesOf(receipt)) < MaxImages
    /\ op' = [op EXCEPT ![s] = "image"]
    /\ rid' = [rid EXCEPT ![s] = receipt]
    /\ pc' = [pc EXCEPT ![s] = IF receipt = 0 THEN "create" ELSE "put"]
    /\ UNCHANGED <<dbVars, objects, taken, fresh, keys, excused, hidden>>

\* PUT of the details of a transaction without a receipt row.
UpsertDetails(s) ==
    /\ pc[s] = "idle"
    /\ txn
    /\ receipt = 0
    /\ op' = [op EXCEPT ![s] = "details"]
    /\ pc' = [pc EXCEPT ![s] = "create"]
    /\ UNCHANGED <<dbVars, objects, taken, rid, fresh, keys, excused, hidden>>

\* receipts.create flushes the INSERT: it waits for another session's
\* uncommitted receipt of the transaction, and fails if there is one by now
\* or the transaction is gone.
CreateReceipt(s) ==
    /\ pc[s] = "create"
    /\ \A r \in Sessions : ~fresh[r]
    /\ \/ /\ txn
          /\ receipt = 0
          /\ lastId < MaxReceipts
          /\ lastId' = lastId + 1
          /\ rid' = [rid EXCEPT ![s] = lastId + 1]
          /\ fresh' = [fresh EXCEPT ![s] = TRUE]
          /\ pc' = [pc EXCEPT ![s] = IF op[s] = "image" THEN "put" ELSE "commit"]
          /\ UNCHANGED <<op, keys>>
       \/ /\ ~txn \/ receipt # 0
          /\ EndRequest(s)
          /\ UNCHANGED lastId
    /\ UNCHANGED <<txn, receipt, image, objects, taken, excused, hidden>>

\* storage.put under a new key.
PutObject(s) ==
    /\ pc[s] = "put"
    /\ \E k \in Keys \ taken :
         /\ taken' = taken \cup {k}
         /\ objects' = objects \cup {k}
         /\ keys' = [keys EXCEPT ![s] = {k}]
    /\ pc' = [pc EXCEPT ![s] = "commit"]
    /\ UNCHANGED <<dbVars, op, rid, fresh, excused, hidden>>

\* storage.put raises, whether or not the bytes arrived.
PutFails(s) ==
    /\ pc[s] = "put"
    /\ \E k \in Keys \ taken :
         /\ taken' = taken \cup {k}
         /\ \/ objects' = objects \cup {k} /\ excused' = excused \cup {k}
            \/ UNCHANGED <<objects, excused>>
    /\ EndRequest(s)
    /\ UNCHANGED <<dbVars, hidden>>

\* The foreign keys of what the session inserts hold.
ParentsExist(s) == txn /\ (fresh[s] \/ receipt = rid[s])

\* The rows are inserted and committed.
Commit(s) ==
    /\ pc[s] = "commit"
    /\ ParentsExist(s)
    /\ receipt' = rid[s]
    /\ image' = [k \in Keys |-> IF k \in keys[s] THEN rid[s] ELSE image[k]]
    /\ EndRequest(s)
    /\ UNCHANGED <<txn, lastId, objects, taken, excused, hidden>>

\* The commit raises and the object is to be removed again (an error of
\* upsert_details just ends the request).  A lost connection can hide a
\* commit that took place.
CommitFails(s) ==
    /\ pc[s] = "commit"
    /\ \/ UNCHANGED <<receipt, image, hidden>>
       \/ /\ ParentsExist(s)
          /\ receipt' = rid[s]
          /\ image' = [k \in Keys |-> IF k \in keys[s] THEN rid[s] ELSE image[k]]
          /\ hidden' = hidden \cup keys[s]
    /\ \/ /\ op[s] = "image"
          /\ fresh' = [fresh EXCEPT ![s] = FALSE]
          /\ pc' = [pc EXCEPT ![s] = "undo"]
          /\ UNCHANGED <<op, rid, keys>>
       \/ /\ op[s] = "details"
          /\ EndRequest(s)
    /\ UNCHANGED <<txn, lastId, objects, taken, excused>>

\* Mutant: the rollback forgets the uploaded object.
UndoForgets(s) ==
    /\ pc[s] = "undo"
    /\ EndRequest(s)
    /\ UNCHANGED <<dbVars, taken, objects, excused, hidden>>

\* "don't strand the object": best effort.
Undo(s) ==
    /\ pc[s] = "undo"
    /\ \/ objects' = objects \ keys[s] /\ UNCHANGED excused
       \/ UNCHANGED objects /\ excused' = excused \cup keys[s]
    /\ EndRequest(s)
    /\ UNCHANGED <<dbVars, taken, hidden>>

-----------------------------------------------------------------------------
(* delete_receipt and delete_image                                         *)

\* The receipt is loaded with its images, or one image is.
LoadForDelete(s) ==
    /\ pc[s] = "idle"
    /\ txn /\ receipt # 0
    /\ \/ keys' = [keys EXCEPT ![s] = ImagesOf(receipt)] /\ rid' = [rid EXCEPT ![s] = receipt]
       \/ /\ \E k \in ImagesOf(receipt) : keys' = [keys EXCEPT ![s] = {k}]
          /\ UNCHANGED rid
    /\ pc' = [pc EXCEPT ![s] = "delete"]
    /\ UNCHANGED <<dbVars, objects, taken, op, fresh, excused, hidden>>

\* Mutant: the deletion is never committed.
DeleteRowsNoCommit(s) ==
    /\ pc[s] = "delete"
    /\ Goto(s, "sweep")
    /\ UNCHANGED <<dbVars, objects, taken, excused, hidden>>

\* The rows are deleted and committed; a receipt takes every image row that
\* hangs off it by now (rid = 0: only the one image).
DeleteRows(s) ==
    /\ pc[s] = "delete"
    /\ receipt' = IF rid[s] # 0 /\ receipt = rid[s] THEN 0 ELSE receipt
    /\ image' = [k \in Keys |->
                   IF k \in keys[s] \/ (rid[s] # 0 /\ image[k] = rid[s]) THEN 0 ELSE image[k]]
    /\ excused' = excused \cup (ImagesOf(rid[s]) \ keys[s])
    /\ Goto(s, "sweep")
    /\ UNCHANGED <<txn, lastId, objects, taken, hidden>>

\* Then the objects, one by one, errors logged.
SweepObject(s) ==
    /\ pc[s] = "sweep"
    /\ \E k \in keys[s] :
         /\ \/ objects' = objects \ {k} /\ UNCHANGED excused
            \/ UNCHANGED objects /\ excused' = excused \cup {k}
         /\ keys' = [keys EXCEPT ![s] = @ \ {k}]
    /\ UNCHANGED <<dbVars, taken, pc, op, rid, fresh, hidden>>

SweepDone(s) ==
    /\ pc[s] = "sweep"
    /\ keys[s] = {}
    /\ EndRequest(s)
    /\ UNCHANGED <<dbVars, objects, taken, excused, hidden>>

-----------------------------------------------------------------------------

\* The process dies: rollback, and nobody cleans up.
Crash(s) ==
    /\ pc[s] # "idle"
    /\ excused' = excused \cup keys[s]
    /\ EndRequest(s)
    /\ UNCHANGED <<dbVars, objects, taken, hidden>>

\* Transaction sync deletes the transaction Plaid removed; the rows cascade,
\* the objects stay.  It waits for an uncommitted receipt of the transaction.
TransactionRemoved ==
    /\ txn
    /\ \A r \in Sessions : ~fresh[r]
    /\ txn' = FALSE
    /\ receipt' = 0
    /\ image' = Cascade(receipt)
    /\ excused' = excused \cup ImagesOf(receipt)
    /\ UNCHANGED <<lastId, objects, taken, sessVars, hidden>>

Init ==
    /\ txn = TRUE
    /\ receipt = 0
    /\ lastId = 0
    /\ image = [k \in Keys |-> 0]
    /\ objects = {} /\ taken = {} /\ excused = {} /\ hidden = {}
    /\ pc = [s \in Sessions |-> "idle"]
    /\ op = [s \in Sessions |-> "none"]
    /\ rid = [s \in Sessions |-> 0]
    /\ fresh = [s \in Sessions |-> FALSE]
    /\ keys = [s \in Sessions |-> {}]

Step(s) ==
    \/ AddImage(s)
    \/ UpsertDetails(s)
    \/ CreateReceipt(s)
    \/ PutObject(s)
    \/ PutFails(s)
    \/ Commit(s)
    \/ CommitFails(s)
    \/ Undo(s)
    \/ LoadForDelete(s)
    \/ DeleteRows(s)
    \/ SweepObject(s)
    \/ SweepDone(s)
    \/ Crash(s)

Next == (\E s \in Sessions : Step(s)) \/ TransactionRemoved

Spec == Init /\ [][Next]_vars

-----------------------------------------------------------------------------
(* Properties.                                                             *)

\* "an orphaned object is recoverable noise, a dangling DB row pointing at
\* deleted bytes is a 404 bug": the object of a committed image row exists,
\* whatever uploads, deletions, failures and crashes overlap (unless the commit
\* took place and raised, which the service takes for a failure), and the row
\* belongs to the receipt that there is.
NoDanglingRow ==
    /\ TypeOK
    /\ \A k \in Keys : image[k] # 0 => k \in objects \/ k \in hidden

\* Objects are not stranded: one without a row is being uploaded or deleted by
\* a request, or a failure left it, or the row went by a cascade: with its
\* transaction, or with a receipt that was loaded before the row was there.
NoStrayObject ==
    \A k \in objects : image[k] # 0 \/ k \in excused \/ \E s \in Sessions : k \in keys[s]

\* "up to 10 attachments": the limit is checked before the upload, so requests
\* that overlap can exceed it, by no more than the number of the others.
ImagesBounded == Cardinality(ImagesOf(receipt)) <= MaxImages + Cardinality(Sessions) - 1

\* The limit as documented; overlapping uploads exceed it.
AtMostMaxImages == Cardinality(ImagesOf(receipt)) <= MaxImages

\* "a dangling DB row pointing at deleted bytes is a 404 bug", without the
\* exception for a commit that took place and raised.
NoDanglingRowEver == \A k \in Keys : image[k] # 0 => k \in objects

=============================================================================

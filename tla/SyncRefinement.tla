--------------------------- MODULE SyncRefinement ---------------------------
(* TransactionSync implements Mirror as long as requests do not overlap.   *)
EXTENDS TransactionSync

ValOf(row) == IF row = Absent THEN Absent ELSE row.val

M == INSTANCE Mirror WITH
       history <- log,
       prefix <- cursor,
       trail <- [t \in Txns |-> ValOf(raw[t])],
       shown <- [t \in Txns |-> ValOf(tx[t])]

\* Seen from the tables, a sync is atomic: whatever pages, restarts, Plaid
\* failures, crashes and account syncs a request meets, the rows and the cursor
\* of an item move together from one prefix of its history to a later one, one
\* item at a time, and nothing else moves them.
ImplementsMirror == M!Spec

\* At most one request at a time, which is what the refinement needs: of two
\* that overlap, the later commit moves the cursor back.
OneAtATime == \A r, s \in Sessions : pc[r] # "idle" /\ pc[s] # "idle" => r = s

=============================================================================

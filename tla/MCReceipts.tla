----------------------------- MODULE MCReceipts -----------------------------
(* Small instances of Receipts for TLC. *)
EXTENDS Receipts, TLC

Symmetry == Permutations(Keys) \cup Permutations(Sessions)

=============================================================================

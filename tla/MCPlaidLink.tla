---------------------------- MODULE MCPlaidLink ----------------------------
(* Small instances of PlaidLink for TLC. *)
EXTENDS PlaidLink, TLC

CONSTANTS p1, p2, p3, b1

SameInstitution == p1 :> b1 @@ p2 :> b1 @@ p3 :> b1
OneWithoutId == p1 :> b1 @@ p2 :> b1 @@ p3 :> NoBank
SessionSymmetry == Permutations(Sessions)

=============================================================================

---------------------------- MODULE MCAuthTokens ----------------------------
(* Small instances of AuthTokens for TLC. *)
EXTENDS AuthTokens, TLC

Symmetry == Permutations(Sessions) \cup Permutations(Tokens) \cup Permutations(Users)

=============================================================================

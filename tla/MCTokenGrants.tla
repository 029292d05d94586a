----------------------------- MODULE MCTokenGrants -----------------------------
(* TokenGrants on small sets; rows, families and requests are interchangeable. *)
EXTENDS TokenGrants, TLC

Symmetry == Permutations(Token) \cup Permutations(Family) \cup Permutations(Request)
=============================================================================

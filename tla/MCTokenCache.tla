----------------------------- MODULE MCTokenCache -----------------------------
(* TokenCache on small sets.  Requests and actors are interchangeable, and so *)
(* are the tokens as long as all of them, or none, are in Lineage.            *)
EXTENDS TokenCache, TLC

Symmetry == Permutations(Request) \cup Permutations(Actor) \cup Permutations(Token)
=============================================================================

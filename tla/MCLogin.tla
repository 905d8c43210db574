------------------------------- MODULE MCLogin -------------------------------
(* Instances of Login: one account that two clients use on two games.         *)
EXTENDS Login, TLC

Symm == Permutations(Games) \cup Permutations(Descs) \cup Permutations(Keys)
=============================================================================

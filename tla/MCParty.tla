------------------------------ MODULE MCParty ------------------------------
(* Instances of Party.  The bound Ids is never met in them: each game has      *)
(* always memory for one more party.                                          *)
EXTENDS Party, TLC

CONSTANTS g1, g2, p1, p2, p3

Swap == Permutations(Games) \cup Permutations(Pids)
=============================================================================

------------------------------ MODULE MCDbCache ------------------------------
(* Instances of DbCache: two players of two accounts, or of one.              *)
EXTENDS DbCache, TLC

CONSTANTS p1, p2, a1, a2

TwoAccounts == p1 :> a1 @@ p2 :> a2
OneAccount  == p1 :> a1 @@ p2 :> a1

\* The two players with their accounts are alike.
Swap == {f \in Permutations({p1, p2, a1, a2}) :
           \A p \in {p1, p2} : f[p] \in {p1, p2} /\ f[TwoAccounts[p]] = TwoAccounts[f[p]]}
=============================================================================

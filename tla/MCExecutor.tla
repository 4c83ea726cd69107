------------------------------ MODULE MCExecutor ------------------------------
(* Instances of Executor for TLC.                                          *)
EXTENDS Executor, TLC

CONSTANTS n1, n2, e1, e2

\* Both entities on one node, and one on each.
OwnerTogether == e1 :> n1 @@ e2 :> n1
OwnerApart == e1 :> n1 @@ e2 :> n2
OwnerSingle == e1 :> n1

UserSymmetry == Permutations(Users)
===============================================================================

----------------------------- MODULE MCParameters -----------------------------
(* Instances of Parameters for TLC.                                        *)
EXTENDS Parameters, TLC

CONSTANTS a, b, none, v1, v2

\* One remote request that sets two parameters, and one that unsets one.
TwoNames == {<<[name |-> a, value |-> v1], [name |-> b, value |-> v1]>>}
SomeUnset == TwoNames \cup {<<[name |-> a, value |-> NotSet]>>}
\* The application threads are alike.
UserSymmetry == Permutations(Users)
===============================================================================

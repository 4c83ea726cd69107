----------------------------- MODULE MCServiceCall -----------------------------
(* Instances of ServiceCall for TLC.                                       *)
EXTENDS ServiceCall, TLC

CONSTANTS k1, c1, c2

\* Two callers sharing a client, and a single one.
Shared == c1 :> k1 @@ c2 :> k1
Single == c1 :> k1
===============================================================================

--------------------------- MODULE MCGraphExecutor ---------------------------
(* A topology of two nodes for TLC.                                        *)
EXTENDS GraphExecutor, TLC

CONSTANTS par, fast, slow, shot, subscr

TwoNodes == << <<par, slow, subscr>>, <<shot, fast>> >>
Rates == slow :> 2 @@ fast :> 1
==============================================================================

--------------------------- MODULE ParameterStore ---------------------------
(***************************************************************************)
(* What the parameters of a node promise: a map from names to values in    *)
(* which declaring and setting are indivisible, and a log of events, one   *)
(* per stored value, in the order in which the values were stored.         *)
(* Parameters.tla implements it with two mutexes and several threads.      *)
(***************************************************************************)
EXTENDS Naturals, Sequences

CONSTANTS
    Names,          \* parameter names
    EmptyName,      \* the empty string, which cannot be declared
    Values,         \* values of a type other than NotSet
    NotSet,         \* the value of type NotSet
    Undeclared      \* what values holds for a name that is not declared

VARIABLES
    values,         \* values_: a value, NotSet or Undeclared for each name
    events          \* the samples written to /parameter_events

vars == <<values, events>>

Settable == Values \cup {NotSet}
Events == [name : Names, value : Values, new : BOOLEAN]

Event(n, v, new) == [name |-> n, value |-> v, new |-> new]

Init ==
    /\ values = [n \in Names |-> Undeclared]
    /\ events = << >>

\* The event for value v replacing old, unless the publisher fails; NotSet has none.
Announced(n, v, old) ==
    \/ v # NotSet /\ events' = Append(events, Event(n, v, old \notin Values))
    \/ events' = events

Declare(n, v) ==
    /\ n # EmptyName /\ values[n] = Undeclared
    /\ values' = [values EXCEPT ![n] = v]
    /\ Announced(n, v, Undeclared)

Set(n, v) ==
    /\ values[n] # Undeclared
    /\ values' = [values EXCEPT ![n] = v]
    /\ Announced(n, v, values[n])

Next == \E n \in Names, v \in Settable : Declare(n, v) \/ Set(n, v)

Spec == Init /\ [][Next]_vars
=============================================================================

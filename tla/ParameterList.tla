---------------------------- MODULE ParameterList ----------------------------
(***************************************************************************)
(* The list_parameters service: tokenize() and handle_list() of            *)
(* parameter.cpp.  A string is the sequence of its dot-separated parts:    *)
(* "a.b" is <<"a", "b">>, "a." is <<"a", "">>, the empty string is <<"">>. *)
(* values_ is ordered by name, so the sort of the names that match changes *)
(* nothing and the answer is a set.                                        *)
(***************************************************************************)
EXTENDS Naturals, Sequences, FiniteSets, SequencesExt

CONSTANTS
    Parts,          \* parts of names, the empty part "" among them
    MaxParts,       \* bound: parts of a declared name
    MaxPrefixes,    \* bound: prefixes of a request
    MaxDepth,       \* bound: depth of a request
    Declared        \* how many names are declared, at most

ASSUME ListAssumption ==
    /\ "" \in Parts
    /\ MaxParts \in Nat \ {0} /\ MaxPrefixes \in Nat /\ MaxDepth \in Nat
    /\ Declared \in Nat

Strings == UNION {[1..n -> Parts] : n \in 1..MaxParts}

VARIABLES
    names,      \* the keys of values_
    request,    \* [prefixes, depth]
    response,   \* [names, prefixes]
    served      \* whether a request was served; the handler keeps no state

listVars == <<names, request, response, served>>

\* getline() yields no part after a trailing dot, and none for the empty string.
tokenize(s) == IF Last(s) = "" THEN Front(s) ELSE s

\* The name's parts begin with the prefix's; it may be the prefix itself.
MatchesMutant(s, prefix) == IsStrictPrefix(tokenize(prefix), tokenize(s))
Matches(s, prefix) == IsPrefix(tokenize(prefix), tokenize(s))
Below(s, prefix) == Len(tokenize(s)) - Len(tokenize(prefix))

\* depth 0 is DEPTH_RECURSIVE.
Within(n, depth) == depth = 0 \/ n <= depth

\* The first prefix that matches decides.
DecidedBy(s, prefixes) == CHOOSE i \in DOMAIN prefixes :
    /\ Matches(s, prefixes[i])
    /\ \A j \in 1..(i - 1) : ~Matches(s, prefixes[j])

Listed(s, prefixes, depth) ==
    IF prefixes = << >>
    THEN Within(Len(tokenize(s)), depth)
    ELSE /\ \E i \in DOMAIN prefixes : Matches(s, prefixes[i])
         /\ Within(Below(s, prefixes[DecidedBy(s, prefixes)]), depth)

\* Everything before each dot of s.
Intermediate(s) == {SubSeq(s, 1, k) : k \in 1..(Len(s) - 1)}

Answer(ns, req) ==
    LET matched == {s \in ns : Listed(s, req.prefixes, req.depth)}
    IN  [names |-> matched, prefixes |-> UNION {Intermediate(s) : s \in matched}]

Requests == [prefixes : SeqOf(Strings, MaxPrefixes), depth : 0..MaxDepth]

\* Any names but the empty one may have been declared.
ListInit ==
    /\ names \in {ns \in SUBSET (Strings \ {<<"">>}) : Cardinality(ns) <= Declared}
    /\ request = [prefixes |-> << >>, depth |-> 0]
    /\ response = Answer(names, request)
    /\ served = FALSE

handle_list(req) ==
    /\ ~served /\ served' = TRUE
    /\ request' = req
    /\ response' = Answer(names, req)
    /\ UNCHANGED names

ListNext == \E req \in Requests : handle_list(req)

-----------------------------------------------------------------------------
(* Properties.                                                             *)

\* Without a trailing dot.
Trimmed(s) == SubSeq(s, 1, Len(s) - (IF s[Len(s)] = "" THEN 1 ELSE 0))

Nested(prefixes) ==
    \E i, j \in DOMAIN prefixes :
        i # j /\ IsPrefix(Trimmed(prefixes[j]), Trimmed(prefixes[i]))

\* Without nested prefixes, the service lists the names at most depth parts below
\* some prefix, or all of them when depth is 0.  (With nested ones the loop's break
\* lets the first prefix that matches decide.)
ListedExactly ==
    ~Nested(request.prefixes) /\ request.prefixes # << >> =>
        response.names =
            {s \in names : \E i \in DOMAIN request.prefixes :
                LET p == Trimmed(request.prefixes[i])
                    t == Trimmed(s)
                IN  /\ Len(p) <= Len(t) /\ SubSeq(t, 1, Len(p)) = p
                    /\ request.depth # 0 => Len(t) - Len(p) <= request.depth}
==============================================================================

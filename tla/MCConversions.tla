---------------------------- MODULE MCConversions ----------------------------
(* Tokens, namespaces and bytes as values: a cfg has no sequences.         *)
EXTENDS Conversions

NameTokens == {<< >>, <<"a">>, <<"a", "Request">>, <<"rosout">>}
\* A character of two bytes, the first or the second of it alone, and an overlong form.
OtherBytes == {<<0>>, <<2>>, <<9>>, <<127>>, <<195, 169>>, <<195>>, <<169>>, <<192, 128>>}
NodeNamespaces == {<< >>, <<<<"a">>>>, <<<<"a">>, <<"a", "Request">>>>, <<<<"a">>, << >>>>}
==============================================================================

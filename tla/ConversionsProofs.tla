-------------------------- MODULE ConversionsProofs --------------------------
(***************************************************************************)
(* What is proved of the conversions: list_parameters answers exactly,     *)
(* names and types meet in DDS exactly when they are meant to, the graph   *)
(* snapshot shows them as they were given, and messages arrive.            *)
(***************************************************************************)
EXTENDS Conversions, CdrProofs

-----------------------------------------------------------------------------
(* list_parameters.                                                        *)

\* The inductive invariant of list_parameters: the answer is that to the last request.
ListInv ==
    /\ names \in SUBSET Strings /\ request \in Requests
    /\ response = Answer(names, request)

\* A string without its trailing dot has the parts that tokenize() finds.
LEMMA TokenizeTrims ==
    ASSUME NEW s \in Strings
    PROVE  /\ tokenize(s) = Trimmed(s)
           /\ tokenize(s) \in Seq(Parts)
<1>0. MaxParts \in Nat
  BY ListAssumption
<1>1. PICK n \in 1..MaxParts : s \in [1..n -> Parts]
  BY DEF Strings
<1>2. n \in Nat /\ n >= 1
  BY <1>0
<1>3. s \in Seq(Parts) /\ Len(s) = n
  BY <1>1, <1>2
<1>4. SubSeq(s, 1, Len(s)) = s
  BY <1>3
<1>5. SubSeq(s, 1, Len(s) - 1) \in Seq(Parts)
  BY <1>2, <1>3
<1>6. Len(s) - 0 = Len(s)
  BY <1>2, <1>3
<1>7. CASE s[Len(s)] = ""
  BY <1>5, <1>7 DEF tokenize, Trimmed, Last, Front
<1>8. CASE s[Len(s)] # ""
  BY <1>3, <1>4, <1>6, <1>8 DEF tokenize, Trimmed, Last
<1> QED BY <1>7, <1>8

\* A list_parameters answer, when no prefix of the request nests in another: one prefix
\* at most begins a name, so that the first that does is the only one.
LEMMA ListedUnnested ==
    ASSUME NEW prefixes \in Seq(Strings), NEW depth \in Nat, NEW s \in Strings,
           prefixes # << >>, ~Nested(prefixes)
    PROVE  Listed(s, prefixes, depth) <=>
             \E i \in DOMAIN prefixes :
                 /\ Len(Trimmed(prefixes[i])) <= Len(Trimmed(s))
                 /\ SubSeq(Trimmed(s), 1, Len(Trimmed(prefixes[i]))) = Trimmed(prefixes[i])
                 /\ depth # 0 => Len(Trimmed(s)) - Len(Trimmed(prefixes[i])) <= depth
<1>1. \A i \in DOMAIN prefixes :
        /\ prefixes[i] \in Strings
        /\ tokenize(prefixes[i]) = Trimmed(prefixes[i])
        /\ Trimmed(prefixes[i]) \in Seq(Parts)
  BY TokenizeTrims
<1>2. tokenize(s) = Trimmed(s) /\ Trimmed(s) \in Seq(Parts)
  BY TokenizeTrims
<1>3. \A i, j \in DOMAIN prefixes :
        Matches(s, prefixes[i]) /\ Matches(s, prefixes[j]) => i = j
  <2> SUFFICES ASSUME NEW i \in DOMAIN prefixes, NEW j \in DOMAIN prefixes,
                      Matches(s, prefixes[i]), Matches(s, prefixes[j]), i # j
               PROVE  FALSE
    OBVIOUS
  <2>1. /\ IsPrefix(Trimmed(prefixes[i]), Trimmed(s))
        /\ IsPrefix(Trimmed(prefixes[j]), Trimmed(s))
    BY <1>1, <1>2 DEF Matches
  <2>2. \/ IsPrefix(Trimmed(prefixes[i]), Trimmed(prefixes[j]))
        \/ IsPrefix(Trimmed(prefixes[j]), Trimmed(prefixes[i]))
    BY <1>1, <1>2, <2>1, PrefixesNest
  <2> QED BY <2>2 DEF Nested
<1>4. \A i \in DOMAIN prefixes : Matches(s, prefixes[i]) => DecidedBy(s, prefixes) = i
  <2> SUFFICES ASSUME NEW i \in DOMAIN prefixes, Matches(s, prefixes[i])
               PROVE  DecidedBy(s, prefixes) = i
    OBVIOUS
  <2>1. i \in Nat /\ DOMAIN prefixes = 1..Len(prefixes)
    OBVIOUS
  <2>2. \A j \in 1..(i - 1) : j \in DOMAIN prefixes /\ j # i
    BY <2>1
  <2>3. \A j \in 1..(i - 1) : ~Matches(s, prefixes[j])
    BY <1>3, <2>2
  <2>4. \A k \in DOMAIN prefixes : Matches(s, prefixes[k]) => k = i
    BY <1>3
  <2> QED BY <2>3, <2>4 DEF DecidedBy
<1>5. \A i \in DOMAIN prefixes :
        Matches(s, prefixes[i]) <=>
            /\ Len(Trimmed(prefixes[i])) <= Len(Trimmed(s))
            /\ SubSeq(Trimmed(s), 1, Len(Trimmed(prefixes[i]))) = Trimmed(prefixes[i])
  <2> SUFFICES ASSUME NEW i \in DOMAIN prefixes
               PROVE  Matches(s, prefixes[i]) <=>
                        /\ Len(Trimmed(prefixes[i])) <= Len(Trimmed(s))
                        /\ SubSeq(Trimmed(s), 1, Len(Trimmed(prefixes[i])))
                             = Trimmed(prefixes[i])
    OBVIOUS
  <2>1. SubSeq(Trimmed(prefixes[i]), 1, Len(Trimmed(prefixes[i]))) = Trimmed(prefixes[i])
    BY <1>1
  <2> QED BY <1>1, <1>2, <2>1 DEF Matches, IsPrefix
<1>6. \A i \in DOMAIN prefixes :
        Within(Below(s, prefixes[i]), depth) <=>
            (depth # 0 => Len(Trimmed(s)) - Len(Trimmed(prefixes[i])) <= depth)
  BY <1>1, <1>2 DEF Within, Below
<1>7. Listed(s, prefixes, depth) <=>
        \E i \in DOMAIN prefixes :
            Matches(s, prefixes[i]) /\ Within(Below(s, prefixes[i]), depth)
  BY <1>4 DEF Listed
<1> QED BY <1>5, <1>6, <1>7

\* list_parameters answers the last request from the names that are declared.
LEMMA ListInvariant ==
    Spec => []ListInv
<1>1. Init => ListInv
  <2>1. << >> \in SeqOf(Strings, MaxPrefixes) /\ 0 \in 0..MaxDepth
    <3>1. MaxPrefixes \in Nat /\ MaxDepth \in Nat
      BY ListAssumption
    <3>2. 0 \in 0..MaxPrefixes /\ 0 \in 0..MaxDepth
      BY <3>1
    <3>3. << >> \in [1..0 -> Strings]
      OBVIOUS
    <3> QED BY <3>2, <3>3 DEF SeqOf
  <2>2. [prefixes |-> << >>, depth |-> 0] \in Requests
    BY <2>1 DEF Requests
  <2> QED BY <2>2 DEF Init, ListInit, ListInv
<1>2. ListInv /\ [Next]_vars => ListInv'
  <2> SUFFICES ASSUME ListInv, [Next]_vars PROVE ListInv'
    OBVIOUS
  <2>1. CASE UNCHANGED listVars
    BY <2>1 DEF ListInv, listVars
  <2>2. CASE ListNext
    BY <2>2 DEF ListInv, ListNext, handle_list
  <2> QED BY <2>1, <2>2 DEF Next, vars
<1> QED BY <1>1, <1>2, PTL DEF Spec

\* For every set of declared names and every request whose prefixes do not nest,
\* handle_list() lists exactly the names at most depth parts below a prefix.
THEOREM ListExactly ==
    Spec => []ListedExactly
<1>1. ListInv => ListedExactly
  <2> SUFFICES ASSUME ListInv, ~Nested(request.prefixes), request.prefixes # << >>
               PROVE  response.names =
                        {s \in names : \E i \in DOMAIN request.prefixes :
                            LET p == Trimmed(request.prefixes[i])
                                t == Trimmed(s)
                            IN  /\ Len(p) <= Len(t) /\ SubSeq(t, 1, Len(p)) = p
                                /\ request.depth # 0 => Len(t) - Len(p) <= request.depth}
    BY DEF ListedExactly
  <2>1. request.prefixes \in Seq(Strings) /\ request.depth \in Nat
    <3>1. request.prefixes \in SeqOf(Strings, MaxPrefixes) /\ request.depth \in 0..MaxDepth
      BY DEF ListInv, Requests
    <3>2. MaxPrefixes \in Nat /\ MaxDepth \in Nat
      BY ListAssumption
    <3>3. PICK n \in 0..MaxPrefixes : request.prefixes \in [1..n -> Strings]
      BY <3>1 DEF SeqOf
    <3>4. n \in Nat
      BY <3>2
    <3> QED BY <3>1, <3>2, <3>3, <3>4
  <2>2. response.names = {s \in names : Listed(s, request.prefixes, request.depth)}
    BY DEF ListInv, Answer
  <2>3. names \subseteq Strings
    BY DEF ListInv
  <2>4. \A s \in names :
          Listed(s, request.prefixes, request.depth) <=>
             \E i \in DOMAIN request.prefixes :
                 /\ Len(Trimmed(request.prefixes[i])) <= Len(Trimmed(s))
                 /\ SubSeq(Trimmed(s), 1, Len(Trimmed(request.prefixes[i])))
                      = Trimmed(request.prefixes[i])
                 /\ request.depth # 0 =>
                      Len(Trimmed(s)) - Len(Trimmed(request.prefixes[i])) <= request.depth
    BY <2>1, <2>3, ListedUnnested
  <2> QED BY <2>2, <2>4
<1> QED BY <1>1, ListInvariant, PTL

-----------------------------------------------------------------------------
(* What Spell() writes of a path.                                          *)

\* The pieces names and DDS topic names are made of.
Pieces == STRING \cup {"/", "rt", "rq", "rr", "Request", "Reply"}

\* A token is a sequence of pieces of which none is a slash.
Toks == {t \in Seq(STRING) : "/" \notin ToSet(t)}

\* The tokens of a path, each behind a slash: what Spell() writes of an absolute name.
Slashed(p) == FlattenSeq([i \in DOMAIN p |-> <<"/">> \o p[i]])

\* A token and the slash before it are pieces of a name.
LEMMA SlashToken ==
    ASSUME NEW t \in Toks
    PROVE  /\ t \in Seq(Pieces) /\ <<"/">> \o t \in Seq(Pieces)
           /\ \A i \in 1..Len(t) : t[i] # "/"
<1>1. "/" \in Pieces
  BY DEF Pieces
<1>2. t \in Seq(Pieces) /\ \A i \in 1..Len(t) : t[i] # "/"
  <2>1. STRING \subseteq Pieces
    BY DEF Pieces
  <2>2. t \in Seq(STRING) /\ "/" \notin ToSet(t)
    BY DEF Toks
  <2>3. t \in Seq(Pieces)
    BY <2>1, <2>2, SeqMonotonic
  <2> QED BY <2>2, <2>3 DEF ToSet
<1>3. <<"/">> \in Seq(Pieces)
  BY <1>1
<1> QED BY <1>2, <1>3

\* A path of one more token is spelled with one more slash and that token.
LEMMA SlashedAppend ==
    ASSUME NEW p \in Seq(Toks), NEW t \in Toks
    PROVE  Slashed(Append(p, t)) = Slashed(p) \o (<<"/">> \o t)
<1> DEFINE ss == [i \in DOMAIN p |-> <<"/">> \o p[i]]
           s == <<"/">> \o t
           tt == [i \in DOMAIN Append(p, t) |-> <<"/">> \o Append(p, t)[i]]
<1>1. \A u \in Toks : <<"/">> \o u \in Seq(Pieces)
  BY SlashToken
<1>2. ss \in Seq(Seq(Pieces)) /\ s \in Seq(Pieces)
  <2>1. DOMAIN p = 1..Len(p) /\ Len(p) \in Nat /\ \A i \in DOMAIN p : p[i] \in Toks
    OBVIOUS
  <2>2. ss \in [1..Len(p) -> Seq(Pieces)]
    BY <1>1, <2>1
  <2>3. s \in Seq(Pieces)
    BY <1>1
  <2> HIDE DEF ss, s
  <2> QED BY <2>1, <2>2, <2>3
<1>3. tt = Append(ss, s)
  <2> DEFINE n == Len(p)
  <2>1. DOMAIN p = 1..n /\ n \in Nat
    OBVIOUS
  <2>2. /\ DOMAIN Append(p, t) = 1..(n + 1) /\ Append(p, t)[n + 1] = t
        /\ \A i \in 1..n : Append(p, t)[i] = p[i]
    OBVIOUS
  <2>3. ss \in [1..n -> Seq(Pieces)] /\ Len(ss) = n
    BY <1>2, <2>1
  <2>4. tt = [i \in 1..(n + 1) |-> IF i = n + 1 THEN s ELSE ss[i]]
    BY <2>1, <2>2
  <2>5. Append(ss, s) = [i \in 1..(n + 1) |-> IF i = n + 1 THEN s ELSE ss[i]]
    BY <1>2, <2>3
  <2> QED BY <2>4, <2>5
<1> HIDE DEF ss, s, tt
<1>4. FlattenSeq(tt) = FlattenSeq(ss) \o s
  BY <1>2, <1>3, FlattenSeqAppend
<1> QED BY <1>4 DEF Slashed, ss, s, tt

\* Of no token, nothing is spelled.
LEMMA SlashedEmpty ==
    Slashed(<< >>) = << >>
<1>1. [i \in DOMAIN << >> |-> <<"/">> \o << >>[i]] = << >>
  OBVIOUS
<1> QED BY <1>1, FlattenSeqEmpty DEF Slashed

\* What is spelled of a path is a sequence of pieces.
LEMMA SlashedSeq ==
    ASSUME NEW p \in Seq(Toks)
    PROVE  Slashed(p) \in Seq(Pieces)
<1> DEFINE P == {q \in Seq(Toks) : Slashed(q) \in Seq(Pieces)}
<1>1. << >> \in P
  <2>1. << >> \in Seq(Toks) /\ << >> \in Seq(Pieces)
    OBVIOUS
  <2> QED BY <2>1, SlashedEmpty
<1>2. ASSUME NEW q \in Seq(Toks), NEW t \in Toks, q \in P
      PROVE  Append(q, t) \in P
  <2>1. Slashed(Append(q, t)) = Slashed(q) \o (<<"/">> \o t)
    BY SlashedAppend
  <2>2. <<"/">> \o t \in Seq(Pieces)
    BY SlashToken
  <2>3. Append(q, t) \in Seq(Toks)
    OBVIOUS
  <2>4. \A a, b \in Seq(Pieces) : a \o b \in Seq(Pieces)
    OBVIOUS
  <2>5. Slashed(q) \in Seq(Pieces)
    BY <1>2
  <2> QED BY <2>1, <2>2, <2>3, <2>4, <2>5
<1> HIDE DEF P
<1>3. Seq(Toks) \subseteq P
  BY <1>1, <1>2, SeqInductionSet
<1> QED BY <1>3 DEF P

\* Something, a slash and a token.
Ends(w, a, t) == w = a \o (<<"/">> \o t)

\* The pieces of something, a slash and a token.
LEMMA SlashShape ==
    ASSUME NEW a \in Seq(Pieces), NEW t \in Toks, NEW w, Ends(w, a, t)
    PROVE  /\ w \in Seq(Pieces)
           /\ Len(a) \in Nat /\ Len(t) \in Nat /\ Len(w) = Len(a) + 1 + Len(t)
           /\ w[Len(a) + 1] = "/"
           /\ \A i \in 1..Len(a) : w[i] = a[i]
           /\ \A i \in 1..Len(t) : w[Len(a) + 1 + i] = t[i]
<1>1. t \in Seq(Pieces) /\ <<"/">> \o t \in Seq(Pieces)
  BY SlashToken
<1> DEFINE s == <<"/">> \o t
<1>2. Len(s) = 1 + Len(t) /\ s[1] = "/" /\ \A i \in 1..Len(t) : s[1 + i] = t[i]
  BY <1>1
<1>3. s \in Seq(Pieces) /\ w = a \o s
  BY <1>1 DEF Ends
<1> HIDE DEF s
<1>4. /\ w \in Seq(Pieces) /\ Len(w) = Len(a) + Len(s)
      /\ \A i \in 1..Len(a) : w[i] = a[i]
      /\ \A i \in 1..Len(s) : w[Len(a) + i] = s[i]
  <2>1. /\ w \in Seq(Pieces) /\ Len(w) = Len(a) + Len(s)
        /\ \A i \in 1..(Len(a) + Len(s)) :
             w[i] = IF i <= Len(a) THEN a[i] ELSE s[i - Len(a)]
    BY <1>3, ConcatProperties
  <2>2. Len(a) \in Nat /\ Len(s) \in Nat
    BY <1>3
  <2>3. \A m, n \in Nat : \A i \in 1..n : /\ m + i \in 1..(m + n) /\ ~(m + i <= m)
                                          /\ (m + i) - m = i
    OBVIOUS
  <2>4. \A m, n \in Nat : \A i \in 1..m : i \in 1..(m + n) /\ i <= m
    OBVIOUS
  <2>5. \A i \in 1..Len(s) : w[Len(a) + i] = s[i]
    BY <2>1, <2>2, <2>3
  <2>6. \A i \in 1..Len(a) : w[i] = a[i]
    BY <2>1, <2>2, <2>4
  <2> QED BY <2>1, <2>5, <2>6
<1>5. Len(a) \in Nat /\ Len(t) \in Nat
  BY <1>1
<1>6. w[Len(a) + 1] = "/"
  BY <1>2, <1>4, <1>5
<1>7. \A i \in 1..Len(t) : w[Len(a) + 1 + i] = t[i]
  <2> SUFFICES ASSUME NEW i \in 1..Len(t) PROVE w[Len(a) + 1 + i] = t[i]
    OBVIOUS
  <2>1. 1 + i \in 1..Len(s) /\ Len(a) + (1 + i) = Len(a) + 1 + i
    BY <1>2, <1>5
  <2> QED BY <1>2, <1>4, <2>1
<1> QED BY <1>2, <1>4, <1>5, <1>6, <1>7

\* A slash and a token behind something: both can be told from the whole.
LEMMA LastSlash ==
    ASSUME NEW a \in Seq(Pieces), NEW b \in Seq(Pieces), NEW t \in Toks, NEW u \in Toks,
           NEW w, Ends(w, a, t), Ends(w, b, u)
    PROVE  a = b /\ t = u
<1>0. t \in Seq(Pieces) /\ u \in Seq(Pieces)
  BY SlashToken
<1>1. /\ Len(w) = Len(a) + 1 + Len(t) /\ w[Len(a) + 1] = "/"
      /\ \A i \in 1..Len(a) : w[i] = a[i]
      /\ \A i \in 1..Len(t) : w[Len(a) + 1 + i] = t[i]
  BY SlashShape
<1>2. /\ Len(w) = Len(b) + 1 + Len(u) /\ w[Len(b) + 1] = "/"
      /\ \A i \in 1..Len(b) : w[i] = b[i]
      /\ \A i \in 1..Len(u) : w[Len(b) + 1 + i] = u[i]
  BY SlashShape
<1>3. /\ \A i \in 1..Len(t) : t[i] # "/"
      /\ \A i \in 1..Len(u) : u[i] # "/"
  BY SlashToken
<1>4. Len(a) \in Nat /\ Len(b) \in Nat /\ Len(t) \in Nat /\ Len(u) \in Nat
  BY <1>0
<1>5. ~(Len(a) < Len(b))
  <2> SUFFICES ASSUME Len(a) < Len(b) PROVE FALSE
    OBVIOUS
  <2> DEFINE k == Len(b) - Len(a)
  <2>1. k \in 1..Len(t) /\ Len(a) + 1 + k = Len(b) + 1
    BY <1>1, <1>2, <1>4
  <2>2. w[Len(a) + 1 + k] = t[k]
    BY <1>1, <2>1
  <2> QED BY <1>2, <1>3, <2>1, <2>2
<1>6. ~(Len(b) < Len(a))
  <2> SUFFICES ASSUME Len(b) < Len(a) PROVE FALSE
    OBVIOUS
  <2> DEFINE k == Len(a) - Len(b)
  <2>1. k \in 1..Len(u) /\ Len(b) + 1 + k = Len(a) + 1
    BY <1>1, <1>2, <1>4
  <2>2. w[Len(b) + 1 + k] = u[k]
    BY <1>2, <2>1
  <2> QED BY <1>1, <1>3, <2>1, <2>2
<1>7. Len(a) = Len(b) /\ Len(t) = Len(u)
  BY <1>1, <1>2, <1>4, <1>5, <1>6
<1>8. a = b
  <2>1. \A i \in 1..Len(a) : a[i] = b[i]
    BY <1>1, <1>2, <1>7
  <2> QED BY <1>7, <2>1, SeqEqual
<1>9. t = u
  <2>1. \A i \in 1..Len(t) : t[i] = u[i]
    BY <1>1, <1>2, <1>7
  <2> QED BY <1>0, <1>7, <2>1, SeqEqual
<1> QED BY <1>8, <1>9

\* The first piece is a slash, and before a token that is not empty the only one.
LEMMA SlashedBegins ==
    ASSUME NEW p \in Seq(Toks), p # << >>
    PROVE  /\ Len(Slashed(p)) >= Len(p) /\ Slashed(p)[1] = "/"
           /\ p[1] # << >> => Len(Slashed(p)) >= 2 /\ Slashed(p)[2] # "/"
<1> DEFINE P == {q \in Seq(Toks) : q # << >> =>
                   /\ Len(Slashed(q)) >= Len(q) /\ Slashed(q)[1] = "/"
                   /\ q[1] # << >> => Len(Slashed(q)) >= 2 /\ Slashed(q)[2] # "/"}
<1>1. << >> \in P
  OBVIOUS
<1>2. ASSUME NEW q \in Seq(Toks), NEW t \in Toks, q \in P
      PROVE  Append(q, t) \in P
  <2>1. t \in Seq(Pieces) /\ \A i \in 1..Len(t) : t[i] # "/"
    BY SlashToken
  <2>2. Append(q, t) \in Seq(Toks)
    OBVIOUS
  <2> DEFINE a == Slashed(q)
             w == a \o (<<"/">> \o t)
  <2>3. Slashed(Append(q, t)) = w
    BY SlashedAppend
  <2>4. a \in Seq(Pieces)
    BY SlashedSeq
  <2>5. CASE q = << >>
    <3>1. a = << >>
      BY <2>5, SlashedEmpty
    <3>2. w = <<"/">> \o t
      BY <2>1, <3>1
    <3>3. Len(w) = 1 + Len(t) /\ w[1] = "/" /\ (Len(t) >= 1 => w[2] = t[1])
      BY <2>1, <3>2
    <3>4. Append(q, t)[1] = t /\ Len(Append(q, t)) = 1
      BY <2>5
    <3>5. Len(t) \in Nat /\ (t # << >> => Len(t) >= 1)
      BY <2>1
    <3> HIDE DEF w, a
    <3>6. /\ Len(w) >= Len(Append(q, t)) /\ w[1] = "/"
          /\ t # << >> => Len(w) >= 2 /\ w[2] # "/"
      BY <2>1, <3>3, <3>4, <3>5
    <3> QED BY <2>2, <2>3, <3>4, <3>6
  <2>6. CASE q # << >>
    <3>1. /\ Len(a) >= Len(q) /\ a[1] = "/"
          /\ q[1] # << >> => Len(a) >= 2 /\ a[2] # "/"
      BY <1>2, <2>6
    <3>2. Len(w) = Len(a) + 1 + Len(t) /\ \A i \in 1..Len(a) : w[i] = a[i]
      BY <2>1, <2>4
    <3>3. Append(q, t)[1] = q[1] /\ Len(Append(q, t)) = Len(q) + 1 /\ Len(q) >= 1
      BY <2>6
    <3>4. Len(a) \in Nat /\ Len(q) \in Nat /\ Len(t) \in Nat
      BY <2>1, <2>4
    <3> HIDE DEF w, a
    <3>5. /\ Len(w) >= Len(Append(q, t)) /\ w[1] = "/"
          /\ q[1] # << >> => Len(w) >= 2 /\ w[2] # "/"
      BY <3>1, <3>2, <3>3, <3>4
    <3> QED BY <2>2, <2>3, <3>3, <3>5
  <2> QED BY <2>5, <2>6
<1> HIDE DEF P
<1>3. Seq(Toks) \subseteq P
  BY <1>1, <1>2, SeqInductionSet
<1> QED BY <1>3 DEF P

\* Two paths that are spelled alike are the same: a token has no slash in it.
LEMMA SlashedInjective ==
    ASSUME NEW p \in Seq(Toks), NEW r \in Seq(Toks), Slashed(p) = Slashed(r)
    PROVE  p = r
<1> DEFINE P == {q \in Seq(Toks) : \A s \in Seq(Toks) : Slashed(q) = Slashed(s) => q = s}
<1>1. << >> \in P
  <2>1. ASSUME NEW s \in Seq(Toks), s # << >> PROVE Slashed(s) # << >>
    <3>1. Len(Slashed(s)) >= Len(s) /\ Len(s) \in Nat /\ Len(s) # 0
      BY <2>1, SlashedBegins
    <3> QED BY <3>1
  <2> QED BY <2>1, SlashedEmpty
<1>2. ASSUME NEW q \in Seq(Toks), NEW t \in Toks, q \in P
      PROVE  Append(q, t) \in P
  <2> SUFFICES ASSUME NEW s \in Seq(Toks), Slashed(Append(q, t)) = Slashed(s)
               PROVE  Append(q, t) = s
    OBVIOUS
  <2>1. Slashed(Append(q, t)) = Slashed(q) \o (<<"/">> \o t)
    BY SlashedAppend
  <2>2. Slashed(q) \in Seq(Pieces)
    BY SlashedSeq
  <2>3. s # << >>
    <3>1. Append(q, t) \in Seq(Toks) /\ Append(q, t) # << >> /\ Len(Append(q, t)) \in Nat \ {0}
      <4>1. Append(q, t) \in Seq(Toks) /\ Append(q, t) # << >>
        BY AppendProperties
      <4>2. Len(Append(q, t)) = Len(q) + 1 /\ Len(q) \in Nat
        OBVIOUS
      <4> QED BY <4>1, <4>2
    <3>2. Len(Slashed(Append(q, t))) >= Len(Append(q, t))
      BY <3>1, SlashedBegins
    <3>3. Slashed(Append(q, t)) # << >>
      BY <3>1, <3>2
    <3> QED BY <3>3, SlashedEmpty
  <2>4. PICK b \in Seq(Toks), u \in Toks : s = Append(b, u)
    BY <2>3, Splits
  <2>5. Slashed(s) = Slashed(b) \o (<<"/">> \o u) /\ Slashed(b) \in Seq(Pieces)
    BY <2>4, SlashedAppend, SlashedSeq
  <2>6. Slashed(q) = Slashed(b) /\ t = u
    <3>1. Ends(Slashed(s), Slashed(q), t) /\ Ends(Slashed(s), Slashed(b), u)
      BY <2>1, <2>5 DEF Ends
    <3> QED BY <2>2, <2>5, <3>1, LastSlash
  <2> QED BY <1>2, <2>4, <2>6
<1> HIDE DEF P
<1>3. Seq(Toks) \subseteq P
  BY <1>1, <1>2, SeqInductionSet
<1> QED BY <1>3 DEF P

\* The paths that a name has: that of one empty token would be spelled "/", as the path
\* of no token is.
Paths == Seq(Toks) \ {<< << >> >>}

\* One token.
LEMMA SlashedOne ==
    ASSUME NEW t \in Toks
    PROVE  <<t>> \in Seq(Toks) /\ Slashed(<<t>>) = <<"/">> \o t
<1>1. Append(<< >>, t) = <<t>> /\ << >> \in Seq(Toks)
  OBVIOUS
<1>2. Slashed(Append(<< >>, t)) = Slashed(<< >>) \o (<<"/">> \o t)
  BY <1>1, SlashedAppend
<1>3. << >> \o (<<"/">> \o t) = <<"/">> \o t
  BY SlashToken, ConcatEmptySeq
<1>4. <<t>> \in Seq(Toks)
  OBVIOUS
<1> QED BY <1>1, <1>2, <1>3, <1>4, SlashedEmpty

\* Spell() of an absolute name begins with a slash, and of a relative one is without it.
LEMMA SpellIs ==
    ASSUME NEW p \in Seq(Toks)
    PROVE  /\ Spell(TRUE, p) = IF p = << >> THEN <<"/">> ELSE Slashed(p)
           /\ Spell(TRUE, p) \in Seq(Pieces) /\ Spell(TRUE, p) # << >>
           /\ Spell(TRUE, p)[1] = "/"
           /\ Spell(FALSE, p) = IF p = << >> THEN << >> ELSE Tail(Slashed(p))
<1>1. Spell(TRUE, p) = IF p = << >> THEN <<"/">> ELSE Slashed(p)
  BY DEF Spell, Slashed
<1>2. Spell(FALSE, p) = IF p = << >> THEN << >> ELSE Tail(Slashed(p))
  BY DEF Spell, Slashed
<1>3. CASE p = << >>
  <2>1. "/" \in Pieces
    BY DEF Pieces
  <2>2. <<"/">> \in Seq(Pieces) /\ <<"/">> # << >> /\ <<"/">>[1] = "/"
    BY <2>1
  <2>3. Spell(TRUE, p) = <<"/">>
    BY <1>1, <1>3
  <2> QED BY <1>1, <1>2, <2>2, <2>3, Zenon
<1>4. CASE p # << >>
  <2>1. Len(Slashed(p)) >= Len(p) /\ Slashed(p)[1] = "/" /\ Slashed(p) \in Seq(Pieces)
    BY <1>4, SlashedBegins, SlashedSeq
  <2>2. Len(p) \in Nat /\ Len(p) # 0
    BY <1>4
  <2>3. Slashed(p) # << >>
    BY <2>1, <2>2
  <2> QED BY <1>1, <1>2, <1>4, <2>1, <2>3
<1> QED BY <1>3, <1>4

\* Only the path of no token is spelled "/".
LEMMA SlashOnly ==
    ASSUME NEW p \in Paths, p # << >>
    PROVE  Slashed(p) # <<"/">>
<1>1. << >> \in Toks
  <2>1. << >> \in Seq(STRING) /\ ToSet(<< >>) = {}
    BY DEF ToSet
  <2> QED BY <2>1 DEF Toks
<1>2. <<"/">> \o << >> = <<"/">>
  <2>1. "/" \in Pieces
    BY DEF Pieces
  <2>2. <<"/">> \in Seq(Pieces)
    BY <2>1
  <2> QED BY <2>2, ConcatEmptySeq
<1>3. Slashed(<< << >> >>) = <<"/">> /\ << << >> >> \in Seq(Toks)
  BY <1>1, <1>2, SlashedOne
<1> QED BY <1>3, SlashedInjective DEF Paths

\* Absolute names that are spelled alike have the same path.
LEMMA SpellInjective ==
    ASSUME NEW p \in Paths, NEW q \in Paths, Spell(TRUE, p) = Spell(TRUE, q)
    PROVE  p = q
<1>1. p \in Seq(Toks) /\ q \in Seq(Toks)
  BY DEF Paths
<1>2. /\ Spell(TRUE, p) = IF p = << >> THEN <<"/">> ELSE Slashed(p)
      /\ Spell(TRUE, q) = IF q = << >> THEN <<"/">> ELSE Slashed(q)
  BY <1>1, SpellIs
<1>3. CASE p # << >> /\ q # << >>
  BY <1>1, <1>2, <1>3, SlashedInjective
<1>4. CASE p = << >> \/ q = << >>
  BY <1>2, <1>4, SlashOnly
<1> QED BY <1>3, <1>4

\* A relative name of several tokens has a slash in it.
LEMMA RelativeSlash ==
    ASSUME NEW p \in Seq(Toks), p # << >>, p[1] # << >>
    PROVE  /\ Tail(Slashed(p)) \in Seq(Pieces) /\ Tail(Slashed(p)) # << >>
           /\ Tail(Slashed(p))[1] # "/"
           /\ "/" \notin ToSet(Tail(Slashed(p))) =>
                 \E t \in Toks : p = <<t>> /\ Tail(Slashed(p)) = t
<1> DEFINE w == Slashed(p)
<1>1. w \in Seq(Pieces) /\ Len(w) >= 2 /\ w[2] # "/" /\ Len(w) \in Nat
  BY SlashedSeq, SlashedBegins
<1>2. w # << >>
  BY <1>1
<1> HIDE DEF w
<1>3. /\ Tail(w) \in Seq(Pieces) /\ Len(Tail(w)) = Len(w) - 1
      /\ \A i \in 1..(Len(w) - 1) : Tail(w)[i] = w[i + 1]
  BY <1>1, <1>2, HeadTailProperties
<1>4. Tail(w) # << >> /\ Tail(w)[1] # "/"
  <2>1. 1 \in 1..(Len(w) - 1) /\ 1 + 1 = 2 /\ Len(w) - 1 # 0
    BY <1>1
  <2>2. Len(Tail(w)) # 0 /\ Tail(w)[1] = w[1 + 1]
    BY <1>3, <2>1
  <2>3. Tail(w) # << >>
    <3>1. Len(<< >>) = 0
      OBVIOUS
    <3> QED BY <2>2, <3>1, Zenon
  <2> QED BY <1>1, <2>1, <2>2, <2>3
<1>5. ASSUME "/" \notin ToSet(Tail(w))
      PROVE  \E t \in Toks : p = <<t>> /\ Tail(w) = t
  <2>1. PICK q \in Seq(Toks), t \in Toks : p = Append(q, t)
    BY Splits
  <2>2. Slashed(q) \in Seq(Pieces) /\ Ends(w, Slashed(q), t)
    BY <2>1, SlashedSeq, SlashedAppend DEF w, Ends
  <2>3. CASE q # << >>
    <3>1. Len(Slashed(q)) >= Len(q) /\ Len(q) \in Nat /\ Len(q) # 0
      BY <2>3, SlashedBegins
    <3> DEFINE k == Len(Slashed(q))
    <3>2. /\ k \in Nat /\ k >= 1 /\ Len(t) \in Nat /\ Len(w) = k + 1 + Len(t)
          /\ w[k + 1] = "/"
      BY <2>2, <3>1, SlashShape
    <3> HIDE DEF k
    <3>3. k \in 1..(Len(w) - 1)
      BY <3>2
    <3>4. Tail(w)[k] = "/" /\ k \in DOMAIN Tail(w)
      BY <1>3, <3>2, <3>3
    <3> QED BY <1>5, <3>4 DEF ToSet
  <2>4. CASE q = << >>
    <3>1. p = <<t>>
      BY <2>1, <2>4
    <3>2. w = <<"/">> \o t
      BY <3>1, SlashedOne DEF w
    <3>3. Tail(w) = t
      BY <3>2, SlashToken
    <3> QED BY <3>1, <3>3
  <2> QED BY <2>3, <2>4
<1> QED BY <1>3, <1>4, <1>5 DEF w

\* The path that a name stands for in a namespace.
PathOf(name, ns) == IF name.absolute THEN name.tokens ELSE ns \o name.tokens

\* expand_topic_name(), where its result passes validation, spells the path that the name
\* stands for in the node's namespace: an absolute name is kept, a relative one has one token.
LEMMA ExpandedIs ==
    ASSUME NEW name \in NamesGiven, NEW ns \in Paths, name.tokens \in Seq(Toks),
           ValidFqn(expand_topic_name(Spell(name.absolute, name.tokens), Spell(TRUE, ns)))
    PROVE  /\ PathOf(name, ns) \in Paths
           /\ expand_topic_name(Spell(name.absolute, name.tokens), Spell(TRUE, ns))
                = Spell(TRUE, PathOf(name, ns))
<1> DEFINE x == expand_topic_name(Spell(name.absolute, name.tokens), Spell(TRUE, ns))
           path == PathOf(name, ns)
<1>b. path = IF name.absolute THEN name.tokens ELSE ns \o name.tokens
  BY DEF PathOf
<1>c. x = expand_topic_name(Spell(name.absolute, name.tokens), Spell(TRUE, ns)) /\ ValidFqn(x)
  OBVIOUS
<1> HIDE DEF x, path
<1> SUFFICES path \in Paths /\ x = Spell(TRUE, path)
  BY DEF x, path
<1> DEFINE p == name.tokens
<1>0. /\ name.absolute \in BOOLEAN /\ p # << << >> >> /\ p \in Seq(Toks)
      /\ ~name.absolute /\ p # << >> => Head(p) # << >>
  BY DEF NamesGiven
<1>1. CASE name.absolute
  <2>0. name.absolute = TRUE
    BY <1>0, <1>1
  <2>1. Spell(TRUE, p) \in Seq(Pieces) /\ Spell(TRUE, p) # << >> /\ Spell(TRUE, p)[1] = "/"
    BY <1>0, SpellIs
  <2>2. x = Spell(TRUE, p)
    <3> DEFINE topic == Spell(TRUE, p)
               s == Spell(TRUE, ns)
    <3>1. x = expand_topic_name(topic, s)
      BY <1>c, <2>0
    <3>0. topic \in Seq(Pieces) /\ topic # << >> /\ topic[1] = "/"
      BY <2>1
    <3> HIDE DEF topic, s
    <3>2. topic # << >> /\ Head(topic) = "/"
      BY <3>0
    <3>3. x = topic
      BY <3>1, <3>2 DEF expand_topic_name
    <3> QED BY <3>3 DEF topic
  <2> QED BY <1>0, <1>b, <1>1, <2>2 DEF Paths
<1>2. CASE ~name.absolute
  <2>0. name.absolute = FALSE
    BY <1>0, <1>2
  <2> DEFINE topic == Spell(FALSE, p)
             s == Spell(TRUE, ns)
  <2>1. x = expand_topic_name(topic, s) /\ x # Error
    <3>1. ~ValidFqn(Error)
      BY DEF ValidFqn, Error
    <3> QED BY <1>c, <2>0, <3>1
  <2> HIDE DEF s, topic
  <2>2. topic # << >> /\ (Head(topic) = "/" \/ "/" \notin ToSet(topic))
    BY <2>1 DEF expand_topic_name
  <2>3. topic = IF p = << >> THEN << >> ELSE Tail(Slashed(p))
    BY <1>0, SpellIs DEF topic
  <2>4. p # << >> /\ topic = Tail(Slashed(p)) /\ Head(p) # << >>
    BY <1>0, <1>2, <2>2, <2>3
  <2>5. /\ topic \in Seq(Pieces) /\ topic[1] # "/"
        /\ "/" \notin ToSet(topic) => \E t \in Toks : p = <<t>> /\ topic = t
    BY <1>0, <2>4, RelativeSlash
  <2>6. Head(topic) # "/"
    BY <2>2, <2>5
  <2>7. PICK t \in Toks : p = <<t>> /\ topic = t
    BY <2>2, <2>5, <2>6
  <2>8. t # << >>
    BY <2>2, <2>7
  <2>9. x = IF s = <<"/">> \/ s = << >> THEN <<"/">> \o t ELSE s \o <<"/">> \o t
    BY <2>1, <2>2, <2>6, <2>7 DEF expand_topic_name
  <2>10. ns \in Seq(Toks) /\ s \in Seq(Pieces) /\ s # << >>
         /\ s = IF ns = << >> THEN <<"/">> ELSE Slashed(ns)
    BY SpellIs DEF Paths, s
  <2>11. path = ns \o <<t>>
    BY <1>b, <1>2, <2>7
  <2>12. CASE ns = << >>
    <3>1. x = <<"/">> \o t
      BY <2>9, <2>10, <2>12
    <3>2. path = <<t>> /\ <<t>> # << >> /\ <<t>> # << << >> >>
      BY <2>8, <2>11, <2>12
    <3>3. <<t>> \in Seq(Toks) /\ Slashed(<<t>>) = x
      BY <3>1, SlashedOne
    <3>4. Spell(TRUE, <<t>>) = Slashed(<<t>>)
      BY <3>2, <3>3, SpellIs
    <3> QED BY <3>2, <3>3, <3>4 DEF Paths
  <2>13. CASE ns # << >>
    <3>1. s = Slashed(ns) /\ s # <<"/">>
      BY <2>10, <2>13, SlashOnly
    <3>2. x = s \o <<"/">> \o t
      BY <2>9, <2>10, <3>1
    <3>3. (s \o <<"/">>) \o t = s \o (<<"/">> \o t)
      <4>1. "/" \in Pieces
        BY DEF Pieces
      <4>2. <<"/">> \in Seq(Pieces) /\ t \in Seq(Pieces)
        BY <4>1, SlashToken
      <4>3. \A a, b, c \in Seq(Pieces) : (a \o b) \o c = a \o (b \o c)
        BY ConcatAssociative
      <4>4. s \in Seq(Pieces)
        BY <2>10
      <4> QED BY <4>2, <4>3, <4>4, Zenon
    <3>4. Append(ns, t) = ns \o <<t>>
      BY <2>10, AppendIsConcat
    <3>5. Append(ns, t) \in Seq(Toks) /\ Append(ns, t) # << >> /\ Append(ns, t) # << << >> >>
      <4>1. /\ Append(ns, t) \in Seq(Toks) /\ Append(ns, t) # << >>
            /\ Len(Append(ns, t)) = Len(ns) + 1 /\ Len(ns) \in Nat /\ Len(ns) # 0
        BY <2>10, <2>13, AppendProperties
      <4>2. Len(<< << >> >>) = 1
        OBVIOUS
      <4> QED BY <4>1, <4>2
    <3>6. Slashed(Append(ns, t)) = Slashed(ns) \o (<<"/">> \o t)
      BY <2>10, SlashedAppend
    <3>7. Spell(TRUE, Append(ns, t)) = Slashed(Append(ns, t))
      BY <3>5, SpellIs
    <3>8. Spell(TRUE, Append(ns, t)) = x
      BY <3>1, <3>2, <3>3, <3>6, <3>7, Zenon
    <3> QED BY <2>11, <3>4, <3>5, <3>8, Zenon DEF Paths
  <2> QED BY <2>12, <2>13
<1> QED BY <1>1, <1>2

\* The FFI's raw endpoints expand nothing: a name that passes validation there is absolute.
LEMMA RawIs ==
    ASSUME NEW name \in NamesGiven, name.tokens \in Seq(Toks),
           ValidFqn(Spell(name.absolute, name.tokens))
    PROVE  name.absolute = TRUE /\ name.tokens \in Paths
<1> DEFINE p == name.tokens
<1>0. /\ name.absolute \in BOOLEAN /\ p # << << >> >> /\ p \in Seq(Toks)
      /\ ~name.absolute /\ p # << >> => Head(p) # << >>
  BY DEF NamesGiven
<1>1. ASSUME name.absolute = FALSE PROVE FALSE
  <2>1. Spell(FALSE, p) = IF p = << >> THEN << >> ELSE Tail(Slashed(p))
    BY <1>0, SpellIs
  <2> DEFINE topic == Spell(FALSE, p)
  <2>2. topic # << >> /\ Head(topic) = "/"
    BY <1>1 DEF ValidFqn
  <2>3. p # << >> /\ topic = Tail(Slashed(p))
    BY <2>1, <2>2
  <2> HIDE DEF topic
  <2>5. p[1] # << >>
    BY <1>0, <1>1, <2>3
  <2>4. topic \in Seq(Pieces) /\ topic[1] # "/"
    BY <1>0, <2>3, <2>5, RelativeSlash
  <2> QED BY <2>2, <2>4
<1> QED BY <1>0, <1>1 DEF Paths

-----------------------------------------------------------------------------
(* DDS type names and topic names.                                         *)

\* dds_type_name() makes "pkg::msg" of "pkg/msg".
LEMMA FirstSlash ==
    ReplaceFirstSubSeq(<<"::">>, <<"/">>, <<"pkg", "/", "msg">>) = <<"pkg", "::", "msg">>
<1> DEFINE S == {"pkg", "/", "msg", "::"}
           t == <<"pkg", "/", "msg">>
           sub == <<"/">>
           Has(i) == sub \in SubSeqs(SubSeq(t, 1, i))
<1>0. /\ t \in Seq(S) /\ Len(t) = 3 /\ t[1] = "pkg" /\ t[2] = "/" /\ t[3] = "msg"
      /\ Len(sub) = 1 /\ "/" \in S /\ "pkg" \in S /\ "msg" \in S
  OBVIOUS
<1> HIDE DEF t, S
<1>1. sub \in SubSeqs(t)
  <2>2. 2 \in 1..Len(t)
    BY <1>0
  <2> QED BY <1>0, <2>2, OneOfSubSeqs
<1>2. ASSUME NEW n \in 0..2
      PROVE  Has(n) <=> n = 2
  <2> DEFINE u == SubSeq(t, 1, n)
  <2>1. /\ n \in Nat /\ 1 <= n + 1 /\ n <= Len(t) /\ n - 1 + 1 = n
        /\ \A i \in 1..n : 1 + i - 1 = i
    BY <1>0
  <2>2. u \in Seq(S) /\ Len(u) = n /\ \A i \in 1..n : u[i] = t[i]
    BY <1>0, <2>1, PiecesOfSubSeq
  <2> HIDE DEF u
  <2>3. sub \in SubSeqs(u) <=> \E i \in 1..n : u[i] = "/"
    BY <1>0, <2>2, OneOfSubSeqs
  <2>4. (\E i \in 1..n : t[i] = "/") <=> n = 2
    BY <1>0
  <2> QED BY <2>2, <2>3, <2>4 DEF u
<1> HIDE DEF Has
<1>4. \A i \in 0..3 : Has(i) /\ (\A j \in 0..(i - 1) : ~Has(j)) <=> i = 2
  <2> SUFFICES ASSUME NEW i \in 0..3
               PROVE  Has(i) /\ (\A j \in 0..(i - 1) : ~Has(j)) <=> i = 2
    OBVIOUS
  <2>1. CASE i = 0 \/ i = 1
    BY <1>2, <2>1
  <2>2. CASE i = 2
    <3>1. \A j \in 0..(2 - 1) : j \in 0..2 /\ j # 2
      OBVIOUS
    <3> QED BY <1>2, <2>2, <3>1
  <2>3. CASE i = 3
    <3>1. 2 \in 0..(3 - 1) /\ 2 \in 0..2
      OBVIOUS
    <3> QED BY <1>2, <2>3, <3>1
  <2> QED BY <2>1, <2>2, <2>3
<1>5. (CHOOSE i \in 0..3 : Has(i) /\ \A j \in 0..(i - 1) : ~Has(j)) = 2
  <2>1. 2 \in 0..3
    OBVIOUS
  <2> QED BY <1>4, <2>1
<1>6. IndexFirstSubSeq(sub, t) = 2 - (Len(sub) - 1)
  BY <1>0, <1>5 DEF IndexFirstSubSeq, Has
<1>7. IndexFirstSubSeq(sub, t) = 2
  BY <1>0, <1>6
<1>8. ReplaceFirstSubSeq(<<"::">>, sub, t) = ReplaceSubSeqAt(2, <<"::">>, sub, t)
  BY <1>1, <1>7, Zenon DEF ReplaceFirstSubSeq
<1>9. ReplaceSubSeqAt(2, <<"::">>, sub, t) = <<"pkg", "::", "msg">>
  <2>1. SubSeq(t, 1, 1) = <<"pkg">>
    <3>1. 1 <= Len(t) /\ 1 <= 1 + 1 /\ 1 - 1 + 1 = 1 /\ 1 + 1 - 1 = 1
      BY <1>0
    <3> DEFINE q == SubSeq(t, 1, 1)
    <3>2. q \in Seq(S) /\ Len(q) = 1 /\ q[1] = t[1]
      BY <1>0, <3>1, PiecesOfSubSeq
    <3> HIDE DEF q
    <3>3. q = <<"pkg">>
      BY <1>0, <3>2, OnePiece
    <3> QED BY <3>3 DEF q
  <2>2. SubSeq(t, 3, 3) = <<"msg">>
    <3>1. 3 <= Len(t) /\ 3 <= 3 + 1 /\ 3 - 3 + 1 = 1 /\ 3 + 1 - 1 = 3
      BY <1>0
    <3> DEFINE q == SubSeq(t, 3, 3)
    <3>2. q \in Seq(S) /\ Len(q) = 1 /\ q[1] = t[3]
      BY <1>0, <3>1, PiecesOfSubSeq
    <3> HIDE DEF q
    <3>3. q = <<"msg">>
      BY <1>0, <3>2, OnePiece
    <3> QED BY <3>3 DEF q
  <2>3. <<"pkg">> \o <<"::">> \o <<"msg">> = <<"pkg", "::", "msg">>
    BY ThreeJoined
  <2>4. 2 - 1 = 1 /\ 2 + Len(sub) = 3 /\ Len(t) = 3
    BY <1>0
  <2> HIDE DEF sub
  <2> QED BY <2>1, <2>2, <2>3, <2>4, Zenon DEF ReplaceSubSeqAt
<1> QED BY <1>8, <1>9, Zenon DEF t

\* What MessageType<>::dds_name() returns, named so that it stays a fact of its own.
Framed(dd, p, q, k, r, name, z) == dd = <<p, q, k, r>> \o name \o <<z>>

\* The kind, the first piece of the message's name and the "::" of a DDS type name.
LEMMA FramedFirst ==
    ASSUME NEW T, NEW name \in Seq(T), name # << >>,
           NEW p, NEW q, NEW k, NEW r, NEW z, NEW dd, Framed(dd, p, q, k, r, name, z)
    PROVE  dd[3] = k /\ dd[5] = name[1] /\ q \in ToSet(dd)
<1> DEFINE SS == T \cup {p, q, k, r, z}
           a == <<p, q, k, r>>
           u == <<z>>
           b == a \o name
<1>1. /\ a \in Seq(SS) /\ Len(a) = 4 /\ a[2] = q /\ a[3] = k
      /\ u \in Seq(SS) /\ Len(u) = 1
  OBVIOUS
<1>2. dd = b \o u
  BY DEF Framed
<1>3. name \in Seq(SS)
  <2>1. T \subseteq SS
    OBVIOUS
  <2> QED BY <2>1, SeqMonotonic
<1>4. Len(name) \in Nat /\ Len(name) # 0
  OBVIOUS
<1> HIDE DEF a, u, b, SS
<1>5. /\ b \in Seq(SS) /\ Len(b) = Len(a) + Len(name)
      /\ \A i \in 1..Len(a) : b[i] = a[i]
      /\ \A i \in 1..Len(name) : b[Len(a) + i] = name[i]
  <2>1. Joins(b, a, name)
    BY DEF Joins, b
  <2>2. a \in Seq(SS)
    BY <1>1
  <2> QED BY <1>3, <2>1, <2>2, Joined
<1>6. /\ dd \in Seq(SS) /\ Len(dd) = Len(b) + Len(u)
      /\ \A i \in 1..Len(b) : dd[i] = b[i]
  <2>1. Joins(dd, b, u)
    BY <1>2 DEF Joins
  <2>2. b \in Seq(SS) /\ u \in Seq(SS)
    BY <1>1, <1>5
  <2> QED BY <2>1, <2>2, Joined
<1>7. \A nn \in Nat : nn # 0 => /\ 2 \in 1..(4 + nn) /\ 3 \in 1..(4 + nn) /\ 5 \in 1..(4 + nn)
                               /\ 2 \in 1..4 /\ 3 \in 1..4 /\ 1 \in 1..nn /\ 4 + 1 = 5
  OBVIOUS
<1>8. Len(b) = 4 + Len(name)
  BY <1>1, <1>5
<1>9. dd[2] = q /\ dd[3] = k /\ dd[5] = name[1]
  <2>1. /\ 2 \in 1..Len(b) /\ 3 \in 1..Len(b) /\ 5 \in 1..Len(b)
        /\ 2 \in 1..Len(a) /\ 3 \in 1..Len(a) /\ 1 \in 1..Len(name) /\ Len(a) + 1 = 5
    BY <1>1, <1>4, <1>7, <1>8
  <2>2. b[2] = a[2] /\ b[3] = a[3]
    BY <1>5, <2>1
  <2>3. b[5] = name[1]
    BY <1>5, <2>1
  <2>4. dd[2] = b[2] /\ dd[3] = b[3] /\ dd[5] = b[5]
    BY <1>6, <2>1
  <2> QED BY <1>1, <2>2, <2>3, <2>4
<1>10. 2 \in DOMAIN dd
  BY <1>1, <1>4, <1>6, <1>8
<1> QED BY <1>9, <1>10 DEF ToSet

\* The same of MessageType<>::dds_name().
LEMMA DdsNameShape ==
    ASSUME NEW T, NEW n \in Seq(T), n # << >>,
           NEW kind, NEW d, d = dds_name("pkg", kind, n)
    PROVE  d[3] = kind /\ d[5] = n[1] /\ "::" \in ToSet(d)
<1> DEFINE f == "::dds_::"
           g == "_"
<1>1. Framed(d, "pkg", "::", kind, f, n, g)
  BY Zenon DEF dds_name, Framed
<1> HIDE DEF f, g
<1> QED BY <1>1, FramedFirst

\* dds_type_name() takes a message's ROS type name and its DDS type name to the DDS name
\* that the generated code registers.
LEMMA TypeSpellings ==
    ASSUME NEW type \in MessageNames
    PROVE  /\ dds_type_name(<<"pkg", "/", "msg", "/", type>>) = dds_name("pkg", "msg", <<type>>)
           /\ dds_type_name(dds_name("pkg", "msg", <<type>>)) = dds_name("pkg", "msg", <<type>>)
<1>0. type # "/" /\ type # "::"
  BY DEF MessageNames
<1> DEFINE S == {"pkg", "msg", "/", type}
<1>a. "pkg" \in S /\ "msg" \in S /\ type \in S /\ "/" \in S
  OBVIOUS
<1> HIDE DEF S
<1>1. dds_type_name(dds_name("pkg", "msg", <<type>>)) = dds_name("pkg", "msg", <<type>>)
  <2> DEFINE d == dds_name("pkg", "msg", <<type>>)
             n == <<type>>
  <2>0. n \in Seq({type}) /\ n # << >>
    OBVIOUS
  <2>1. "::" \in ToSet(d)
    <3>1. d = dds_name("pkg", "msg", n)
      OBVIOUS
    <3> HIDE DEF n, d
    <3> QED BY <2>0, <3>1, DdsNameShape
  <2> HIDE DEF d
  <2>5. dds_type_name(d) = d
    BY <2>1, Zenon DEF dds_type_name
  <2> QED BY <2>5 DEF d
<1>2. dds_type_name(<<"pkg", "/", "msg", "/", type>>) = dds_name("pkg", "msg", <<type>>)
  <2> DEFINE r == <<"pkg", "/", "msg", "/", type>>
             cut == CHOOSE i \in DOMAIN r :
                      r[i] = "/" /\ \A j \in (i + 1)..Len(r) : r[j] # "/"
  <2>1. /\ Len(r) = 5 /\ DOMAIN r = 1..5 /\ r[1] = "pkg" /\ r[2] = "/" /\ r[3] = "msg"
        /\ r[4] = "/" /\ r[5] = type
    OBVIOUS
  <2>0. r \in Seq(S)
    BY <1>a
  <2> HIDE DEF r
  <2>2. SubSeq(r, 1, 3) = <<"pkg", "/", "msg">> /\ SubSeq(r, 5, 5) = <<type>>
    <3>1. /\ 1 <= 3 + 1 /\ 3 <= Len(r) /\ 3 - 1 + 1 = 3
          /\ 1 + 1 - 1 = 1 /\ 1 + 2 - 1 = 2 /\ 1 + 3 - 1 = 3
          /\ 1 \in 1..(3 - 1 + 1) /\ 2 \in 1..(3 - 1 + 1) /\ 3 \in 1..(3 - 1 + 1)
      BY <2>1
    <3> DEFINE q == SubSeq(r, 1, 3)
    <3>2. /\ q \in Seq(S) /\ Len(q) = 3 - 1 + 1
          /\ \A i \in 1..(3 - 1 + 1) : q[i] = r[1 + i - 1]
      BY <2>0, <3>1, PiecesOfSubSeq
    <3>3. Len(q) = 3 /\ q[1] = "pkg" /\ q[2] = "/" /\ q[3] = "msg"
      BY <2>1, <3>1, <3>2
    <3>4. /\ 5 <= 5 + 1 /\ 5 <= Len(r) /\ 5 - 5 + 1 = 1 /\ 5 + 1 - 1 = 5
      BY <2>1
    <3> DEFINE v == SubSeq(r, 5, 5)
    <3>5. v \in Seq(S) /\ Len(v) = 1 /\ v[1] = type
      BY <2>0, <2>1, <3>4, PiecesOfSubSeq
    <3> HIDE DEF q, v
    <3>6. q = <<"pkg", "/", "msg">>
      BY <1>a, <3>2, <3>3, ThreePieces
    <3>7. v = <<type>>
      BY <1>a, <3>5, OnePiece
    <3> QED BY <3>6, <3>7 DEF q, v
  <2>3. \A i \in 1..5 : i = 1 \/ i = 2 \/ i = 3 \/ i = 4 \/ i = 5
    OBVIOUS
  <2>4. "::" \notin ToSet(r)
    BY <1>0, <2>1, <2>3 DEF ToSet
  <2>5. "/" \in ToSet(r)
    BY <2>1 DEF ToSet
  <2>6. cut = 4
    <3>1. 4 \in 1..5 /\ \A j \in (4 + 1)..5 : j = 5
      OBVIOUS
    <3>2. r[4] = "/" /\ \A j \in (4 + 1)..Len(r) : r[j] # "/"
      BY <1>0, <2>1, <3>1
    <3>3. ASSUME NEW i \in 1..5, r[i] = "/" /\ \A j \in (i + 1)..Len(r) : r[j] # "/"
          PROVE  i = 4
      <4>1. i = 2 => 4 \in (i + 1)..5
        OBVIOUS
      <4>2. i # 2
        BY <2>1, <3>3, <4>1
      <4> QED BY <1>0, <2>1, <2>3, <3>3, <4>2
    <3> QED BY <2>1, <3>1, <3>2, <3>3
  <2> HIDE DEF cut
  <2>7. dds_type_name(r) =
          ReplaceFirstSubSeq(<<"::">>, <<"/">>, SubSeq(r, 1, cut - 1)) \o <<"::dds_::">>
            \o SubSeq(r, cut + 1, Len(r)) \o <<"_">>
    BY <2>4, <2>5, Zenon DEF dds_type_name, cut
  <2>8. cut - 1 = 3 /\ cut + 1 = 5
    BY <2>6
  <2>9. dds_type_name(r) = <<"pkg", "::", "msg">> \o <<"::dds_::">> \o <<type>> \o <<"_">>
    BY <2>1, <2>2, <2>7, <2>8, FirstSlash, Zenon
  <2>10. <<"pkg", "::", "msg">> \o <<"::dds_::">> = <<"pkg", "::", "msg", "::dds_::">>
    BY FourPieces, Zenon
  <2> QED BY <2>9, <2>10, Zenon DEF dds_name, r
<1> QED BY <1>1, <1>2

\* What an endpoint is for.
Roles == {"topic", "request", "reply"}

\* The DDS topic of an endpoint for each role, of a name that has passed validation.
DdsTopic(role, fqn) ==
    CASE role = "topic" -> <<"rt">> \o fqn
      [] role = "request" -> <<"rq">> \o fqn \o <<"Request">>
      [] role = "reply" -> <<"rr">> \o fqn \o <<"Reply">>

\* The DDS type of an endpoint for each role.
DdsType(role, type) ==
    CASE role = "topic" -> dds_name("pkg", "msg", <<type>>)
      [] role = "request" -> dds_name("pkg", "srv", <<type, "_Request">>)
      [] role = "reply" -> dds_name("pkg", "srv", <<type, "_Response">>)

\* The pieces that a role adds to a name.
LEMMA PieceConstants ==
    /\ "rt" \in Pieces /\ "rq" \in Pieces /\ "rr" \in Pieces
    /\ "Request" \in Pieces /\ "Reply" \in Pieces
BY DEF Pieces

\* An endpoint's DDS topic, named so that it stays a fact of its own.
IsTopic(w, role, x) == w = DdsTopic(role, x)

\* The pieces of the DDS name of each role.
LEMMA TopicShape ==
    ASSUME NEW x \in Seq(Pieces), x # << >>, NEW role \in Roles,
           NEW w, IsTopic(w, role, x)
    PROVE  /\ w \in Seq(Pieces) /\ Len(w) = Len(x) + (IF role = "topic" THEN 1 ELSE 2)
           /\ w[1] = IF role = "topic" THEN "rt" ELSE IF role = "request" THEN "rq" ELSE "rr"
           /\ \A i \in 1..Len(x) : w[i + 1] = x[i]
           /\ role = "request" => Last(w) = "Request"
<1>0. Len(x) \in Nat
  OBVIOUS
<1>a. \A i \in 1..Len(x) : i + 1 \in 1..(Len(x) + 1) /\ 1 \in 1..(Len(x) + 1)
  BY <1>0
<1>b. 1 \in 1..(Len(x) + 1)
  BY <1>0
<1>1. CASE role = "topic"
  <2>1. Joins(w, <<"rt">>, x)
    BY <1>1 DEF IsTopic, DdsTopic, Joins
  <2> QED BY <1>1, <2>1, PieceConstants, FirstPiece
<1>2. ASSUME NEW first \in Pieces, NEW last \in Pieces,
             NEW v, Joins(v, <<first>>, x), Joins(w, v, <<last>>)
      PROVE  /\ w \in Seq(Pieces) /\ Len(w) = Len(x) + 2 /\ w[1] = first /\ Last(w) = last
             /\ \A i \in 1..Len(x) : w[i + 1] = x[i]
  <2>1. /\ v \in Seq(Pieces) /\ v[1] = first /\ Len(v) = Len(x) + 1
        /\ \A i \in 1..Len(x) : v[i + 1] = x[i]
    BY <1>2, FirstPiece
  <2>3. /\ w \in Seq(Pieces) /\ Len(w) = Len(v) + 1 /\ Last(w) = last
        /\ \A i \in 1..Len(v) : w[i] = v[i]
    BY <1>2, <2>1, LastPiece
  <2> QED BY <1>0, <1>a, <1>b, <2>1, <2>3
<1>3. CASE role = "request"
  <2> DEFINE v == <<"rq">> \o x
  <2>1. Joins(v, <<"rq">>, x) /\ Joins(w, v, <<"Request">>)
    BY <1>3 DEF IsTopic, DdsTopic, Joins
  <2> HIDE DEF v
  <2> QED BY <1>2, <1>3, <2>1, PieceConstants
<1>4. CASE role = "reply"
  <2> DEFINE v == <<"rr">> \o x
  <2>1. Joins(v, <<"rr">>, x) /\ Joins(w, v, <<"Reply">>)
    BY <1>4 DEF IsTopic, DdsTopic, Joins
  <2> HIDE DEF v
  <2> QED BY <1>2, <1>4, <2>1, PieceConstants
<1> QED BY <1>1, <1>3, <1>4 DEF Roles

\* From a DDS topic, the role and the ROS name can be told: no two of them share one.
LEMMA TopicInjective ==
    ASSUME NEW x \in Seq(Pieces), x # << >>, NEW y \in Seq(Pieces), y # << >>,
           NEW r \in Roles, NEW s \in Roles,
           NEW w, IsTopic(w, r, x), IsTopic(w, s, y)
    PROVE  r = s /\ x = y
<1>1. /\ Len(w) = Len(x) + (IF r = "topic" THEN 1 ELSE 2)
      /\ w[1] = IF r = "topic" THEN "rt" ELSE IF r = "request" THEN "rq" ELSE "rr"
      /\ \A i \in 1..Len(x) : w[i + 1] = x[i]
  BY TopicShape
<1>2. /\ Len(w) = Len(y) + (IF s = "topic" THEN 1 ELSE 2)
      /\ w[1] = IF s = "topic" THEN "rt" ELSE IF s = "request" THEN "rq" ELSE "rr"
      /\ \A i \in 1..Len(y) : w[i + 1] = y[i]
  BY TopicShape
<1>3. r = s
  BY <1>1, <1>2 DEF Roles
<1>4. Len(x) = Len(y)
  <2>1. Len(x) \in Nat /\ Len(y) \in Nat
    OBVIOUS
  <2> QED BY <1>1, <1>2, <1>3, <2>1
<1>5. \A i \in 1..Len(x) : x[i] = y[i]
  BY <1>1, <1>2, <1>4
<1>6. x = y
  BY <1>4, <1>5, SeqEqual
<1> QED BY <1>3, <1>6

\* From a DDS type and the role, the message type can be told.
LEMMA TypeInjective ==
    ASSUME NEW role \in Roles, NEW x, NEW y, DdsType(role, x) = DdsType(role, y)
    PROVE  x = y
<1>1. ASSUME NEW kind, NEW m, NEW n, m[1] = x, n[1] = y, m # << >>, n # << >>,
             NEW T, m \in Seq(T), n \in Seq(T),
             dds_name("pkg", kind, m) = dds_name("pkg", kind, n)
      PROVE  x = y
  <2> DEFINE d == dds_name("pkg", kind, m)
  <2>1. d[5] = m[1]
    BY <1>1, DdsNameShape
  <2>2. d = dds_name("pkg", kind, n)
    BY <1>1
  <2> HIDE DEF d
  <2>3. d[5] = n[1]
    BY <1>1, <2>2, DdsNameShape
  <2> QED BY <1>1, <2>1, <2>3
<1>4. CASE role = "topic"
  <2> DEFINE m == <<x>>
             n == <<y>>
  <2>1. m[1] = x /\ n[1] = y /\ m # << >> /\ n # << >> /\ m \in Seq({x, y}) /\ n \in Seq({x, y})
    OBVIOUS
  <2>2. dds_name("pkg", "msg", m) = dds_name("pkg", "msg", n)
    BY <1>4, Zenon DEF DdsType
  <2> HIDE DEF m, n
  <2> QED BY <1>1, <2>1, <2>2
<1>5. ASSUME NEW z, dds_name("pkg", "srv", <<x, z>>) = dds_name("pkg", "srv", <<y, z>>)
      PROVE  x = y
  <2> DEFINE m == <<x, z>>
             n == <<y, z>>
  <2>1. /\ m[1] = x /\ n[1] = y /\ m # << >> /\ n # << >>
        /\ m \in Seq({x, y, z}) /\ n \in Seq({x, y, z})
    OBVIOUS
  <2>2. dds_name("pkg", "srv", m) = dds_name("pkg", "srv", n)
    BY <1>5
  <2> HIDE DEF m, n
  <2> QED BY <1>1, <2>1, <2>2
<1>6. CASE role = "request"
  <2> DEFINE z == "_Request"
  <2>1. dds_name("pkg", "srv", <<x, z>>) = dds_name("pkg", "srv", <<y, z>>)
    BY <1>6, Zenon DEF DdsType
  <2> HIDE DEF z
  <2> QED BY <1>5, <2>1
<1>7. CASE role = "reply"
  <2> DEFINE z == "_Response"
  <2>1. dds_name("pkg", "srv", <<x, z>>) = dds_name("pkg", "srv", <<y, z>>)
    BY <1>7, Zenon DEF DdsType
  <2> HIDE DEF z
  <2> QED BY <1>5, <2>1
<1> QED BY <1>4, <1>6, <1>7 DEF Roles

-----------------------------------------------------------------------------
(* The invariant of the names.                                             *)

\* An endpoint stands under the DDS names of its role, its path and its type.
Named(e) ==
    /\ e.role \in Roles /\ e.path \in Paths /\ e.type \in MessageNames
    /\ e.topic = DdsTopic(e.role, Spell(TRUE, e.path))
    /\ e.dds_type = DdsType(e.role, e.type)

\* The inductive invariant of the names: every endpoint, however it was created, stands
\* under the names that its role, path and type have.
NameInv ==
    /\ node.ns \in Paths
    /\ \A e \in endpoints : Named(e)

\* The tokens of the model have no slash.
LEMMA TokensAreToks ==
    Tokens \subseteq Toks
BY ConversionsAssumption DEF Toks

\* The names that a program gives are made of tokens.
LEMMA GivenTokens ==
    ASSUME NEW name \in NamesGiven
    PROVE  name.tokens \in Seq(Toks)
<1>1. name.tokens \in SeqOf(Tokens, MaxTokens)
  BY DEF NamesGiven
<1>2. PICK n \in 0..MaxTokens : name.tokens \in [1..n -> Tokens]
  BY <1>1 DEF SeqOf
<1>3. MaxTokens \in Nat
  BY ConversionsAssumption
<1>4. n \in Nat
  BY <1>3
<1>5. name.tokens \in Seq(Tokens)
  BY <1>2, <1>4
<1> QED BY <1>5, TokensAreToks, SeqMonotonic

\* The namespaces that a program gives are paths.
LEMMA NamespacePaths ==
    Namespaces \subseteq Paths
<1> SUFFICES ASSUME NEW ns \in Namespaces PROVE ns \in Paths
  OBVIOUS
<1>1. ns \in Seq(Tokens) /\ ns # << << >> >>
  BY ConversionsAssumption
<1>2. ns \in Seq(Toks)
  BY <1>1, TokensAreToks, SeqMonotonic
<1> QED BY <1>1, <1>2 DEF Paths

\* A mapping that does not throw has been given a valid name.
LEMMA CheckedIs ==
    ASSUME NEW x, NEW dds, Checked(x, dds) # Error
    PROVE  ValidFqn(x) /\ Checked(x, dds) = dds
BY DEF Checked

\* An endpoint that is added under the names of its role, path and type keeps the invariant.
LEMMA AddNamed ==
    ASSUME NEW role \in Roles, NEW name, NEW type \in MessageNames, NEW topic, NEW dds_type,
           NameInv, Add(role, name, type, topic, dds_type),
           LET path == IF name.absolute THEN name.tokens ELSE node.ns \o name.tokens
           IN  path \in Paths /\ topic = DdsTopic(role, Spell(TRUE, path)),
           dds_type = DdsType(role, type)
    PROVE  NameInv'
<1> DEFINE path == IF name.absolute THEN name.tokens ELSE node.ns \o name.tokens
           e == [role |-> role, type |-> type, topic |-> topic, dds_type |-> dds_type,
                 path |-> path]
<1>1. endpoints' = endpoints \cup {e} /\ node' = node
  BY DEF Add
<1>2. path \in Paths /\ topic = DdsTopic(role, Spell(TRUE, path))
  OBVIOUS
<1> HIDE DEF path
<1>3. /\ e.role = role /\ e.type = type /\ e.topic = topic /\ e.dds_type = dds_type
      /\ e.path = path
  OBVIOUS
<1> HIDE DEF e
<1>4. Named(e)
  BY <1>2, <1>3, Zenon DEF Named
<1>5. node.ns \in Paths /\ \A f \in endpoints : Named(f)
  BY DEF NameInv
<1>6. \A f \in endpoints' : Named(f)
  BY <1>1, <1>4, <1>5
<1>7. node'.ns \in Paths
  BY <1>1, <1>5
<1> QED BY <1>6, <1>7, Zenon DEF NameInv

\* The invariant of the names holds in every state.
LEMMA NameInvariant ==
    Spec => []NameInv
<1>1. Init => NameInv
  <2> SUFFICES ASSUME Init PROVE NameInv
    OBVIOUS
  <2>1. node = NoNode /\ endpoints = {}
    BY DEF Init, NameInit
  <2>2. NoNode.ns = << >>
    BY DEF NoNode
  <2>3. << >> \in Seq(Toks) /\ << >> # << << >> >>
    OBVIOUS
  <2> QED BY <2>1, <2>2, <2>3 DEF NameInv, Paths
<1>2. NameInv /\ [Next]_vars => NameInv'
  <2> SUFFICES ASSUME NameInv, [Next]_vars PROVE NameInv'
    OBVIOUS
  <2>1. CASE UNCHANGED nameVars
    BY <2>1, Zenon DEF NameInv, nameVars, Named
  <2>2. ASSUME NEW ns \in Namespaces, NEW name \in Tokens, CreateNode(ns, name)
        PROVE  NameInv'
    <3>1. node'.ns = ns /\ endpoints' = endpoints
      BY <2>2 DEF CreateNode
    <3>2. node'.ns \in Paths
      BY <3>1, NamespacePaths
    <3>3. \A e \in endpoints' : Named(e)
      BY <3>1, Zenon DEF NameInv
    <3> QED BY <3>2, <3>3, Zenon DEF NameInv
  <2> SUFFICES ASSUME NEW name \in NamesGiven, NEW type \in MessageNames,
                      CreateTyped(name, type) \/ CreateService(name, type)
                        \/ CreateRaw(name, type)
               PROVE  NameInv'
    BY <2>1, <2>2 DEF Next, NameNext, vars
  <2> DEFINE path == IF name.absolute THEN name.tokens ELSE node.ns \o name.tokens
             x == Expanded(name)
  <2>3. name.tokens \in Seq(Toks)
    BY GivenTokens
  <2>4. node.ns \in Paths
    BY DEF NameInv
  <2>5. ValidFqn(x) => path \in Paths /\ x = Spell(TRUE, path)
    <3>1. x = expand_topic_name(Spell(name.absolute, name.tokens), Spell(TRUE, node.ns))
      BY DEF Expanded
    <3>2. path = PathOf(name, node.ns)
      BY DEF PathOf
    <3>3. ValidFqn(expand_topic_name(Spell(name.absolute, name.tokens), Spell(TRUE, node.ns)))
            => /\ PathOf(name, node.ns) \in Paths
               /\ expand_topic_name(Spell(name.absolute, name.tokens), Spell(TRUE, node.ns))
                    = Spell(TRUE, PathOf(name, node.ns))
      BY <2>3, <2>4, ExpandedIs
    <3> QED BY <3>1, <3>2, <3>3, Zenon
  <2> HIDE DEF x
  <2>6. CASE CreateTyped(name, type)
    <3> DEFINE topic == ros_to_dds_topic_name(x)
    <3>1. Add("topic", name, type, topic, dds_name("pkg", "msg", <<type>>))
      BY <2>6 DEF CreateTyped, x
    <3>2. topic = Checked(x, <<"rt">> \o x)
      BY DEF ros_to_dds_topic_name
    <3>3. topic # Error
      BY <3>1 DEF Add
    <3> HIDE DEF topic
    <3>4. ValidFqn(x) /\ topic = <<"rt">> \o x
      BY <3>2, <3>3, CheckedIs
    <3>5. path \in Paths /\ topic = DdsTopic("topic", Spell(TRUE, path))
      BY <2>5, <3>4, Zenon DEF DdsTopic
    <3>6. dds_name("pkg", "msg", <<type>>) = DdsType("topic", type) /\ "topic" \in Roles
      BY Zenon DEF DdsType, Roles
    <3> QED BY <3>1, <3>5, <3>6, AddNamed
  <2>7. CASE CreateService(name, type)
    <3> DEFINE asked == ros_to_dds_request_topic_name(x)
               answered == ros_to_dds_reply_topic_name(x)
    <3>1. CASE Add("request", name, type, asked, DdsType("request", type))
      <4>2. asked = Checked(x, <<"rq">> \o x \o <<"Request">>)
        BY DEF ros_to_dds_request_topic_name
      <4>3. asked # Error
        BY <3>1 DEF Add
      <4> HIDE DEF asked
      <4>4. ValidFqn(x) /\ asked = <<"rq">> \o x \o <<"Request">>
        BY <4>2, <4>3, CheckedIs
      <4>5. path \in Paths /\ asked = DdsTopic("request", Spell(TRUE, path))
        BY <2>5, <4>4, Zenon DEF DdsTopic
      <4>6. "request" \in Roles
        BY Zenon DEF Roles
      <4> QED BY <3>1, <4>5, <4>6, AddNamed
    <3>2. CASE Add("reply", name, type, answered, DdsType("reply", type))
      <4>2. answered = Checked(x, <<"rr">> \o x \o <<"Reply">>)
        BY DEF ros_to_dds_reply_topic_name
      <4>3. answered # Error
        BY <3>2 DEF Add
      <4> HIDE DEF answered
      <4>4. ValidFqn(x) /\ answered = <<"rr">> \o x \o <<"Reply">>
        BY <4>2, <4>3, CheckedIs
      <4>5. path \in Paths /\ answered = DdsTopic("reply", Spell(TRUE, path))
        BY <2>5, <4>4, Zenon DEF DdsTopic
      <4>6. "reply" \in Roles
        BY Zenon DEF Roles
      <4> QED BY <3>2, <4>5, <4>6, AddNamed
    <3> QED BY <2>7, <3>1, <3>2, Zenon DEF CreateService, DdsType, x
  <2>8. CASE CreateRaw(name, type)
    <3> DEFINE s == Spell(name.absolute, name.tokens)
               topic == ros_to_dds_topic_name(s)
    <3>1. PICK spelling \in {<<"pkg", "/", "msg", "/", type>>, dds_name("pkg", "msg", <<type>>)} :
            Add("topic", name, type, topic, dds_type_name(spelling))
      BY <2>8, Zenon DEF CreateRaw
    <3>2. dds_type_name(spelling) = DdsType("topic", type)
      BY <3>1, TypeSpellings, Zenon DEF DdsType
    <3>3. topic # Error /\ topic = Checked(s, <<"rt">> \o s)
      BY <3>1, Zenon DEF Add, ros_to_dds_topic_name
    <3> HIDE DEF topic
    <3>4. ValidFqn(s) /\ topic = <<"rt">> \o s
      BY <3>3, CheckedIs
    <3>5. name.absolute = TRUE /\ name.tokens \in Paths
      BY <2>3, <3>4, RawIs
    <3>6. path = name.tokens /\ s = Spell(TRUE, path)
      BY <3>5
    <3>7. path \in Paths /\ topic = DdsTopic("topic", Spell(TRUE, path))
      BY <3>4, <3>5, <3>6, Zenon DEF DdsTopic
    <3>8. "topic" \in Roles
      BY Zenon DEF Roles
    <3> QED BY <3>1, <3>2, <3>7, <3>8, AddNamed
  <2> QED BY <2>6, <2>7, <2>8
<1> QED BY <1>1, <1>2, PTL DEF Spec

\* For all names, namespaces and types, two endpoints of any nodes meet in DDS (same topic,
\* same type) exactly when they are for the same role, ROS name and message type, whether
\* they are typed, of a service or raw.
THEOREM NamesMeet ==
    Spec => []EndpointsMeet
<1>1. NameInv => EndpointsMeet
  <2> SUFFICES ASSUME NameInv, NEW e \in endpoints, NEW f \in endpoints
               PROVE  (e.topic = f.topic /\ e.dds_type = f.dds_type)
                        <=> (e.role = f.role /\ e.path = f.path /\ e.type = f.type)
    BY DEF EndpointsMeet
  <2> DEFINE x == Spell(TRUE, e.path)
             y == Spell(TRUE, f.path)
  <2>1. /\ e.role \in Roles /\ e.path \in Paths
        /\ e.topic = DdsTopic(e.role, x) /\ e.dds_type = DdsType(e.role, e.type)
    BY Zenon DEF NameInv, Named
  <2>2. /\ f.role \in Roles /\ f.path \in Paths
        /\ f.topic = DdsTopic(f.role, y) /\ f.dds_type = DdsType(f.role, f.type)
    BY Zenon DEF NameInv, Named
  <2>3. x \in Seq(Pieces) /\ x # << >> /\ y \in Seq(Pieces) /\ y # << >>
    BY <2>1, <2>2, SpellIs DEF Paths
  <2>4. ASSUME e.topic = f.topic, e.dds_type = f.dds_type
        PROVE  e.role = f.role /\ e.path = f.path /\ e.type = f.type
    <3>1. IsTopic(e.topic, e.role, x) /\ IsTopic(e.topic, f.role, y)
      BY <2>1, <2>2, <2>4, Zenon DEF IsTopic
    <3> HIDE DEF x, y
    <3>2. e.role = f.role /\ x = y
      BY <2>1, <2>2, <2>3, <3>1, TopicInjective
    <3>3. e.path = f.path
      BY <2>1, <2>2, <3>2, SpellInjective DEF x, y
    <3>4. e.type = f.type
      BY <2>1, <2>2, <2>4, <3>2, TypeInjective
    <3> QED BY <3>2, <3>3, <3>4
  <2>5. ASSUME e.role = f.role, e.path = f.path, e.type = f.type
        PROVE  e.topic = f.topic /\ e.dds_type = f.dds_type
    BY <2>1, <2>2, <2>5, Zenon
  <2> QED BY <2>4, <2>5
<1> QED BY <1>1, NameInvariant, PTL

\* For all names, the snapshot of the graph shows every endpoint below the root under the
\* ROS name it was created with, once per service and never a reply topic.
THEOREM NamesShown ==
    Spec => []ShownAsNamed
<1>1. NameInv => ShownAsNamed
  <2> SUFFICES ASSUME NameInv, NEW e \in endpoints, e.path # << >>
               PROVE  Shown(e.topic) =
                        IF e.role = "reply" \/ is_plumbing_topic(e.topic)
                        THEN [as |-> "nothing", name |-> << >>]
                        ELSE [as |-> IF e.role = "topic" THEN "topic" ELSE "service",
                              name |-> Spell(TRUE, e.path)]
    BY DEF ShownAsNamed
  <2> DEFINE x == Spell(TRUE, e.path)
             w == e.topic
             n == Len(x)
  <2>1. e.role \in Roles /\ e.path \in Paths /\ IsTopic(w, e.role, x)
    BY Zenon DEF NameInv, Named, IsTopic
  <2>2. x \in Seq(Pieces) /\ x # << >> /\ x[1] = "/" /\ x = Slashed(e.path)
    BY <2>1, SpellIs DEF Paths
  <2>3. x # <<"/">>
    BY <2>1, <2>2, SlashOnly
  <2> HIDE DEF x, w
  <2>4. n \in Nat /\ n >= 2
    <3>1. n \in Nat /\ n # 0
      BY <2>2
    <3>2. n # 1
      <4> SUFFICES ASSUME n = 1 PROVE FALSE
        OBVIOUS
      <4>1. "/" \in Pieces
        BY DEF Pieces
      <4>2. x = <<"/">>
        BY <2>2, <4>1, OnePiece
      <4> QED BY <2>3, <4>2
    <3>3. \A k \in Nat : k # 0 /\ k # 1 => k >= 2
      OBVIOUS
    <3> HIDE DEF n
    <3> QED BY <3>1, <3>2, <3>3
  <2>5. /\ w \in Seq(Pieces) /\ Len(w) = n + (IF e.role = "topic" THEN 1 ELSE 2)
        /\ w[1] = IF e.role = "topic" THEN "rt" ELSE IF e.role = "request" THEN "rq" ELSE "rr"
        /\ \A i \in 1..n : w[i + 1] = x[i]
        /\ e.role = "request" => Last(w) = "Request"
    BY <2>1, <2>2, TopicShape
  <2> HIDE DEF n
  <2>6. w[2] = "/"
    <3>1. 1 \in 1..n /\ 1 + 1 = 2
      BY <2>4
    <3> QED BY <2>2, <2>5, <3>1
  \* the name between
  <2>7. ASSUME NEW m \in Nat, m = n + 1, m <= Len(w)
        PROVE  SubSeq(w, 2, m) = x
    <3>1. Len(w) \in Nat /\ 1 <= 2 /\ 2 <= m + 1 /\ m - 2 + 1 = n
      BY <2>4, <2>5, <2>7
    <3> DEFINE v == SubSeq(w, 2, m)
    <3>2. v \in Seq(Pieces) /\ Len(v) = m - 2 + 1 /\ \A i \in 1..(m - 2 + 1) : v[i] = w[2 + i - 1]
      <4>1. w \in Seq(Pieces) /\ 1 <= 2 /\ 2 <= m + 1 /\ m <= Len(w)
        BY <2>5, <2>7, <3>1
      <4> QED BY <4>1, PiecesOfSubSeq
    <3> HIDE DEF v
    <3>3. \A i \in 1..n : 2 + i - 1 = i + 1
      BY <2>4
    <3>4. \A i \in 1..n : v[i] = x[i]
      BY <2>5, <3>1, <3>2, <3>3
    <3>5. Len(v) = Len(x)
      BY <3>1, <3>2 DEF n
    <3>6. v = x
      BY <2>2, <3>1, <3>2, <3>4, <3>5, SeqEqual DEF n
    <3> QED BY <3>6 DEF v
  <2>8. ASSUME NEW p \in {"rt", "rq"} PROVE IsPrefix(<<p, "/">>, w) <=> w[1] = p
    <3> DEFINE a == <<p, "/">>
               b == SubSeq(w, 1, 2)
    <3>0. "/" \in Pieces /\ p \in Pieces
      BY DEF Pieces
    <3>1. a \in Seq(Pieces) /\ Len(a) = 2 /\ a[1] = p /\ a[2] = "/" /\ SubSeq(a, 1, 2) = a
      <4>1. a \in Seq(Pieces) /\ Len(a) = 2 /\ a[1] = p /\ a[2] = "/"
        BY <3>0
      <4> HIDE DEF a
      <4>2. SubSeq(a, 1, Len(a)) = a
        BY <4>1, SubSeqFull
      <4> QED BY <4>1, <4>2
    <3>2. Len(w) \in Nat /\ 2 <= Len(w) /\ 1 <= 1 /\ 1 <= 2 + 1 /\ 2 - 1 + 1 = 2
          /\ 1 + 1 - 1 = 1 /\ 1 + 2 - 1 = 2 /\ 1 \in 1..2 /\ 2 \in 1..2
      BY <2>4, <2>5
    <3>3. b \in Seq(Pieces) /\ Len(b) = 2 - 1 + 1 /\ \A i \in 1..(2 - 1 + 1) : b[i] = w[1 + i - 1]
      BY <2>5, <3>2, PiecesOfSubSeq
    <3>4. Len(b) = 2 /\ b[1] = w[1] /\ b[2] = w[2]
      BY <3>2, <3>3
    <3>5. IsPrefix(a, w) <=> a = b
      BY <3>1, <3>2 DEF IsPrefix
    <3> HIDE DEF a, b
    <3>6. \A i \in 1..2 : i = 1 \/ i = 2
      OBVIOUS
    <3>7. w[1] = p => \A i \in 1..Len(a) : a[i] = b[i]
      BY <2>6, <3>1, <3>4, <3>6
    <3>8. w[1] = p => a = b
      BY <3>1, <3>3, <3>4, <3>7, SeqEqual
    <3> QED BY <3>1, <3>4, <3>5, <3>8 DEF a
  <2>9. CASE e.role = "topic"
    <3>1. w[1] = "rt" /\ Len(w) = n + 1 /\ Len(w) > 2 /\ Len(w) \in Nat
      BY <2>4, <2>5, <2>9
    <3>2. IsPrefix(<<"rt", "/">>, w) /\ ~IsPrefix(<<"rq", "/">>, w)
      BY <2>8, <3>1
    <3>3. SubSeq(w, 2, Len(w)) = x
      BY <2>7, <3>1
    <3>4. Shown(w) = IF is_plumbing_topic(w) THEN [as |-> "nothing", name |-> << >>]
                     ELSE [as |-> "topic", name |-> x]
      BY <3>1, <3>2, <3>3 DEF Shown
    <3> QED BY <2>9, <3>4 DEF w, x
  <2>10. CASE e.role = "request"
    <3>1. /\ w[1] = "rq" /\ Len(w) = n + 2 /\ Len(w) > 3 /\ Len(w) \in Nat
          /\ Last(w) = "Request" /\ Len(w) - 1 = n + 1 /\ Len(w) - 1 <= Len(w)
          /\ Len(w) - 1 \in Nat
      BY <2>4, <2>5, <2>10
    <3>2. IsPrefix(<<"rq", "/">>, w)
      BY <2>8, <3>1
    <3>3. SubSeq(w, 2, Len(w) - 1) = x
      BY <2>7, <3>1
    <3>4. ~is_plumbing_topic(w)
      BY <3>1 DEF is_plumbing_topic
    <3>5. Shown(w) = [as |-> "service", name |-> x]
      BY <3>1, <3>2, <3>3, <2>8 DEF Shown
    <3> QED BY <2>10, <3>4, <3>5 DEF w, x
  <2>11. CASE e.role = "reply"
    <3>1. w[1] = "rr"
      BY <2>5, <2>11
    <3>2. ~IsPrefix(<<"rt", "/">>, w) /\ ~IsPrefix(<<"rq", "/">>, w)
      BY <2>8, <3>1
    <3>3. Shown(w) = [as |-> "nothing", name |-> << >>]
      BY <3>2 DEF Shown
    <3> QED BY <2>11, <3>3 DEF w
  <2> QED BY <2>1, <2>9, <2>10, <2>11 DEF Roles
<1> QED BY <1>1, NameInvariant, PTL

-----------------------------------------------------------------------------
(* What is sent of a message, and what is read of it.                      *)

\* The messages that a program may send.
Sendable(msg) ==
    /\ msg.name \in Both \cup CppOnly
    /\ msg.lens \in [Varied(TypeOf(msg.name)) -> Lens]

\* The bytes of a message.
Sent(msg) == serialize(TypeOf(msg.name), Value(TypeOf(msg.name), msg.lens))

\* What the reader of a language makes of a buffer.
ReadIn(lang, msg, b) ==
    IF lang = "cpp" THEN deserialize(TypeOf(msg.name), b) ELSE from_cdr(TypeOf(msg.name), b)

\* Their types and values are such that what is written can be read back.
LEMMA SendableIs ==
    ASSUME NEW msg, Sendable(msg)
    PROVE  LET type == TypeOf(msg.name)
               val == Value(type, msg.lens)
           IN  /\ type \in Seq(Members) /\ MessageFits(type, val)
               /\ \A i \in 1..Len(type) : type[i].many = "seq" => Len(val[i]) \in Lens
<1> DEFINE type == TypeOf(msg.name)
           lens == msg.lens
           val == Value(type, lens)
<1>0. Lens \subseteq 0..(Huge - 3) /\ Matrix \in Nat
  BY ConversionsAssumption
<1>1. msg.name \in Both \cup CppOnly /\ lens \in [Varied(type) -> Lens]
  BY DEF Sendable
<1>2. type \in Seq(Members)
  BY <1>0, <1>1, AllTypes
<1>3. DOMAIN lens = Varied(type) /\ \A i \in DOMAIN lens : lens[i] \in Lens /\ lens[i] \in 0..(Huge - 3)
  BY <1>0, <1>1
<1> HIDE DEF lens, type
<1>4. /\ MessageFits(type, val)
      /\ \A i \in 1..Len(type) : type[i].many = "seq" =>
           Len(val[i]) = IF i \in DOMAIN lens THEN lens[i] ELSE 0
  BY <1>2, <1>3, ValueFits
<1> HIDE DEF val
<1>5. ASSUME NEW i \in 1..Len(type), type[i].many = "seq" PROVE Len(val[i]) \in Lens
  <2>1. i \in Varied(type)
    <3>1. DOMAIN type = 1..Len(type)
      BY <1>2
    <3> QED BY <1>5, <3>1 DEF Varied
  <2> QED BY <1>3, <1>4, <1>5, <2>1
<1> QED BY <1>2, <1>4, <1>5 DEF type, val, lens

\* Both languages write the same bytes.
LEMMA SentIs ==
    ASSUME NEW msg, Sendable(msg)
    PROVE  /\ Sent(msg) \in Writers
           /\ msg.name \in Both =>
                py_serialize(TypeOf(msg.name), Value(TypeOf(msg.name), msg.lens)) = Sent(msg)
<1> DEFINE type == TypeOf(msg.name)
           val == Value(type, msg.lens)
<1>1. type \in Seq(Members) /\ MessageFits(type, val)
  BY SendableIs
<1>2. Sent(msg) = serialize(type, val)
  BY DEF Sent
<1>3. Matrix \in Nat /\ Matrix # 0
  BY ConversionsAssumption
<1> HIDE DEF val
<1>4. serialize(type, val) \in Writers
  BY <1>1, SerializeIs
<1>5. ASSUME msg.name \in Both PROVE py_serialize(type, val) = serialize(type, val)
  <2>1. type \in Seq(PyMembers) /\ Filled(type)
    BY <1>3, <1>5, BothTypes, BothFilled
  <2> QED BY <1>1, <2>1, PySerializeIs
<1> QED BY <1>2, <1>4, <1>5 DEF val

\* Either reader reads back what was sent, and fails on what is missing.
LEMMA ReadInIs ==
    ASSUME NEW msg, Sendable(msg), NEW lang \in Langs, lang \in Codecs(msg.name), NEW b, NEW c,
           Holds(b, Sent(msg), c), c >= 4,
           Len(Sent(msg)) <= c \/ \A n \in Lens : n % 256 = 0 => n = 0
    PROVE  LET r == ReadIn(lang, msg, b)
               type == TypeOf(msg.name)
           IN  /\ r.ok <=> Len(Sent(msg)) <= Len(b)
               /\ r.ok /\ Len(Sent(msg)) <= c => r.out = Flat(type, Value(type, msg.lens))
<1> DEFINE r == ReadIn(lang, msg, b)
           type == TypeOf(msg.name)
           val == Value(type, msg.lens)
           u == Sent(msg)
           d == deserialize(type, b)
<1>1. /\ type \in Seq(Members) /\ MessageFits(type, val)
      /\ \A i \in 1..Len(type) : type[i].many = "seq" => Len(val[i]) \in Lens
  BY SendableIs
<1>2. u = serialize(type, val)
  BY DEF Sent
<1>3. Lens \subseteq Nat /\ Matrix \in Nat
  <2>1. Lens \subseteq 0..(Huge - 3) /\ Matrix \in Nat
    BY ConversionsAssumption
  <2>2. Huge - 3 \in Nat
    BY HugeIs
  <2> QED BY <2>1, <2>2
<1> HIDE DEF val
<1>4. \A i \in 1..Len(type) : Noticed(type[i], val[i], u, c)
  BY <1>1, <1>3, Zenon DEF Noticed
<1>5. Holds(b, u, c)
  OBVIOUS
<1> HIDE DEF u
<1>6. Back(d, b, u, c, Flat(type, val))
  BY <1>1, <1>2, <1>4, <1>5, BackMessage
<1>7. /\ d.ok <=> Len(u) <= Len(b)
      /\ d.ok => d.utf8
      /\ d.ok /\ Len(u) <= c => d.out = Flat(type, val)
  BY <1>6, Zenon DEF Back
<1>8. CASE lang = "cpp"
  <2>1. r = d
    BY <1>8 DEF ReadIn
  <2> QED BY <1>7, <2>1, Zenon DEF u, val
<1>9. CASE lang # "cpp"
  <2> DEFINE p == from_cdr(type, b)
  <2>1. r = p
    BY <1>9 DEF ReadIn
  <2>2. msg.name \in Both
    BY <1>9 DEF Codecs
  <2>3. type \in Seq(PyMembers) /\ Followed(type)
    BY <1>3, <2>2, BothTypes
  <2>4. b \in Seq(Nat)
    BY <1>5, Zenon DEF Holds
  <2>5. Same(d, p, b)
    BY <2>3, <2>4, SameMessage
  <2>6. (d.ok <=> p.ok) /\ (d.ok => d.out = p.out)
    BY <1>7, <2>5, Zenon DEF Same
  <2> QED BY <1>7, <2>1, <2>6, Zenon DEF u, val
<1> QED BY <1>8, <1>9

-----------------------------------------------------------------------------
(* The invariant of a message on its way.                                  *)

\* The bytes that a writer hands over: all of the message, the first c ones, or any.
Handed(b, u, f) ==
    /\ b \in Seq(Nat) /\ Len(b) >= 4
    /\ f = "none" => b = u
    /\ f = "cut" => \E c \in 4..Len(u) : b = SubSeq(u, 1, c)

\* The bytes that reach a reader: the same, with zeros up to a multiple of 4.
Carried(b, u, f) ==
    /\ b \in Seq(Nat) /\ Len(b) >= 4 /\ Len(b) % 4 = 0
    /\ f = "none" => Holds(b, u, Len(u))
    /\ f = "cut" => \E c \in 4..Len(u) : Holds(b, u, c)

\* The inductive invariant of a message on its way: at each stage the buffer holds what is
\* left of the bytes of the message, and what a reader has returned is what it makes of them.
WireInv ==
    /\ DOMAIN got = Langs
    /\ stage = "idle" => fault = "none"
    /\ stage # "idle" => Sendable(message) /\ whole = Len(Sent(message))
    /\ stage = "serialized" => Handed(buffer, Sent(message), fault)
    /\ stage \in {"written", "received"} => Carried(buffer, Sent(message), fault)
    /\ \A l \in Langs : got[l].taken =>
         /\ stage = "received" /\ l \in Codecs(message.name)
         /\ got[l] = Result(ReadIn(l, message, buffer))

\* A payload of which bytes are padded holds what it held.
LEMMA ResizedHolds ==
    ASSUME NEW u \in Writers, NEW c \in 4..Len(u), NEW p, p = SubSeq(u, 1, c),
           NEW q, q = Resized(p, Len(p))
    PROVE  Holds(q, u, c)
<1>0. u \in Seq(Nat) /\ Len(u) \in Nat
  BY DEF Writers
<1>1. c \in Nat /\ c <= Len(u) /\ c >= 4
  BY <1>0
<1>2. p \in Seq(Nat) /\ Len(p) = c /\ \A i \in 1..c : p[i] = u[i]
  <2>1. 1 \in 1..(Len(u) + 1) /\ c \in (1 - 1)..Len(u)
    BY <1>0, <1>1
  <2>2. /\ p \in Seq(Nat) /\ Len(p) = c - 1 + 1 /\ \A i \in 1..(c - 1 + 1) : p[i] = u[1 + i - 1]
    BY <1>0, <2>1, SubSeqProperties
  <2>3. c - 1 + 1 = c /\ \A i \in 1..c : 1 + i - 1 = i
    BY <1>1
  <2> QED BY <2>2, <2>3
<1>3. /\ q \in Seq(Nat) /\ Len(q) >= c /\ Len(q) < c + 4 /\ Len(q) % 4 = 0
      /\ \A i \in 1..c : q[i] = p[i]
      /\ \A i \in 1..Len(q) : i > c => q[i] = 0
  <2>1. /\ q \in Seq(Nat) /\ Len(q) >= Len(p) /\ Len(q) < Len(p) + 4 /\ Len(q) % 4 = 0
        /\ \A i \in 1..Len(p) : q[i] = p[i]
        /\ \A i \in 1..Len(q) : i > Len(p) => q[i] = 0
    <3>1. p \in Seq(Nat)
      BY <1>2, Zenon
    <3>2. Padded(q, p)
      BY <3>1, ResizedIs
    <3> QED BY <3>2, Zenon DEF Padded
  <2>2. Len(p) = c
    BY <1>2
  <2> QED BY <2>1, <2>2, Zenon
<1>4. \A i \in 1..Len(u) : i <= c => q[i] = u[i]
  <2> SUFFICES ASSUME NEW i \in 1..Len(u), i <= c PROVE q[i] = u[i]
    OBVIOUS
  <2>1. i \in 1..c
    BY <1>0, <1>1
  <2> QED BY <1>2, <1>3, <2>1
<1>5. c <= Len(q)
  BY <1>1, <1>3
<1> QED BY <1>1, <1>3, <1>4, <1>5, Zenon DEF Holds

\* Nothing is cut off.
LEMMA WholePrefix ==
    ASSUME NEW u \in Writers
    PROVE  SubSeq(u, 1, Len(u)) = u /\ Len(u) \in 4..Len(u)
BY DEF Writers

\* Write pads what was handed over.
LEMMA HandedCarried ==
    ASSUME NEW u \in Writers, NEW b, NEW f, Handed(b, u, f)
    PROVE  Carried(Resized(b, Len(b)), u, f)
<1> DEFINE q == Resized(b, Len(b))
<1>1. b \in Seq(Nat) /\ Len(b) >= 4
  BY Zenon DEF Handed
<1>2. /\ q \in Seq(Nat) /\ Len(q) >= Len(b) /\ Len(q) % 4 = 0
  BY <1>1, ResizedIs DEF Padded
<1>3. Len(q) >= 4
  <2> HIDE DEF q
  <2>1. Len(b) \in Nat /\ Len(q) \in Nat
    BY <1>1, <1>2, LenProperties, Zenon
  <2> DEFINE l == Len(b)
             k == Len(q)
  <2> HIDE DEF l, k
  <2>2. l \in Nat /\ k \in Nat /\ l >= 4 /\ k >= l
    BY <1>1, <1>2, <2>1, Zenon DEF l, k
  <2>3. k >= 4
    BY <2>2
  <2> QED BY <2>3 DEF k
<1>4. \A c \in 4..Len(u) : b = SubSeq(u, 1, c) => Holds(q, u, c)
  BY ResizedHolds
<1> HIDE DEF q
<1>5. ASSUME f = "none" PROVE Holds(q, u, Len(u))
  <2>1. b = u
    BY <1>5, Zenon DEF Handed
  <2> QED BY <1>4, <2>1, WholePrefix
<1>6. ASSUME f = "cut" PROVE \E c \in 4..Len(u) : Holds(q, u, c)
  BY <1>4, <1>6, Zenon DEF Handed
<1>7. Carried(q, u, f)
  BY <1>2, <1>3, <1>5, <1>6, Zenon DEF Carried
<1> QED BY <1>7 DEF q

\* What a whole number of words is received as.
LEMMA ReceivedIs ==
    ASSUME NEW b, NEW u, NEW f, Carried(b, u, f), NEW size \in Nat \ {0}, NEW overlap \in Nat
    PROVE  raw_from_ser(Fragments(b, size, overlap), Len(b)) = b
<1>1. b \in Seq(Nat) /\ Len(b) % 4 = 0
  BY Zenon DEF Carried
<1> DEFINE q == Resized(b, Len(b))
<1>2. q = b
  BY <1>1, ResizedIs
<1> QED BY <1>1, <1>2, FragmentsIs

\* Publisher::publish and Message.serialize: the bytes of the message, in either language.
LEMMA SerializedHanded ==
    ASSUME WireInv, NEW lang \in Langs, NEW name \in Both \cup CppOnly,
           NEW lens \in [Varied(TypeOf(name)) -> Lens], Serialize(lang, name, lens)
    PROVE  WireInv'
<1> DEFINE msg == [name |-> name, lens |-> lens]
<1>1. /\ stage = "idle" /\ stage' = "serialized" /\ lang \in Codecs(name) /\ message' = msg
      /\ fault' = fault /\ got' = got
  BY DEF Serialize
<1>2. fault = "none" /\ \A l \in Langs : ~got[l].taken
  BY <1>1 DEF WireInv
<1>3. msg.name = name /\ msg.lens = lens
  OBVIOUS
<1>4. Sendable(msg)
  BY <1>3 DEF Sendable
<1>5. buffer' = Sent(msg)
  <2>1. /\ lang = "cpp" => buffer' = serialize(TypeOf(name), Value(TypeOf(name), lens))
        /\ lang # "cpp" => buffer' = py_serialize(TypeOf(name), Value(TypeOf(name), lens))
    BY DEF Serialize
  <2>2. lang # "cpp" => name \in Both
    BY <1>1 DEF Codecs
  <2> HIDE DEF msg
  <2>3. Sent(msg) = serialize(TypeOf(name), Value(TypeOf(name), lens))
    BY <1>3 DEF Sent
  <2>4. name \in Both => py_serialize(TypeOf(name), Value(TypeOf(name), lens)) = Sent(msg)
    BY <1>3, <1>4, SentIs
  <2> QED BY <2>1, <2>2, <2>3, <2>4, Zenon
<1>6. whole' = Len(buffer')
  BY DEF Serialize
<1> HIDE DEF msg
<1>7. Sent(msg) \in Seq(Nat) /\ Len(Sent(msg)) >= 4
  BY <1>4, SentIs DEF Writers
<1>8. Handed(buffer', Sent(msg), fault')
  BY <1>1, <1>2, <1>5, <1>7 DEF Handed
<1>9. DOMAIN got' = Langs /\ \A l \in Langs : ~got'[l].taken
  BY <1>1, <1>2, Zenon DEF WireInv
<1>10. stage' # "idle" /\ stage' \notin {"written", "received"}
  BY <1>1
<1> QED BY <1>1, <1>4, <1>5, <1>6, <1>8, <1>9, <1>10, Zenon DEF WireInv

\* A step that does not take leaves nothing taken, and the message as it was.
LEMMA OnTheWay ==
    ASSUME WireInv, stage \in {"serialized", "written"}, message' = message, whole' = whole, got' = got,
           \/ stage' = "serialized" /\ Handed(buffer', Sent(message), fault')
           \/ stage' \in {"written", "received"} /\ Carried(buffer', Sent(message), fault')
    PROVE  WireInv'
<1>1. stage # "idle" /\ stage # "received"
  OBVIOUS
<1>2. stage' # "idle"
  OBVIOUS
<1>3. \/ stage' = "serialized" /\ stage' \notin {"written", "received"}
      \/ stage' # "serialized" /\ stage' \in {"written", "received"}
  OBVIOUS
<1>4. \A l \in Langs : ~got'[l].taken
  BY <1>1, Zenon DEF WireInv
<1>5. DOMAIN got' = Langs /\ Sendable(message') /\ whole' = Len(Sent(message'))
  BY <1>1, Zenon DEF WireInv
<1>6. /\ stage' = "serialized" => Handed(buffer', Sent(message'), fault')
      /\ stage' \in {"written", "received"} => Carried(buffer', Sent(message'), fault')
  BY <1>3, Zenon
<1> QED BY <1>2, <1>4, <1>5, <1>6, Zenon DEF WireInv

\* A payload that lacks its end.
LEMMA CutHanded ==
    ASSUME WireInv, NEW k \in 1..MaxCut, Cut(k)
    PROVE  WireInv'
<1> DEFINE u == Sent(message)
<1>1. /\ stage = "serialized" /\ fault = "none" /\ fault' = "cut" /\ k <= whole - 4
      /\ buffer' = SubSeq(buffer, 1, whole - k) /\ stage' = stage /\ message' = message
      /\ whole' = whole /\ got' = got
  BY DEF Cut
<1>2. stage # "idle"
  BY <1>1
<1>3. Sendable(message) /\ whole = Len(u) /\ buffer = u
  BY <1>1, <1>2, Zenon DEF WireInv, Handed
<1>4. u \in Seq(Nat) /\ Len(u) >= 4
  BY <1>3, SentIs DEF Writers
<1>5. k \in Nat \ {0}
  BY ConversionsAssumption
<1> HIDE DEF u
<1> DEFINE c == whole - k
<1>6. c \in 4..Len(u)
  BY <1>1, <1>3, <1>4, <1>5
<1>7. buffer' = SubSeq(u, 1, c)
  BY <1>1, <1>3
<1> HIDE DEF c
<1>8. SubSeq(u, 1, c) \in Seq(Nat) /\ Len(SubSeq(u, 1, c)) = c
  BY <1>4, <1>6
<1>9. Handed(buffer', u, fault')
  <2>1. buffer' \in Seq(Nat) /\ Len(buffer') >= 4
    BY <1>4, <1>6, <1>7, <1>8
  <2>2. fault' # "none"
    BY <1>1
  <2> QED BY <1>6, <1>7, <2>1, <2>2, Zenon DEF Handed
<1>10. stage \in {"serialized", "written"} /\ stage' = "serialized"
  BY <1>1
<1> QED BY <1>1, <1>9, <1>10, OnTheWay DEF u

\* A payload with other bytes.
LEMMA GarbledHanded ==
    ASSUME WireInv, NEW i \in 5..whole, NEW g \in Garbage, Garble(i, g)
    PROVE  WireInv'
<1> DEFINE u == Sent(message)
           n == Len(g)
           f == [k \in 1..whole |-> IF k \in i..(i + n - 1) THEN g[k - i + 1] ELSE buffer[k]]
<1>1. /\ stage = "serialized" /\ fault = "none" /\ fault' = "garbled"
      /\ buffer' = f /\ stage' = stage /\ message' = message
      /\ whole' = whole /\ got' = got
  BY DEF Garble
<1>2. stage # "idle"
  BY <1>1
<1>3. Sendable(message) /\ whole = Len(u) /\ buffer = u
  BY <1>1, <1>2, Zenon DEF WireInv, Handed
<1>4. u \in Seq(Nat) /\ Len(u) >= 4 /\ Len(u) \in Nat
  BY <1>3, SentIs DEF Writers
<1>5. n \in Nat /\ \A k \in 1..n : g[k] \in Nat
  <2>1. g \in Seq(0..255)
    BY ConversionsAssumption
  <2>2. n \in Nat /\ \A k \in 1..n : g[k] \in 0..255
    <3> DEFINE B == 0..255
    <3>1. g \in Seq(B)
      BY <2>1
    <3> HIDE DEF B
    <3>2. Len(g) \in Nat /\ \A k \in 1..Len(g) : g[k] \in B
      BY <3>1
    <3> QED BY <3>2 DEF B
  <2>3. \A x \in 0..255 : x \in Nat
    OBVIOUS
  <2> QED BY <2>2, <2>3
<1> HIDE DEF u, n
<1>6. ASSUME NEW k \in 1..whole PROVE f[k] \in Nat
  <2>1. CASE k \in i..(i + n - 1)
    <3>1. k - i + 1 \in 1..n
      BY <1>3, <1>4, <1>5, <2>1
    <3> QED BY <1>5, <2>1, <3>1
  <2>2. CASE k \notin i..(i + n - 1)
    <3>1. buffer[k] \in Nat
      BY <1>3, <1>4
    <3> QED BY <2>2, <3>1
  <2> QED BY <2>1, <2>2
<1>7. f \in [1..whole -> Nat]
  BY <1>6
<1> HIDE DEF f
<1>8. buffer' \in Seq(Nat) /\ Len(buffer') = Len(u)
  BY <1>1, <1>3, <1>4, <1>7
<1>9. Handed(buffer', u, fault')
  BY <1>1, <1>4, <1>8 DEF Handed
<1>10. stage \in {"serialized", "written"} /\ stage' = "serialized"
  BY <1>1
<1> QED BY <1>1, <1>9, <1>10, OnTheWay DEF u

\* The writer's sample is padded.
LEMMA WrittenCarried ==
    ASSUME WireInv, Write
    PROVE  WireInv'
<1> DEFINE u == Sent(message)
<1>1. /\ stage = "serialized" /\ stage' = "written" /\ buffer' = raw_from_ser_iov(<<buffer>>)
      /\ message' = message /\ whole' = whole /\ fault' = fault /\ got' = got
  BY DEF Write
<1>2. stage # "idle"
  BY <1>1
<1>3. Sendable(message) /\ Handed(buffer, u, fault)
  BY <1>1, <1>2, Zenon DEF WireInv
<1>4. u \in Writers
  BY <1>3, SentIs
<1>5. buffer \in Seq(Nat)
  BY <1>3, Zenon DEF Handed
<1> HIDE DEF u
<1>6. Carried(Resized(buffer, Len(buffer)), u, fault)
  BY <1>3, <1>4, HandedCarried
<1>7. buffer' = Resized(buffer, Len(buffer))
  BY <1>1, <1>5, OnePieceIov
<1>8. stage \in {"serialized", "written"} /\ stage' \in {"written", "received"}
  BY <1>1
<1> QED BY <1>1, <1>6, <1>7, <1>8, OnTheWay DEF u

\* A reader in the process or elsewhere gets the same bytes.
LEMMA ReceivedCarried ==
    ASSUME WireInv,
           \/ ReceiveLocally
           \/ \E size \in FragmentSizes, overlap \in Overlaps : Receive(size, overlap)
    PROVE  WireInv'
<1> DEFINE u == Sent(message)
<1>1. /\ stage = "written" /\ stage' = "received"
      /\ message' = message /\ whole' = whole /\ fault' = fault /\ got' = got
  BY DEF ReceiveLocally, Receive
<1>2. stage \in {"written", "received"} /\ stage \in {"serialized", "written"} /\ stage' \in {"written", "received"}
  BY <1>1
<1>3. Carried(buffer, u, fault)
  BY <1>2, Zenon DEF WireInv
<1> HIDE DEF u
<1>4. buffer' = buffer
  <2>1. CASE ReceiveLocally
    BY <2>1 DEF ReceiveLocally
  <2>2. ASSUME NEW size \in FragmentSizes, NEW overlap \in Overlaps, Receive(size, overlap)
        PROVE  buffer' = buffer
    <3>1. size \in Nat \ {0} /\ overlap \in Nat
      BY ConversionsAssumption
    <3>2. buffer' = raw_from_ser(Fragments(buffer, size, overlap), Len(buffer))
      BY <2>2 DEF Receive
    <3> QED BY <1>3, <3>1, <3>2, ReceivedIs
  <2> QED BY <2>1, <2>2
<1> QED BY <1>1, <1>2, <1>3, <1>4, OnTheWay DEF u

\* A reader returns what it makes of the buffer.
LEMMA TakenRead ==
    ASSUME WireInv, NEW lang \in Langs, Take(lang)
    PROVE  WireInv'
<1> DEFINE res == Result(ReadIn(lang, message, buffer))
<1>1. /\ stage = "received" /\ stage' = stage /\ message' = message /\ buffer' = buffer
      /\ whole' = whole /\ fault' = fault /\ lang \in Codecs(message.name)
  BY DEF Take
<1>2. got' = [got EXCEPT ![lang] = res]
  BY DEF Take, ReadIn, Type
<1> HIDE DEF res
<1>3. DOMAIN got = Langs
  BY Zenon DEF WireInv
<1>4. DOMAIN got' = Langs /\ got'[lang] = res /\ \A l \in Langs : l # lang => got'[l] = got[l]
  BY <1>2, <1>3
<1>5. ASSUME NEW l \in Langs, got'[l].taken
      PROVE  stage' = "received" /\ l \in Codecs(message'.name) /\ got'[l] = Result(ReadIn(l, message', buffer'))
  <2>1. CASE l = lang
    BY <1>1, <1>4, <2>1 DEF res
  <2>2. CASE l # lang
    BY <1>1, <1>4, <1>5, <2>2, Zenon DEF WireInv
  <2> QED BY <2>1, <2>2
<1>6. /\ stage' # "idle" /\ stage # "idle" /\ stage' # "serialized"
      /\ stage \in {"written", "received"} /\ stage' \in {"written", "received"}
  BY <1>1
<1>7. Sendable(message') /\ whole' = Len(Sent(message')) /\ Carried(buffer', Sent(message'), fault')
  BY <1>1, <1>6, Zenon DEF WireInv
<1> QED BY <1>4, <1>5, <1>6, <1>7, Zenon DEF WireInv

\* The invariant holds in every state.
LEMMA WireInvariant == Spec => []WireInv
<1>1. Init => WireInv
  <2> SUFFICES ASSUME Init PROVE WireInv
    OBVIOUS
  <2>1. stage = "idle" /\ fault = "none" /\ got = [l \in Langs |-> NotRead]
    BY DEF Init, WireInit
  <2>2. DOMAIN got = Langs /\ \A l \in Langs : ~got[l].taken
    BY <2>1 DEF NotRead
  <2>3. stage # "serialized" /\ stage \notin {"written", "received"}
    BY <2>1
  <2> QED BY <2>1, <2>2, <2>3, Zenon DEF WireInv
<1>2. WireInv /\ [Next]_vars => WireInv'
  <2> SUFFICES ASSUME WireInv, [Next]_vars PROVE WireInv'
    OBVIOUS
  <2>1. CASE UNCHANGED wireVars
    <3>1. /\ stage' = stage /\ message' = message /\ buffer' = buffer /\ whole' = whole
          /\ fault' = fault /\ got' = got
      BY <2>1 DEF wireVars
    <3> QED BY <3>1, Zenon DEF WireInv
  <2>2. CASE WireNext
    BY <2>2, SerializedHanded, CutHanded, GarbledHanded, WrittenCarried, ReceivedCarried, TakenRead
    DEF WireNext
  <2> QED BY <2>1, <2>2 DEF Next, vars
<1> QED BY <1>1, <1>2, PTL DEF Spec

-----------------------------------------------------------------------------
(* What is proved of a message.                                            *)

\* What a subscription has taken was read from what was carried.
LEMMA TakenIs ==
    ASSUME WireInv, NEW l \in Langs, got[l].taken
    PROVE  /\ stage = "received" /\ l \in Codecs(message.name)
           /\ Sendable(message) /\ whole = Len(Sent(message)) /\ Carried(buffer, Sent(message), fault)
           /\ LET r == ReadIn(l, message, buffer)
              IN  /\ got[l].ok = r.ok /\ got[l].out = r.out /\ got[l].pos = r.pos
                  /\ got[l].resized = r.resized /\ got[l].odd = r.odd /\ got[l].utf8 = r.utf8
<1>1. /\ stage = "received" /\ l \in Codecs(message.name)
      /\ got[l] = Result(ReadIn(l, message, buffer))
  BY Zenon DEF WireInv
<1>2. stage # "idle" /\ stage \in {"written", "received"}
  BY <1>1
<1>3. Sendable(message) /\ whole = Len(Sent(message)) /\ Carried(buffer, Sent(message), fault)
  BY <1>2, Zenon DEF WireInv
<1> DEFINE r == ReadIn(l, message, buffer)
<1> HIDE DEF r
<1>4. /\ got[l].ok = r.ok /\ got[l].out = r.out /\ got[l].pos = r.pos
      /\ got[l].resized = r.resized /\ got[l].odd = r.odd /\ got[l].utf8 = r.utf8
  BY <1>1 DEF Result, r
<1> QED BY <1>1, <1>3, <1>4 DEF r

\* Messages of every type, with strings and sequences of any length below 2^16 - 2, written
\* in C++ or in Python, in fragments of any size and overlap and with raw_resize's padding,
\* are read in both languages as the value that was sent.
THEOREM MessagesArrive == Spec => []WireRoundTrip
<1>1. WireInv => WireRoundTrip
  <2> SUFFICES ASSUME WireInv, NEW l \in Langs, got[l].taken, fault = "none"
               PROVE  got[l].ok /\ got[l].out = Flat(Type, Meant)
    BY DEF WireRoundTrip
  <2> DEFINE u == Sent(message)
             r == ReadIn(l, message, buffer)
             type == TypeOf(message.name)
  <2>1. /\ l \in Codecs(message.name) /\ Sendable(message) /\ Carried(buffer, u, fault)
        /\ got[l].ok = r.ok /\ got[l].out = r.out
    BY TakenIs
  <2>2. Holds(buffer, u, Len(u))
    BY <2>1, Zenon DEF Carried
  <2>3. u \in Writers
    BY <2>1, SentIs
  <2>4. Len(u) \in Nat /\ Len(u) >= 4 /\ Len(u) <= Len(u)
    BY <2>3 DEF Writers
  <2>5. Len(u) <= Len(buffer)
    BY <2>2, Zenon DEF Holds
  <2>6. /\ r.ok <=> Len(u) <= Len(buffer)
        /\ r.ok /\ Len(u) <= Len(u) => r.out = Flat(type, Value(type, message.lens))
    <3> DEFINE c == Len(u)
    <3>1. Holds(buffer, Sent(message), c) /\ c >= 4 /\ Len(Sent(message)) <= c
      BY <2>2, <2>4
    <3> HIDE DEF c
    <3>2. /\ r.ok <=> Len(u) <= Len(buffer)
          /\ r.ok /\ Len(u) <= c => r.out = Flat(type, Value(type, message.lens))
      BY <2>1, <3>1, ReadInIs
    <3> QED BY <3>2 DEF c
  <2> QED BY <2>1, <2>4, <2>5, <2>6, Zenon DEF Type, Meant
<1> QED BY <1>1, WireInvariant, PTL

\* A payload cut anywhere behind its header is refused by both languages, unless the padding
\* makes up for what is missing.  The hypothesis is needed: of a sequence of 256 elements
\* cut behind the first byte of its length, the padding makes an empty one.
THEOREM CutsNoticed ==
    ASSUME \A n \in Lens : n % 256 = 0 => n = 0
    PROVE  Spec => []TruncationNoticed
<1>1. WireInv => TruncationNoticed
  <2> SUFFICES ASSUME WireInv, NEW l \in Langs, got[l].taken, fault = "cut"
               PROVE  got[l].ok <=> whole <= Len(buffer)
    BY Zenon DEF TruncationNoticed
  <2> DEFINE u == Sent(message)
             r == ReadIn(l, message, buffer)
  <2>1. /\ l \in Codecs(message.name) /\ Sendable(message) /\ Carried(buffer, u, fault)
        /\ whole = Len(u) /\ got[l].ok = r.ok
    BY TakenIs
  <2>2. PICK c \in 4..Len(u) : Holds(buffer, u, c)
    BY <2>1, Zenon DEF Carried
  <2>3. u \in Writers
    BY <2>1, SentIs
  <2>4. c >= 4
    BY <2>3 DEF Writers
  <2>5. r.ok <=> Len(u) <= Len(buffer)
    BY <2>1, <2>2, <2>4, ReadInIs
  <2> QED BY <2>1, <2>5, Zenon
<1> QED BY <1>1, WireInvariant, PTL

\* The reader in Python and the generated one in C++ agree on every payload that is carried,
\* cut and garbled ones included, for messages of every length and any bytes: Python accepts
\* exactly those that C++ accepts and whose strings are all UTF-8, and reads the same.
THEOREM LanguagesAgree == Spec => []ReadersAgree
<1>1. WireInv => ReadersAgree
  <2> DEFINE cpp == got["cpp"]
             py == got["python"]
             type == TypeOf(message.name)
             d == deserialize(type, buffer)
             p == from_cdr(type, buffer)
  <2> SUFFICES ASSUME WireInv, cpp.taken, py.taken
               PROVE  /\ py.ok = (cpp.ok /\ cpp.utf8)
                      /\ py.ok /\ ~cpp.odd => cpp.out = py.out
    BY Zenon DEF ReadersAgree
  <2>1. "cpp" \in Langs /\ "python" \in Langs /\ "python" # "cpp"
    BY DEF Langs
  <2>2. /\ "python" \in Codecs(message.name) /\ Carried(buffer, Sent(message), fault)
        /\ cpp.ok = d.ok /\ cpp.out = d.out /\ cpp.utf8 = d.utf8 /\ py.ok = p.ok /\ py.out = p.out
    <3>1. /\ "python" \in Codecs(message.name) /\ Carried(buffer, Sent(message), fault)
          /\ cpp.utf8 = ReadIn("cpp", message, buffer).utf8
          /\ cpp.ok = ReadIn("cpp", message, buffer).ok /\ cpp.out = ReadIn("cpp", message, buffer).out
          /\ py.ok = ReadIn("python", message, buffer).ok /\ py.out = ReadIn("python", message, buffer).out
      BY <2>1, TakenIs
    <3>2. ReadIn("cpp", message, buffer) = d /\ ReadIn("python", message, buffer) = p
      BY <2>1 DEF ReadIn
    <3> QED BY <3>1, <3>2, Zenon
  <2>3. message.name \in Both /\ Matrix \in Nat
    BY <2>1, <2>2, ConversionsAssumption DEF Codecs
  <2>4. type \in Seq(PyMembers) /\ Followed(type)
    BY <2>3, BothTypes
  <2>5. buffer \in Seq(Nat)
    BY <2>2, Zenon DEF Carried
  <2>6. Same(d, p, buffer)
    BY <2>4, <2>5, SameMessage
  <2>7. /\ p.ok <=> d.ok /\ d.utf8
        /\ p.ok => d.out = p.out
        /\ d \in Readers(buffer) /\ p \in Readers(buffer)
    BY <2>6, Zenon DEF Same
  <2>8. d.ok \in BOOLEAN /\ p.ok \in BOOLEAN /\ d.utf8 \in BOOLEAN
    BY <2>7, ReaderFields
  <2>9. p.ok = (d.ok /\ d.utf8)
    <3> DEFINE x == p.ok
               y == d.ok /\ d.utf8
    <3>1. x \in BOOLEAN /\ y \in BOOLEAN /\ (x <=> y)
      BY <2>7, <2>8, Zenon
    <3> HIDE DEF x, y
    <3>2. x = y
      BY <3>1
    <3> QED BY <3>2, Zenon DEF x, y
  <2> QED BY <2>2, <2>7, <2>9, Zenon
<1> QED BY <1>1, WireInvariant, PTL

\* No reader of either language returns from beyond its buffer or resizes a sequence to more
\* elements than the buffer has bytes, whatever length the payload claims.
THEOREM ReadersStayInside == Spec => []ReaderStaysInBuffer
<1>1. WireInv => ReaderStaysInBuffer
  <2> SUFFICES ASSUME WireInv, NEW l \in Langs, got[l].taken
               PROVE  /\ l = "cpp" \/ got[l].ok => got[l].pos <= Len(buffer)
                      /\ got[l].resized <= Len(buffer)
    BY Zenon DEF ReaderStaysInBuffer
  <2> DEFINE r == ReadIn(l, message, buffer)
             type == TypeOf(message.name)
  <2>1. /\ l \in Codecs(message.name) /\ Sendable(message) /\ Carried(buffer, Sent(message), fault)
        /\ got[l].ok = r.ok /\ got[l].pos = r.pos /\ got[l].resized = r.resized
    BY TakenIs
  <2>2. buffer \in Seq(Nat) /\ Len(buffer) >= 4
    BY <2>1, Zenon DEF Carried
  <2>3. Matrix \in Nat /\ message.name \in Both \cup CppOnly
    BY <2>1, ConversionsAssumption DEF Sendable
  <2>4. CASE l = "cpp"
    <3>1. r = deserialize(type, buffer) /\ type \in Seq(Members)
      BY <2>3, <2>4, AllTypes DEF ReadIn
    <3>2. r \in Readers(buffer) /\ Inside(r)
      BY <2>2, <3>1, DeserializeIs
    <3>3. r.buf = buffer
      BY <3>2, ReaderFields
    <3>4. r.pos <= Len(buffer) /\ r.resized <= Len(buffer)
      BY <3>2, <3>3, Zenon DEF Inside
    <3> QED BY <2>1, <3>4, Zenon
  <2>5. CASE l # "cpp"
    <3>1. r = from_cdr(type, buffer) /\ message.name \in Both
      BY <2>1, <2>5 DEF ReadIn, Codecs
    <3>2. type \in Seq(PyMembers)
      BY <2>3, <3>1, BothTypes
    <3>3. r \in Readers(buffer) /\ PyInside(r)
      BY <2>2, <3>1, <3>2, FromCdrIs
    <3>4. r.buf = buffer
      BY <3>3, ReaderFields
    <3>5. (r.ok => r.pos <= Len(buffer)) /\ r.resized <= Len(buffer)
      BY <3>3, <3>4, Zenon DEF PyInside
    <3> QED BY <2>1, <2>5, <3>5, Zenon
  <2> QED BY <2>4, <2>5
<1> QED BY <1>1, WireInvariant, PTL

==============================================================================

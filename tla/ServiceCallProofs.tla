--------------------------- MODULE ServiceCallProofs ---------------------------
(***************************************************************************)
(* Theorems about ServiceCall, for any number of clients, callers and      *)
(* servers, with losses, failures and timeouts.                            *)
(***************************************************************************)
EXTENDS ServiceCall, TLAPS

\* The sequence numbers a client has a record of.
Known(k) == PendingSeqs(k) \cup claimed[k] \cup withdrawn[k]

\* Sequence numbers are handed out once, so one that is being registered is new.
Numbers ==
    /\ \A c \in Callers : sending[c].seq <= nextSeq[ClientOf[c]]
    /\ \A c, d \in Callers :
         c # d /\ ClientOf[c] = ClientOf[d] /\ cpc[c] # "idle" /\ cpc[d] # "idle"
             => sending[c].seq # sending[d].seq
    /\ \A k \in Clients : \A p \in pending[k] :
         p.seq <= nextSeq[k] /\ ClientOf[p.by] = k
    /\ \A k \in Clients : \A n \in claimed[k] \cup withdrawn[k] : n <= nextSeq[k]
    /\ \A c \in Callers : cpc[c] = "register" =>
         /\ sending[c].seq \notin claimed[ClientOf[c]] \cup withdrawn[ClientOf[c]]
         /\ \A p \in pending[ClientOf[c]] : p.seq # sending[c].seq

\* An entry is in pending_ or in dispatch()'s hands, never both.
Hands ==
    /\ \A k \in Clients : \A p, q \in pending[k] : p.seq = q.seq => p = q
    /\ \A k \in Clients : \A p \in pending[k] : p.seq \notin claimed[k]
    /\ \A k \in Clients : \A h \in inhand[k] :
         /\ h.entry.seq \in claimed[k]
         /\ ClientOf[h.entry.by] = k
         /\ h.body = [client |-> k, seq |-> h.entry.seq]

\* Messages carry only numbers that were registered before they were sent.
Traffic ==
    /\ \A c \in Callers : cpc[c] = "write" => sending[c].seq \in Known(ClientOf[c])
    /\ \A s \in Servers : \A r \in requests[s] : r.seq \in Known(r.client)
    /\ \A k \in Clients : \A m \in inbox[k] :
         m.head = m.body /\ m.head.seq \in Known(m.head.client)

\* The promise in a caller's slot is that of its current call().
Slots ==
    \A c \in Callers :
        /\ cpc[c] = "idle" => promise[c] = {}
        /\ cpc[c] # "idle" /\ sending[c].kind = "sync" => promise[c] # {}
        /\ \A q \in promise[c] :
             q.seq = sending[c].seq /\ sending[c].kind = "sync"

\* Until a dead promise is written to, a promise holds nothing but the response
\* to its own call, and a lent pointer belongs to a call under way.
Loans ==
    ~dangling =>
        /\ \A c \in Callers : \A q \in promise[c] : \A v \in q.value :
             v = Header(c) /\ q.seq \in claimed[ClientOf[c]]
        /\ \A k \in Clients : \A p \in pending[k] : p.kind = "sync" =>
             /\ cpc[p.by] \in {"write", "wait", "withdraw"}
             /\ sending[p.by].kind = "sync" /\ sending[p.by].seq = p.seq
        /\ \A a \in answers : a.asked = a.body

IInv == TypeOK /\ Numbers /\ Hands /\ Traffic /\ Slots /\ Loans

\* Every operation keeps the state well typed.
LEMMA TypeNext == TypeOK /\ [Next]_vars => TypeOK'
<1> SUFFICES ASSUME TypeOK, [Next]_vars PROVE TypeOK'
  OBVIOUS
<1> USE ConstantsAssumption DEF TypeOK, Entries, Replies, Headers, Header
<1>1. ASSUME NEW c \in Callers, NEW kind \in {"sync", "async"}, Begin(c, kind)
     PROVE TypeOK'
  BY <1>1 DEF Begin
<1>2. ASSUME NEW c \in Callers, Register(c)
     PROVE TypeOK'
  BY <1>2 DEF Register, Registered, Entry
<1>3. ASSUME NEW c \in Callers, Write(c)
     PROVE TypeOK'
  BY <1>3 DEF Write
<1>4. ASSUME NEW c \in Callers, WriteFails(c)
     PROVE TypeOK'
  BY <1>4 DEF WriteFails
<1>5. ASSUME NEW c \in Callers, TimesOut(c)
     PROVE TypeOK'
  BY <1>5 DEF TimesOut
<1>6. ASSUME NEW c \in Callers, Withdraw(c)
     PROVE TypeOK'
  BY <1>6 DEF Withdraw
<1>7. ASSUME NEW c \in Callers, Receive(c)
     PROVE TypeOK'
  BY <1>7 DEF Receive
<1>8. ASSUME NEW s \in Servers, NEW r \in requests[s], Serve(s, r)
     PROVE TypeOK'
  BY <1>8 DEF Serve, Reply
<1>9. ASSUME NEW k \in Clients, NEW m \in inbox[k], Claim(k, m)
     PROVE TypeOK'
  BY <1>9 DEF Claim, LeftPending, Match
<1>10. ASSUME NEW k \in Clients, NEW h \in inhand[k], RunCallback(k, h)
     PROVE TypeOK'
  BY <1>10 DEF RunCallback
<1>11. ASSUME NEW k \in Clients, NEW h \in inhand[k], SetPromise(k, h)
     PROVE TypeOK'
  <2> DEFINE Put(q) == Fill(q, h.body)
  <2>1. h.entry.by \in Callers /\ h.body \in Headers
    OBVIOUS
  <2>2. \A q \in promise[h.entry.by] :
          Put(q) \in [seq : Nat, value : SUBSET Headers]
    BY <2>1 DEF Fill
  <2>3. {Put(q) : q \in promise[h.entry.by]}
          \in SUBSET [seq : Nat, value : SUBSET Headers]
    BY <2>2
  <2>4. promise' \in [Callers -> SUBSET [seq : Nat, value : SUBSET Headers]]
    <3>1. CASE promise' = [promise EXCEPT ![h.entry.by] = {Put(q) : q \in @}]
      <4> HIDE DEF Put, Headers
      <4> QED BY <2>3, <3>1
    <3> QED BY <1>11, <3>1 DEF SetPromise
  <2>5. dangling' \in BOOLEAN
    BY <1>11, Zenon DEF SetPromise
  <2> QED BY <1>11, <2>4, <2>5 DEF SetPromise
<1>12. ASSUME UNCHANGED <<nextSeq, pending, inbox, inhand, requests, cpc, sending,
                          promise, claimed, withdrawn, answers, dangling>>
       PROVE  TypeOK'
  BY <1>12
<1> QED
  BY <1>1, <1>2, <1>3, <1>4, <1>5, <1>6, <1>7, <1>8, <1>9, <1>10, <1>11, <1>12
     DEF Next, Proceed, DispatchResponses, vars

\* Every step keeps sequence numbers unique.
LEMMA NumbersNext == TypeOK /\ Numbers /\ [Next]_vars => Numbers'
<1> SUFFICES ASSUME TypeOK, Numbers, [Next]_vars PROVE Numbers'
  OBVIOUS
<1> USE ConstantsAssumption DEF TypeOK, Numbers, Entries
<1>1. ASSUME NEW c \in Callers, NEW kind \in {"sync", "async"}, Begin(c, kind)
     PROVE Numbers'
  BY <1>1 DEF Begin
<1>2. ASSUME NEW c \in Callers, Register(c)
     PROVE Numbers'
  <2>1. UNCHANGED <<sending, nextSeq, claimed, withdrawn>>
    BY <1>2 DEF Register
  <2>2. cpc[c] = "register" /\ cpc'[c] = "write"
    BY <1>2 DEF Register
  <2>3. \A d \in Callers : d # c => cpc'[d] = cpc[d]
    BY <1>2 DEF Register
  <2>4. /\ Entry(c).seq = sending[c].seq /\ Entry(c).by = c
        /\ ClientOf[c] \in Clients
    BY DEF Entry
  <2>5. \A k \in Clients : \A p \in pending'[k] :
          p \in pending[k] \/ (k = ClientOf[c] /\ p = Entry(c))
    BY <1>2 DEF Register, Registered
  <2>6. \A k \in Clients : \A p \in pending'[k] :
          p.seq <= nextSeq[k] /\ ClientOf[p.by] = k
    BY <2>4, <2>5
  <2>7. \A d, e \in Callers :
          d # e /\ ClientOf[d] = ClientOf[e] /\ cpc'[d] # "idle" /\ cpc'[e] # "idle"
              => sending[d].seq # sending[e].seq
    BY <2>2, <2>3
  <2>8. ASSUME NEW d \in Callers, cpc'[d] = "register"
        PROVE  \A p \in pending'[ClientOf[d]] : p.seq # sending[d].seq
    <3>1. d # c /\ cpc[d] = "register"
      BY <2>2, <2>3, <2>8
    <3>2. ClientOf[d] = ClientOf[c] => sending[d].seq # sending[c].seq
      BY <2>2, <3>1
    <3>3. \A p \in pending[ClientOf[d]] : p.seq # sending[d].seq
      BY <3>1
    <3>4. ClientOf[d] \in Clients
      OBVIOUS
    <3> QED BY <2>4, <2>5, <3>2, <3>3, <3>4
  <2>9. \A d \in Callers : cpc'[d] = "register" =>
          sending[d].seq \notin claimed[ClientOf[d]] \cup withdrawn[ClientOf[d]]
    BY <2>2, <2>3
  <2> QED BY <2>1, <2>6, <2>7, <2>8, <2>9
<1>3. ASSUME NEW c \in Callers, Write(c)
     PROVE Numbers'
  BY <1>3 DEF Write
<1>4. ASSUME NEW c \in Callers, WriteFails(c)
     PROVE Numbers'
  BY <1>4 DEF WriteFails
<1>5. ASSUME NEW c \in Callers, TimesOut(c)
     PROVE Numbers'
  BY <1>5 DEF TimesOut
<1>6. ASSUME NEW c \in Callers, Withdraw(c)
     PROVE Numbers'
  <2>1. \A k \in Clients : pending'[k] \subseteq pending[k]
    BY <1>6 DEF Withdraw
  <2>2. \A k \in Clients : \A n \in withdrawn'[k] :
          n \in withdrawn[k] \/ (k = ClientOf[c] /\ n = sending[c].seq)
    BY <1>6 DEF Withdraw
  <2>3. \A d \in Callers : cpc'[d] \in {cpc[d], "idle"} /\ (cpc'[d] # "idle" => d # c)
    BY <1>6 DEF Withdraw
  <2>4. UNCHANGED <<sending, nextSeq, claimed>>
    BY <1>6 DEF Withdraw
  <2>5. \A k \in Clients : \A n \in claimed'[k] \cup withdrawn'[k] : n <= nextSeq[k]
    BY <2>2, <2>4
  <2>6. ASSUME NEW d \in Callers, cpc'[d] = "register"
        PROVE  sending[d].seq \notin withdrawn'[ClientOf[d]]
    <3>1. cpc[c] = "withdraw" /\ cpc[d] = "register" /\ d # c
      BY <1>6, <2>3, <2>6 DEF Withdraw
    <3>2. ClientOf[d] = ClientOf[c] => sending[d].seq # sending[c].seq
      BY <3>1
    <3> QED BY <2>2, <3>1, <3>2
  <2>7. ASSUME NEW d \in Callers, NEW e \in Callers, d # e,
               ClientOf[d] = ClientOf[e], cpc'[d] # "idle", cpc'[e] # "idle"
        PROVE  sending[d].seq # sending[e].seq
    BY <2>3, <2>7
  <2> QED BY <2>1, <2>3, <2>4, <2>5, <2>6, <2>7
<1>7. ASSUME NEW c \in Callers, Receive(c)
     PROVE Numbers'
  BY <1>7 DEF Receive
<1>8. ASSUME NEW k \in Clients, NEW m \in inbox[k], Claim(k, m)
     PROVE Numbers'
  BY <1>8 DEF Claim, LeftPending, Match
<1>9. ASSUME UNCHANGED <<sending, nextSeq, cpc, pending, claimed, withdrawn>>
      PROVE  Numbers'
  BY <1>9
<1> HIDE DEF TypeOK, Numbers, Entries
<1> QED
  BY <1>1, <1>2, <1>3, <1>4, <1>5, <1>6, <1>7, <1>8, <1>9
     DEF Next, Proceed, DispatchResponses, Serve, Reply, RunCallback,
         SetPromise, vars

\* Every step keeps entries in one place.
LEMMA HandsNext == TypeOK /\ Numbers /\ Hands /\ Traffic /\ [Next]_vars => Hands'
<1> SUFFICES ASSUME TypeOK, Numbers, Hands, Traffic, [Next]_vars PROVE Hands'
  OBVIOUS
<1> USE ConstantsAssumption DEF TypeOK, Hands, Entries, Replies, Headers
<1>1. ASSUME NEW c \in Callers, Register(c)
     PROVE Hands'
  BY <1>1 DEF Register, Registered, Entry, Numbers
<1>2. ASSUME NEW c \in Callers, Withdraw(c)
     PROVE Hands'
  BY <1>2 DEF Withdraw
<1>3. ASSUME NEW k \in Clients, NEW m \in inbox[k], Claim(k, m)
     PROVE Hands'
  <2>1. PICK ps \in {Match(k, m), {}} :
          /\ pending' = [pending EXCEPT ![k] = pending[k] \ ps]
          /\ claimed' = [claimed EXCEPT ![k] = @ \cup {p.seq : p \in ps}]
          /\ inhand' = [inhand EXCEPT ![k] =
                            {[entry |-> p, body |-> m.body] : p \in ps}]
    BY <1>3 DEF Claim, LeftPending
  <2>2. \A p \in ps : p \in pending[k] /\ m.head.client = k /\ p.seq = m.head.seq
    BY <2>1 DEF Match
  <2>3. \A p \in ps : ClientOf[p.by] = k /\ m.body = [client |-> k, seq |-> p.seq]
    BY <2>2 DEF Numbers, Traffic
  <2>4. \A l \in Clients : pending'[l] \subseteq pending[l]
    BY <2>1
  <2>5. \A p \in pending'[k] : p.seq \notin claimed'[k]
    <3> SUFFICES ASSUME NEW p \in pending'[k], p.seq \in claimed'[k] PROVE FALSE
      OBVIOUS
    <3>1. p \in pending[k] /\ p \notin ps
      BY <2>1
    <3>2. PICK q \in ps : q.seq = p.seq
      BY <2>1, <3>1
    <3> QED BY <2>2, <3>1, <3>2
  <2>6. \A l \in Clients : l # k =>
          claimed'[l] = claimed[l] /\ inhand'[l] = inhand[l]
    BY <2>1
  <2>7. \A h \in inhand'[k] : \E p \in ps : h = [entry |-> p, body |-> m.body]
    BY <2>1
  <2>8. \A p \in ps : p.seq \in claimed'[k]
    BY <2>1
  <2>9. \A h \in inhand'[k] : /\ h.entry.seq \in claimed'[k]
                             /\ ClientOf[h.entry.by] = k
                             /\ h.body = [client |-> k, seq |-> h.entry.seq]
    BY <2>3, <2>7, <2>8
  <2> QED BY <2>4, <2>5, <2>6, <2>9
<1>4. ASSUME NEW k \in Clients, NEW h \in inhand[k], RunCallback(k, h)
     PROVE Hands'
  BY <1>4 DEF RunCallback
<1>5. ASSUME NEW k \in Clients, NEW h \in inhand[k], SetPromise(k, h)
     PROVE Hands'
  BY <1>5 DEF SetPromise
<1>6. ASSUME UNCHANGED <<pending, claimed, inhand>> PROVE Hands'
  BY <1>6
<1> QED
  BY <1>1, <1>2, <1>3, <1>4, <1>5, <1>6
     DEF Next, Proceed, DispatchResponses, Begin, Write, WriteFails, TimesOut,
         Receive, Serve, Reply, vars

\* Every step keeps messages registered.
LEMMA TrafficNext == TypeOK /\ Traffic /\ [Next]_vars => Traffic'
<1> SUFFICES ASSUME TypeOK, Traffic, [Next]_vars PROVE Traffic'
  OBVIOUS
<1> USE ConstantsAssumption DEF TypeOK, Traffic, Known, PendingSeqs, Header, Entries,
      Replies, Headers
<1>1. ASSUME NEW c \in Callers, NEW kind \in {"sync", "async"}, Begin(c, kind)
     PROVE Traffic'
  BY <1>1 DEF Begin
<1>2. ASSUME NEW c \in Callers, Register(c)
     PROVE Traffic'
  <2>1. \A k \in Clients : pending[k] \subseteq pending'[k]
    BY <1>2 DEF Register
  <2>2. \A k \in Clients : Known(k) \subseteq Known(k)'
    BY <1>2, <2>1 DEF Register
  <2>3. Entry(c) \in pending'[ClientOf[c]] /\ Entry(c).seq = sending[c].seq
    BY <1>2 DEF Register, Registered, Entry
  <2>4. sending[c].seq \in Known(ClientOf[c])'
    BY <1>2, <2>3, Zenon DEF Register
  <2> HIDE DEF Known
  <2> QED BY <1>2, <2>2, <2>4 DEF Register
<1>3. ASSUME NEW c \in Callers, Write(c)
     PROVE Traffic'
  BY <1>3 DEF Write
<1>4. ASSUME NEW c \in Callers, WriteFails(c)
     PROVE Traffic'
  BY <1>4 DEF WriteFails
<1>5. ASSUME NEW c \in Callers, TimesOut(c)
     PROVE Traffic'
  BY <1>5 DEF TimesOut
<1>6. ASSUME NEW c \in Callers, Withdraw(c)
     PROVE Traffic'
  BY <1>6 DEF Withdraw
<1>7. ASSUME NEW c \in Callers, Receive(c)
     PROVE Traffic'
  BY <1>7 DEF Receive
<1>8. ASSUME NEW s \in Servers, NEW r \in requests[s], Serve(s, r)
     PROVE Traffic'
  BY <1>8 DEF Serve, Reply
<1>9. ASSUME NEW k \in Clients, NEW m \in inbox[k], Claim(k, m)
     PROVE Traffic'
  BY <1>9 DEF Claim, LeftPending, Match
<1>10. ASSUME UNCHANGED <<cpc, sending, pending, claimed, withdrawn, requests, inbox>>
       PROVE  Traffic'
  BY <1>10
<1> QED
  BY <1>1, <1>2, <1>3, <1>4, <1>5, <1>6, <1>7, <1>8, <1>9, <1>10
     DEF Next, Proceed, DispatchResponses, RunCallback, SetPromise, vars

\* Every step keeps one promise per call under way.
LEMMA SlotsNext == TypeOK /\ Slots /\ [Next]_vars => Slots'
<1> SUFFICES ASSUME TypeOK, Slots, [Next]_vars PROVE Slots'
  OBVIOUS
<1> USE ConstantsAssumption DEF TypeOK, Slots
<1>1. ASSUME NEW c \in Callers, NEW kind \in {"sync", "async"}, Begin(c, kind)
     PROVE Slots'
  <2> DEFINE n == nextSeq[ClientOf[c]] + 1
  <2>1. sending'[c] = [kind |-> kind, seq |-> n] /\ cpc'[c] # "idle"
    BY <1>1 DEF Begin
  <2>2. promise'[c] = IF kind = "sync" THEN {[seq |-> n, value |-> {}]} ELSE {}
    BY <1>1 DEF Begin
  <2>3. \A d \in Callers : d # c => /\ cpc'[d] = cpc[d] /\ sending'[d] = sending[d]
                                    /\ promise'[d] = promise[d]
    BY <1>1 DEF Begin
  <2> HIDE DEF n
  <2>4. \A q \in promise'[c] : q.seq = n /\ kind = "sync"
    BY <2>2
  <2>5. kind = "sync" => promise'[c] # {}
    BY <2>2
  <2> QED BY <2>1, <2>3, <2>4, <2>5
<1>2. ASSUME NEW c \in Callers, Register(c)
     PROVE Slots'
  BY <1>2 DEF Register, Registered, Entry
<1>3. ASSUME NEW c \in Callers, Write(c)
     PROVE Slots'
  BY <1>3 DEF Write
<1>4. ASSUME NEW c \in Callers, WriteFails(c)
     PROVE Slots'
  BY <1>4 DEF WriteFails
<1>5. ASSUME NEW c \in Callers, TimesOut(c)
     PROVE Slots'
  BY <1>5 DEF TimesOut
<1>6. ASSUME NEW c \in Callers, Withdraw(c)
     PROVE Slots'
  BY <1>6 DEF Withdraw
<1>7. ASSUME NEW c \in Callers, Receive(c)
     PROVE Slots'
  BY <1>7 DEF Receive
<1>8. ASSUME NEW k \in Clients, NEW h \in inhand[k], SetPromise(k, h)
     PROVE Slots'
  <2> DEFINE Put(q) == Fill(q, h.body)
  <2>1. \A c \in Callers : \A q \in promise[c] : Put(q).seq = q.seq
    BY DEF Fill
  <2>2. CASE promise' = [promise EXCEPT ![h.entry.by] = {Put(q) : q \in @}]
    <3>1. \A c \in Callers : promise'[c] = promise[c]
                             \/ promise'[c] = {Put(q) : q \in promise[c]}
      BY <2>2
    <3>2. ASSUME NEW c \in Callers
          PROVE  /\ promise[c] = {} <=> promise'[c] = {}
                 /\ \A q \in promise'[c] : \E p \in promise[c] : q.seq = p.seq
      <4> HIDE DEF Put
      <4>1. CASE promise'[c] = {Put(q) : q \in promise[c]}
        <5>1. promise[c] = {} <=> promise'[c] = {}
          BY <4>1
        <5>2. \A q \in promise'[c] : \E p \in promise[c] : q = Put(p)
          BY <4>1
        <5> QED BY <2>1, <5>1, <5>2
      <4> QED BY <3>1, <4>1
    <3>3. UNCHANGED <<cpc, sending>>
      BY <1>8 DEF SetPromise
    <3> QED BY <3>2, <3>3
  <2>3. CASE UNCHANGED promise
    BY <1>8, <2>3 DEF SetPromise
  <2> QED BY <1>8, <2>2, <2>3 DEF SetPromise
<1>9. ASSUME UNCHANGED <<cpc, sending, promise>> PROVE Slots'
  BY <1>9
<1> QED
  BY <1>1, <1>2, <1>3, <1>4, <1>5, <1>6, <1>7, <1>8, <1>9
     DEF Next, Proceed, DispatchResponses, Serve, Reply, Claim, LeftPending,
         Match, RunCallback, vars

\* Every step keeps lent pointers alive, unless it writes to a dead promise.
LEMMA LoansNext == TypeOK /\ Numbers /\ Hands /\ Slots /\ Loans /\ [Next]_vars => Loans'
<1> SUFFICES ASSUME TypeOK, Numbers, Hands, Slots, Loans, [Next]_vars PROVE Loans'
  OBVIOUS
<1> USE ConstantsAssumption DEF TypeOK, Loans, Header, Entries, Headers
<1>1. ASSUME NEW c \in Callers, NEW kind \in {"sync", "async"}, Begin(c, kind)
     PROVE Loans'
  BY <1>1 DEF Begin
<1>2. ASSUME NEW c \in Callers, Register(c)
     PROVE Loans'
  BY <1>2 DEF Register, Registered, Entry
<1>3. ASSUME NEW c \in Callers, Write(c)
     PROVE Loans'
  BY <1>3 DEF Write
<1>4. ASSUME NEW c \in Callers, WriteFails(c)
     PROVE Loans'
  BY <1>4 DEF WriteFails
<1>5. ASSUME NEW c \in Callers, TimesOut(c)
     PROVE Loans'
  BY <1>5 DEF TimesOut
<1>6. ASSUME NEW c \in Callers, Withdraw(c)
     PROVE Loans'
  <2> SUFFICES ASSUME ~dangling' PROVE Loans'
    OBVIOUS
  <2>1. ~dangling /\ answers' = answers /\ sending' = sending /\ claimed' = claimed
    BY <1>6 DEF Withdraw
  <2>2. \A d \in Callers : d # c => promise'[d] = promise[d] /\ cpc'[d] = cpc[d]
    BY <1>6 DEF Withdraw
  <2>3. promise'[c] = {}
    BY <1>6 DEF Withdraw
  <2>4. \A k \in Clients : \A p \in pending'[k] : p \in pending[k]
    BY <1>6 DEF Withdraw
  <2>5. \A k \in Clients : \A p \in pending'[k] : p.kind = "sync" => p.by # c
    BY <2>1, <1>6 DEF Withdraw, Numbers
  <2>6. ASSUME NEW d \in Callers, NEW q \in promise'[d], NEW v \in q.value
        PROVE  v = Header(d)' /\ q.seq \in claimed'[ClientOf[d]]
    BY <2>1, <2>2, <2>3
  <2>7. ASSUME NEW k \in Clients, NEW p \in pending'[k], p.kind = "sync"
        PROVE  /\ cpc'[p.by] \in {"write", "wait", "withdraw"}
               /\ sending'[p.by].kind = "sync" /\ sending'[p.by].seq = p.seq
    <3>1. p \in pending[k] /\ p.by # c /\ p.by \in Callers
      BY <2>4, <2>5, <2>7
    <3> QED BY <2>1, <2>2, <2>7, <3>1
  <2> QED BY <2>1, <2>6, <2>7
<1>7. ASSUME NEW c \in Callers, Receive(c)
     PROVE Loans'
  <2> SUFFICES ASSUME ~dangling' PROVE Loans'
    OBVIOUS
  <2>1. /\ ~dangling /\ sending' = sending /\ claimed' = claimed /\ pending' = pending
    BY <1>7 DEF Receive
  <2>2. PICK p \in promise[c] : \E v \in p.value :
          answers' = answers \cup {[asked |-> Header(c), body |-> v]}
    BY <1>7 DEF Receive
  <2>3. PICK v \in p.value :
          answers' = answers \cup {[asked |-> Header(c), body |-> v]}
    BY <2>2
  <2>4. v = Header(c) /\ p.seq \in claimed[ClientOf[c]] /\ p.seq = sending[c].seq
    BY <2>1 DEF Slots
  <2>5. \A a \in answers' : a.asked = a.body
    BY <2>1, <2>3, <2>4
  <2>6. \A d \in Callers : d # c => promise'[d] = promise[d] /\ cpc'[d] = cpc[d]
    BY <1>7 DEF Receive
  <2>7. promise'[c] = {}
    BY <1>7 DEF Receive
  <2>8. \A k \in Clients : \A e \in pending[k] : e.kind = "sync" => e.by # c
    BY <2>1, <2>4 DEF Hands, Numbers
  <2> QED BY <2>1, <2>5, <2>6, <2>7, <2>8
<1>8. ASSUME NEW k \in Clients, NEW m \in inbox[k], Claim(k, m)
     PROVE Loans'
  BY <1>8 DEF Claim, LeftPending, Match
<1>9. ASSUME NEW k \in Clients, NEW h \in inhand[k], RunCallback(k, h)
     PROVE Loans'
  <2>1. h.body = [client |-> k, seq |-> h.entry.seq]
    BY DEF Hands
  <2>2. \A a \in answers' : a \in answers \/ a.asked = a.body
    BY <1>9, <2>1 DEF RunCallback
  <2> QED BY <1>9, <2>2 DEF RunCallback
<1>10. ASSUME NEW k \in Clients, NEW h \in inhand[k], SetPromise(k, h)
     PROVE Loans'
  <2> SUFFICES ASSUME ~dangling' PROVE Loans'
    OBVIOUS
  <2> DEFINE c == h.entry.by
             Put(q) == Fill(q, h.body)
  <2>1. ~dangling /\ \E q \in promise[c] : q.seq = h.entry.seq
    BY <1>10, Zenon DEF SetPromise
  <2>2. promise' = [promise EXCEPT ![c] = {Put(q) : q \in @}]
    BY <1>10, <2>1 DEF SetPromise
  <2>0. c \in Callers
    OBVIOUS
  <2>3. h.entry.seq = sending[c].seq /\ ClientOf[c] = k /\ c \in Callers
    <3>1. h.entry.seq = sending[c].seq
      BY <2>0, <2>1 DEF Slots
    <3> QED BY <2>0, <3>1 DEF Hands
  <2>4. h.body = Header(c) /\ h.entry.seq \in claimed[ClientOf[c]]
    BY <2>3 DEF Hands
  <2>5. \A q \in promise[c] : /\ Put(q).seq = sending[c].seq
                              /\ \A v \in Put(q).value : v \in q.value \/ v = h.body
    BY <2>3 DEF Slots, Fill
  <2> HIDE DEF Put
  <2>6. \A q \in promise'[c] :
          q.seq = sending[c].seq /\ \A v \in q.value : v = Header(c)
    <3> SUFFICES ASSUME NEW q \in promise[c]
                 PROVE  /\ Put(q).seq = sending[c].seq
                        /\ \A v \in Put(q).value : v = Header(c)
      BY <2>2, <2>3
    <3> QED BY <2>1, <2>3, <2>4, <2>5
  <2>7. \A d \in Callers : d # c => promise'[d] = promise[d]
    BY <2>2
  <2>8. UNCHANGED <<cpc, sending, claimed, pending, answers>>
    BY <1>10 DEF SetPromise
  <2>9. ASSUME NEW d \in Callers, NEW q \in promise'[d], NEW v \in q.value
        PROVE  v = Header(d)' /\ q.seq \in claimed'[ClientOf[d]]
    <3> HIDE DEF c
    <3>1. CASE d = c
      BY <2>3, <2>4, <2>6, <2>8, <3>1
    <3>2. CASE d # c
      BY <2>1, <2>7, <2>8, <3>2
    <3> QED BY <3>1, <3>2
  <2> QED BY <2>1, <2>8, <2>9
<1>11. ASSUME UNCHANGED <<cpc, sending, promise, claimed, pending, answers, dangling>>
       PROVE  Loans'
  BY <1>11
<1> QED
  BY <1>1, <1>2, <1>3, <1>4, <1>5, <1>6, <1>7, <1>8, <1>9, <1>10, <1>11
     DEF Next, Proceed, DispatchResponses, Serve, Reply, vars

\* The inductive invariant holds before any call.
LEMMA IInvInit == Init => IInv
<1> SUFFICES ASSUME Init PROVE IInv
  OBVIOUS
<1> USE ConstantsAssumption DEF Init, Idle
<1>1. TypeOK
  BY DEF TypeOK
<1>2. Numbers /\ Hands /\ Traffic /\ Slots
  BY DEF Numbers, Hands, Traffic, Slots
<1>3. Loans
  BY DEF Loans
<1> QED BY <1>1, <1>2, <1>3 DEF IInv

\* The inductive invariant is an invariant of clients and servers.
THEOREM Invariance == Spec => []IInv
<1>1. IInv /\ [Next]_vars => IInv'
  BY TypeNext, NumbersNext, HandsNext, TrafficNext, SlotsNext, LoansNext DEF IInv
<1> QED BY IInvInit, <1>1, PTL DEF Spec

\* Type correctness of clients and servers.
THEOREM TypeCorrect == Spec => []TypeOK
<1>1. IInv => TypeOK
  BY DEF IInv
<1> QED BY Invariance, <1>1, PTL

\* A response never races the registration of its request: no reply arrives
\* before send_request has put its entry into pending_.
THEOREM RegistrationFirst == Spec => []RegisteredBeforeReply
<1>1. IInv => RegisteredBeforeReply
  BY DEF IInv, Traffic, Known, RegisteredBeforeReply
<1> QED BY Invariance, <1>1, PTL

\* dispatch() completes no request twice, however often it is answered.
THEOREM AtMostOnce == Spec => []CompletedOnce
<1>1. IInv => CompletedOnce
  BY DEF IInv, Hands, CompletedOnce, PendingSeqs
<1> QED BY Invariance, <1>1, PTL

\* The promise pointers in pending_ are those of calls under way; the only one
\* that can outlive its call is the one dispatch() has already moved out.
THEOREM PointersLive == Spec => []PendingPointersLive
<1>1. ASSUME IInv PROVE PendingPointersLive
  <2> SUFFICES ASSUME ~dangling, NEW k \in Clients, NEW p \in pending[k],
                      p.kind = "sync"
               PROVE  \E q \in promise[p.by] : q.seq = p.seq /\ ClientOf[p.by] = k
    BY DEF PendingPointersLive
  <2>1. p.by \in Callers /\ ClientOf[p.by] = k
    BY <1>1 DEF IInv, TypeOK, Entries, Numbers
  <2>2. /\ cpc[p.by] # "idle" /\ sending[p.by].kind = "sync"
        /\ sending[p.by].seq = p.seq
    BY <1>1 DEF IInv, Loans
  <2> QED BY <1>1, <2>1, <2>2 DEF IInv, Slots
<1> QED BY Invariance, <1>1, PTL

\* Until dispatch() has written through a pointer to a finished call, every
\* caller and every callback gets the response to its own request.
THEOREM OwnAnswers == Spec => []AnswersMatch
<1>1. IInv => AnswersMatch
  BY DEF IInv, Loans, AnswersMatch
<1> QED BY Invariance, <1>1, PTL
===============================================================================

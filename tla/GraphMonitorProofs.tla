-------------------------- MODULE GraphMonitorProofs --------------------------
(***************************************************************************)
(* Theorems about GraphMonitor, for any participants, endpoints, batch     *)
(* size and limit on logs: when it has caught up the monitor knows exactly *)
(* the domain and keeps exactly the newest records, and no snapshot shows  *)
(* the monitor itself.                                                     *)
(***************************************************************************)
EXTENDS GraphMonitor, SequenceTheorems, TLAPS

USE DEF domainVars, readerVars, graphVars, threadVars

-----------------------------------------------------------------------------
(* The inductive invariant.                                                *)

\* An announcement is of another participant, and of the node it runs.
Announcements == {m \in [peer : Peers \ {Self}, node : {NodeName[p] : p \in Peers},
                         gids : SUBSET Endpoints] : m.node = NodeName[m.peer]}

TypeOK ==
    /\ present \subseteq Peers /\ departed \subseteq Peers /\ exists \subseteq Endpoints
    /\ announced \subseteq Announcements /\ sample \subseteq Announcements
    /\ discovery \subseteq Announcements
    /\ unreadPeers \subseteq Peers /\ unreadEnds \subseteq Endpoints
    /\ participants \subseteq Peers /\ endpoints \subseteq Endpoints
    /\ written \in Nat

\* An endpoint that exists belongs to a participant that is present.
Housed == \A e \in exists : Home[e] \in present

\* Where the readers have no news, the monitor's entry is right: an instance changes
\* only together with news of it.
Known ==
    /\ \A p \in Peers \ unreadPeers : p \in participants <=> p \in present
    /\ \A e \in Endpoints \ unreadEnds : e \in endpoints <=> e \in exists

\* The records after lo up to hi.
Run(lo, hi) == [i \in 1..(hi - lo) |-> lo + i]
LastOf(lo, hi) == Run(IF hi - lo > MaxLogs THEN hi - MaxLogs ELSE lo, hi)

\* The ring has the newest of the records taken so far, the reader the newest of those
\* that came after.
Kept ==
    \E a \in 0..written : logs = LastOf(0, a) /\ unreadLogs = LastOf(a, written)

IInv == TypeOK /\ Housed /\ Known /\ Kept

-----------------------------------------------------------------------------
(* Runs of records.                                                        *)

\* A run is a sequence.
LEMMA RunType ==
    ASSUME NEW lo \in Nat, NEW hi \in Nat, lo <= hi
    PROVE  /\ Run(lo, hi) \in Seq(Nat) /\ Len(Run(lo, hi)) = hi - lo
           /\ \A i \in 1..(hi - lo) : Run(lo, hi)[i] = lo + i
<1>1. hi - lo \in Nat
  OBVIOUS
<1>2. \A i \in 1..(hi - lo) : lo + i \in Nat
  OBVIOUS
<1> QED BY <1>1, <1>2 DEF Run

\* The newest records of a run.
LEMMA NewestOfRun ==
    ASSUME NEW lo \in Nat, NEW hi \in Nat, lo <= hi
    PROVE  Newest(Run(lo, hi), MaxLogs) = LastOf(lo, hi)
<1>0. MaxLogs \in Nat \ {0}
  BY GraphAssumption
<1>1. CASE hi - lo > MaxLogs
  <2> DEFINE s == Run(lo, hi)
             r == SubSeq(s, Len(s) - MaxLogs + 1, Len(s))
  <2>1. s \in Seq(Nat) /\ Len(s) = hi - lo /\ \A i \in 1..(hi - lo) : s[i] = lo + i
    BY RunType
  <2>2. hi - MaxLogs \in Nat /\ hi - MaxLogs <= hi /\ hi - (hi - MaxLogs) = MaxLogs
    BY <1>0, <1>1
  <2> HIDE DEF s
  <2>3. r = [i \in 1..MaxLogs |-> s[i + (hi - lo - MaxLogs)]]
    BY <1>0, <1>1, <2>1
  <2>4. \A i \in 1..MaxLogs : s[i + (hi - lo - MaxLogs)] = (hi - MaxLogs) + i
    BY <1>0, <1>1, <2>1
  <2>5. r = Run(hi - MaxLogs, hi)
    BY <2>2, <2>3, <2>4 DEF Run
  <2>6. Newest(s, MaxLogs) = r
    BY <1>1, <2>1 DEF Newest
  <2> QED BY <1>1, <2>5, <2>6 DEF LastOf, s
<1>2. CASE ~(hi - lo > MaxLogs)
  BY <1>2, RunType DEF Newest, LastOf
<1> QED BY <1>1, <1>2

\* The next record makes a run longer.
LEMMA RunAppend ==
    ASSUME NEW lo \in Nat, NEW hi \in Nat, lo <= hi
    PROVE  Append(Run(lo, hi), hi + 1) = Run(lo, hi + 1)
<1> DEFINE s == Run(lo, hi)
<1>1. /\ s \in Seq(Nat) /\ Len(s) = hi - lo /\ \A i \in 1..(hi - lo) : s[i] = lo + i
  BY RunType
<1> HIDE DEF s
<1>2. Append(s, hi + 1) =
        [i \in 1..(hi - lo + 1) |-> IF i = hi - lo + 1 THEN hi + 1 ELSE s[i]]
  BY <1>1
<1>3. /\ hi + 1 - lo = hi - lo + 1
      /\ \A i \in 1..(hi - lo + 1) :
           (IF i = hi - lo + 1 THEN hi + 1 ELSE s[i]) = lo + i
  BY <1>1
<1> QED BY <1>2, <1>3 DEF Run, s

\* Two runs of which the second starts where the first ends are one.
LEMMA RunConcat ==
    ASSUME NEW x \in Nat, NEW a \in Nat, NEW w \in Nat, x <= a, a <= w
    PROVE  Run(x, a) \o Run(a, w) = Run(x, w)
<1> DEFINE s == Run(x, a)
           u == Run(a, w)
<1>1. /\ s \in Seq(Nat) /\ Len(s) = a - x /\ \A i \in 1..(a - x) : s[i] = x + i
      /\ u \in Seq(Nat) /\ Len(u) = w - a /\ \A i \in 1..(w - a) : u[i] = a + i
  BY RunType
<1> HIDE DEF s, u
<1>2. /\ s \o u \in Seq(Nat) /\ Len(s \o u) = w - x
      /\ \A i \in 1..(w - x) :
           (s \o u)[i] = IF i <= a - x THEN s[i] ELSE u[i - (a - x)]
  <2>1. Len(s) + Len(u) = w - x
    BY <1>1
  <2>2. /\ s \o u \in Seq(Nat) /\ Len(s \o u) = Len(s) + Len(u)
        /\ \A i \in 1..(Len(s) + Len(u)) :
             (s \o u)[i] = IF i <= Len(s) THEN s[i] ELSE u[i - Len(s)]
    BY <1>1, ConcatProperties
  <2> QED BY <1>1, <2>1, <2>2
<1>3. \A i \in 1..(w - x) : (IF i <= a - x THEN s[i] ELSE u[i - (a - x)]) = x + i
  BY <1>1
<1>4. /\ Run(x, w) \in Seq(Nat) /\ Len(Run(x, w)) = w - x
      /\ \A i \in 1..(w - x) : Run(x, w)[i] = x + i
  BY RunType
<1>5. s \o u = Run(x, w)
  BY <1>2, <1>3, <1>4, SeqEqual
<1> QED BY <1>5 DEF s, u

\* The newest of a run is the newest of its newest.
LEMMA LastOfLast ==
    ASSUME NEW a \in Nat, NEW w \in Nat, a <= w
    PROVE  \E y \in Nat : /\ a <= y /\ y <= w /\ LastOf(a, w) = Run(y, w)
                          /\ \A v \in Nat : v >= w => LastOf(y, v) = LastOf(a, v)
<1>0. MaxLogs \in Nat \ {0}
  BY GraphAssumption
<1>1. CASE w - a > MaxLogs
  <2> DEFINE y == w - MaxLogs
  <2>1. y \in Nat /\ a <= y /\ y <= w /\ LastOf(a, w) = Run(y, w)
    BY <1>0, <1>1 DEF LastOf
  <2>2. ASSUME NEW v \in Nat, v >= w PROVE LastOf(y, v) = LastOf(a, v)
    <3>1. v - a > MaxLogs
      BY <1>0, <1>1, <2>2
    <3>2. ~(v - y > MaxLogs) => v - MaxLogs = y
      BY <1>0, <2>2
    <3> QED BY <3>1, <3>2 DEF LastOf
  <2> QED BY <2>1, <2>2
<1>2. CASE ~(w - a > MaxLogs)
  BY <1>2 DEF LastOf
<1> QED BY <1>1, <1>2

\* The reader keeps the newest records when one more arrives.
LEMMA ReaderKeeps ==
    ASSUME NEW a \in Nat, NEW w \in Nat, a <= w
    PROVE  Newest(Append(LastOf(a, w), w + 1), MaxLogs) = LastOf(a, w + 1)
<1>1. PICK y \in Nat : /\ y <= w /\ LastOf(a, w) = Run(y, w)
                       /\ \A v \in Nat : v >= w => LastOf(y, v) = LastOf(a, v)
  BY LastOfLast
<1>2. w + 1 \in Nat /\ w + 1 >= w /\ y <= w + 1
  BY <1>1
<1>3. Append(LastOf(a, w), w + 1) = Run(y, w + 1)
  BY <1>1, RunAppend
<1>4. Newest(Run(y, w + 1), MaxLogs) = LastOf(y, w + 1)
  BY <1>2, NewestOfRun
<1> QED BY <1>1, <1>2, <1>3, <1>4

\* The ring keeps the newest records when it takes those of the reader, whether the
\* reader has lost some or not.
LEMMA RingKeeps ==
    ASSUME NEW a \in Nat, NEW w \in Nat, a <= w
    PROVE  Newest(LastOf(0, a) \o LastOf(a, w), MaxLogs) = LastOf(0, w)
<1>0. MaxLogs \in Nat \ {0}
  BY GraphAssumption
<1>1. PICK x \in Nat : /\ x <= a /\ LastOf(0, a) = Run(x, a)
                       /\ \A v \in Nat : v >= a => LastOf(x, v) = LastOf(0, v)
  <2>1. 0 \in Nat /\ 0 <= a
    OBVIOUS
  <2> QED BY <2>1, LastOfLast
<1>2. CASE ~(w - a > MaxLogs)
  <2>1. LastOf(a, w) = Run(a, w)
    BY <1>2 DEF LastOf
  <2>2. LastOf(0, a) \o LastOf(a, w) = Run(x, w)
    BY <1>1, <2>1, RunConcat
  <2>3. x <= w
    BY <1>1
  <2>4. Newest(Run(x, w), MaxLogs) = LastOf(x, w)
    BY <2>3, NewestOfRun
  <2> QED BY <1>1, <2>2, <2>4
<1>3. CASE w - a > MaxLogs
  <2> DEFINE s == Run(x, a)
             u == Run(w - MaxLogs, w)
  <2>1. w - MaxLogs \in Nat /\ w - (w - MaxLogs) = MaxLogs /\ w - MaxLogs <= w
    BY <1>0, <1>3
  <2>2. /\ s \in Seq(Nat) /\ Len(s) = a - x /\ Len(s) \in Nat
        /\ u \in Seq(Nat) /\ Len(u) = MaxLogs
    <3>1. s \in Seq(Nat) /\ Len(s) = a - x
      BY <1>1, RunType
    <3>2. u \in Seq(Nat) /\ Len(u) = w - (w - MaxLogs)
      BY <2>1, RunType
    <3> QED BY <1>1, <2>1, <3>1, <3>2
  <2>3. LastOf(a, w) = u /\ LastOf(0, w) = u
    BY <1>0, <1>3 DEF LastOf
  <2> HIDE DEF s, u
  <2>4. s \o u \in Seq(Nat) /\ Len(s \o u) = Len(s) + MaxLogs
    BY <2>2, ConcatProperties
  <2>5. CASE Len(s) = 0
    <3>1. s = << >>
      BY <2>2, <2>5
    <3>2. s \o u = u
      BY <2>2, <3>1, ConcatEmptySeq
    <3>3. Newest(u, MaxLogs) = u
      BY <1>0, <2>2 DEF Newest
    <3> QED BY <1>1, <2>3, <3>2, <3>3 DEF s
  <2>6. CASE Len(s) > 0
    <3>1. Newest(s \o u, MaxLogs) = SubSeq(s \o u, Len(s) + 1, Len(s) + MaxLogs)
      <4>1. Len(s \o u) > MaxLogs /\ Len(s \o u) - MaxLogs + 1 = Len(s) + 1
        BY <1>0, <2>2, <2>4, <2>6
      <4> QED BY <2>4, <4>1 DEF Newest
    <3>2. /\ Len(s) + 1 \in (Len(s) + 1)..(Len(s) + Len(u))
          /\ Len(s) + MaxLogs \in (Len(s) + 1)..(Len(s) + Len(u))
          /\ (Len(s) + 1) - Len(s) = 1 /\ (Len(s) + MaxLogs) - Len(s) = Len(u)
      BY <1>0, <2>2
    <3>3. SubSeq(s \o u, Len(s) + 1, Len(s) + MaxLogs) = SubSeq(u, 1, Len(u))
      <4>1. \A m, n \in (Len(s) + 1)..(Len(s) + Len(u)) :
               SubSeq(s \o u, m, n) = SubSeq(u, m - Len(s), n - Len(s))
        BY <2>2, SubSeqOfConcat2
      <4> QED BY <3>2, <4>1
    <3>4. SubSeq(u, 1, Len(u)) = u
      BY <2>2, SubSeqFull
    <3> QED BY <1>1, <2>3, <3>1, <3>3, <3>4 DEF s
  <2> QED BY <2>2, <2>5, <2>6
<1> QED BY <1>2, <1>3

-----------------------------------------------------------------------------
(* The inductive invariant is one.                                         *)

\* It holds of a new monitor.
LEMMA IInvInit == Init => IInv
<1> SUFFICES ASSUME Init PROVE IInv
  OBVIOUS
<1>1. TypeOK /\ Housed /\ Known
  BY GraphAssumption DEF Init, TypeOK, Housed, Known
<1>2. Run(0, 0) = << >>
  BY DEF Run
<1>3. LastOf(0, 0) = Run(0, 0)
  BY GraphAssumption DEF LastOf
<1>4. Kept
  BY <1>2, <1>3 DEF Init, Kept
<1> QED BY <1>1, <1>4 DEF IInv

\* Every step keeps the types, and endpoints with participants that are present.
LEMMA TypeNext == TypeOK /\ Housed /\ [Next]_vars => TypeOK' /\ Housed'
<1> SUFFICES ASSUME TypeOK, Housed, [Next]_vars PROVE TypeOK' /\ Housed'
  OBVIOUS
<1> DEFINE Good == TypeOK' /\ Housed'
<1> USE GraphAssumption DEF TypeOK, Housed
<1>1. ASSUME NEW p \in Peers, Join(p) \/ Leave(p) PROVE Good
  BY <1>1 DEF Join, Leave
<1>2. ASSUME NEW p \in Peers, Announce(p) PROVE Good
  <2> DEFINE m == [peer |-> p, node |-> NodeName[p],
                   gids |-> {e \in exists : Home[e] = p /\ p \in Ros}]
  <2>1. p # Self /\ sample' = {m} /\ announced' \subseteq announced \cup {m}
    BY <1>2 DEF Announce
  <2>2. m \in Announcements
    BY <2>1 DEF Announcements
  <2> HIDE DEF m
  <2> QED BY <1>2, <2>1, <2>2 DEF Announce
<1>3. ASSUME NEW e \in Endpoints, Create(e) \/ Delete(e) PROVE Good
  BY <1>3 DEF Create, Delete
<1>4. CASE Log
  BY <1>4 DEF Log
<1>5. CASE poll_participants
  BY <1>5 DEF poll_participants, Retired
<1>6. ASSUME NEW slot, NEW mine, poll_builtin(slot, mine) PROVE Good
  BY <1>6 DEF poll_builtin, Followed
<1>7. CASE poll_discovery
  BY <1>7 DEF poll_discovery
<1>8. CASE poll_rosout
  BY <1>8 DEF poll_rosout
<1>9. ASSUME UNCHANGED <<domainVars, readerVars, graphVars>> PROVE Good
  BY <1>9
<1> QED
  BY <1>1, <1>2, <1>3, <1>4, <1>5, <1>6, <1>7, <1>8, <1>9
     DEF Next, Domain, Thread, Test, WaitReturns, Stopped, NextRound, WaitFails, Destroy,
         TriggerStop, Joined, vars

\* Every step keeps the entries right where there is no news.
LEMMA KnownNext == TypeOK /\ Housed /\ Known /\ [Next]_vars => Known'
<1> SUFFICES ASSUME TypeOK, Housed, Known, [Next]_vars PROVE Known'
  OBVIOUS
<1> USE GraphAssumption DEF TypeOK, Known
<1>1. ASSUME NEW p \in Peers, Join(p) \/ Leave(p) \/ Announce(p) PROVE Known'
  BY <1>1 DEF Join, Leave, Announce
<1>2. ASSUME NEW e \in Endpoints, Create(e) \/ Delete(e) PROVE Known'
  BY <1>2 DEF Create, Delete
<1>3. CASE poll_participants
  <2>1. PICK t \in Taken(unreadPeers) :
          /\ unreadPeers' = unreadPeers \ t
          /\ participants' = (participants \cup (t \cap present)) \ (t \ present)
          /\ endpoints' = Retired(t \ present)
    BY <1>3 DEF poll_participants
  <2>2. UNCHANGED <<present, exists, unreadEnds>> /\ t \subseteq unreadPeers
    BY <1>3, <2>1 DEF poll_participants, Taken
  <2>3. \A q \in Peers \ unreadPeers' : q \in participants' <=> q \in present
    BY <2>1, <2>2
  <2>4. \A e \in Endpoints \ unreadEnds : e \in endpoints' <=> e \in exists
    BY <2>1 DEF Retired, Housed
  <2> QED BY <2>2, <2>3, <2>4
<1>4. ASSUME NEW slot, NEW mine, poll_builtin(slot, mine) PROVE Known'
  <2>1. PICK t \in Taken(unreadEnds \cap mine) :
          unreadEnds' = unreadEnds \ t /\ endpoints' = Followed(t)
    BY <1>4 DEF poll_builtin
  <2>2. UNCHANGED <<present, exists, unreadPeers, participants>>
    BY <1>4 DEF poll_builtin
  <2>3. \A e \in Endpoints \ unreadEnds' : e \in endpoints' <=> e \in exists
    BY <2>1 DEF Followed
  <2> QED BY <2>2, <2>3
<1>5. ASSUME UNCHANGED <<present, exists, unreadPeers, unreadEnds, participants, endpoints>>
      PROVE  Known'
  BY <1>5
<1> QED
  BY <1>1, <1>2, <1>3, <1>4, <1>5
     DEF Next, Domain, Log, Thread, Test, WaitReturns, Stopped, poll_discovery, poll_rosout,
         NextRound, WaitFails, Destroy, TriggerStop, Joined, vars

\* Every step keeps the newest records.
LEMMA KeptNext == TypeOK /\ Kept /\ [Next]_vars => Kept'
<1> SUFFICES ASSUME TypeOK, Kept, [Next]_vars PROVE Kept'
  OBVIOUS
<1>1. PICK a \in 0..written : logs = LastOf(0, a) /\ unreadLogs = LastOf(a, written)
  BY DEF Kept
<1>2. a \in Nat /\ written \in Nat /\ a <= written
  BY DEF TypeOK
<1>3. CASE Log
  <2>1. /\ written' = written + 1 /\ logs' = logs
        /\ unreadLogs' = Newest(Append(unreadLogs, written + 1), MaxLogs)
    BY <1>3 DEF Log
  <2>2. unreadLogs' = LastOf(a, written')
    BY <1>1, <1>2, <2>1, ReaderKeeps
  <2>3. a \in 0..written'
    BY <1>2, <2>1
  <2> QED BY <1>1, <2>1, <2>2, <2>3 DEF Kept
<1>4. CASE poll_rosout
  <2>1. /\ written' = written /\ unreadLogs' = << >>
        /\ logs' = Newest(logs \o unreadLogs, MaxLogs)
    BY <1>4 DEF poll_rosout, Trimmed
  <2>2. logs' = LastOf(0, written)
    BY <1>1, <1>2, <2>1, RingKeeps
  <2>3. LastOf(written, written) = << >>
    <3>1. written - written = 0 /\ ~(0 > MaxLogs)
      BY <1>2, GraphAssumption
    <3> QED BY <3>1 DEF LastOf, Run
  <2>4. written \in 0..written'
    BY <1>2, <2>1
  <2> QED BY <2>1, <2>2, <2>3, <2>4 DEF Kept
<1>5. ASSUME UNCHANGED <<written, logs, unreadLogs>> PROVE Kept'
  BY <1>5 DEF Kept
<1> QED
  BY <1>3, <1>4, <1>5
     DEF Next, Domain, Join, Leave, Announce, Create, Delete, Thread, Test, WaitReturns,
         Stopped, poll_participants, poll_builtin, poll_discovery, NextRound, WaitFails,
         Destroy, TriggerStop, Joined, vars

-----------------------------------------------------------------------------
(* Theorems.                                                               *)

\* The inductive invariant holds in every reachable state of the monitor.
THEOREM Invariance == Spec => []IInv
<1>1. IInv /\ [Next]_vars => IInv'
  BY TypeNext, KnownNext, KeptNext DEF IInv
<1> QED BY IInvInit, <1>1, PTL DEF Spec

\* Type correctness of the monitor's state: it keeps announcements of other
\* participants only, each with the node of its participant.
THEOREM TypeCorrect == Spec => []TypeOK
<1>1. IInv => TypeOK
  BY DEF IInv
<1> QED BY Invariance, <1>1, PTL

\* Nothing is left in a reader when the waitset has nothing to report.
LEMMA QuietReaders ==
    Quiet /\ TypeOK => unreadPeers = {} /\ unreadEnds = {} /\ unreadLogs = << >>
<1> SUFFICES ASSUME Ready = {}, TypeOK
             PROVE  unreadPeers = {} /\ unreadEnds = {} /\ unreadLogs = << >>
  BY DEF Quiet
<1>1. {"part", "pub", "sub", "rosout"} \subseteq Slots
  BY DEF Slots
<1>2. /\ unreadPeers = {} /\ unreadEnds \cap Writers = {} /\ unreadEnds \ Writers = {}
      /\ unreadLogs = << >>
  BY <1>1 DEF Ready
<1> QED BY <1>2

\* A monitor that has caught up knows exactly the participants and endpoints of the
\* domain (poll_participants, poll_builtin), for every batch size.
THEOREM MonitorCatchesUp == Spec => []CaughtUp
<1>1. IInv => CaughtUp
  BY QuietReaders DEF IInv, TypeOK, Known, CaughtUp
<1> QED BY Invariance, <1>1, PTL

\* It keeps exactly the newest records, in order and without a gap, for every limit.
THEOREM RingIsNewest == Spec => []LogsAreNewest
<1>1. ASSUME IInv, Quiet
      PROVE  snapshot_json.logs = Newest([i \in 1..written |-> i], MaxLogs)
  <2>1. PICK a \in 0..written : logs = LastOf(0, a) /\ unreadLogs = LastOf(a, written)
    BY <1>1 DEF IInv, Kept
  <2>2. unreadLogs = << >> /\ written \in Nat /\ a \in Nat /\ a <= written
    BY <1>1, QuietReaders DEF IInv, TypeOK
  <2>3. a = written
    <3>1. Len(LastOf(a, written)) = 0
      BY <2>1, <2>2
    <3>2. CASE ~(written - a > MaxLogs)
      <4>1. LastOf(a, written) = Run(a, written)
        BY <3>2 DEF LastOf
      <4>2. Len(Run(a, written)) = written - a
        BY <2>2, RunType
      <4> QED BY <2>2, <3>1, <4>1, <4>2
    <3>3. CASE written - a > MaxLogs
      <4>1. /\ LastOf(a, written) = Run(written - MaxLogs, written)
            /\ written - MaxLogs \in Nat /\ written - MaxLogs <= written
            /\ written - (written - MaxLogs) # 0
        BY <2>2, <3>3, GraphAssumption DEF LastOf
      <4>2. Len(Run(written - MaxLogs, written)) = written - (written - MaxLogs)
        BY <2>2, <4>1, RunType
      <4> QED BY <3>1, <4>1, <4>2
    <3> QED BY <3>2, <3>3
  <2>4. Run(0, written) = [i \in 1..written |-> i]
    BY <2>2 DEF Run
  <2>5. 0 \in Nat /\ 0 <= written
    BY <2>2
  <2>6. Newest(Run(0, written), MaxLogs) = LastOf(0, written)
    BY <2>2, <2>5, NewestOfRun
  <2> QED BY <2>1, <2>3, <2>4, <2>6 DEF snapshot_json
<1> QED BY Invariance, <1>1, PTL DEF LogsAreNewest

\* resolve_node never gives another participant's endpoint to the monitor.
LEMMA ResolvesToOthers ==
    ASSUME TypeOK, NEW e \in Live PROVE resolve_node(e) # Anonymous(Self)
<1>1. e \in Endpoints /\ Home[e] \in Peers /\ Home[e] # Self
  BY GraphAssumption DEF TypeOK, Live, Visible
<1>2. \A n \in Owners(e) : n # Anonymous(Self)
  BY NameAssumption DEF Owners, TypeOK, Announcements
<1>3. EnclaveOf(Home[e]) # NoName => EnclaveOf(Home[e]) # Anonymous(Self)
  BY <1>1, NameAssumption DEF EnclaveOf
<1>4. Anonymous(Home[e]) # Anonymous(Self)
  BY <1>1 DEF Anonymous
<1> HIDE DEF Anonymous
<1> QED BY <1>2, <1>3, <1>4 DEF resolve_node

\* No section of a snapshot shows the monitor itself (snapshot_json), at whatever point
\* of following the domain it is taken.
THEOREM MonitorUnseen == Spec => []ObserverInvisible
<1>1. ASSUME TypeOK PROVE ObserverInvisible
  <2>1. \A t, es : Anonymous(Self) \notin By(t, es)
    BY <1>1, ResolvesToOthers DEF By
  <2>2. Anonymous(Self) \notin SnapshotNodes
    <3>1. \A m \in discovery : m.node # Anonymous(Self)
      BY <1>1, NameAssumption DEF TypeOK, Announcements
    <3>2. \A p \in participants : EnclaveOf(p) # Anonymous(Self)
      BY <1>1, NameAssumption DEF TypeOK, EnclaveOf
    <3> QED BY <1>1, <3>1, <3>2, ResolvesToOthers DEF SnapshotNodes
  <2>3. \A kind : \A t \in Listed(kind) : Anonymous(Self) \notin t.writers \cup t.readers
    BY <2>1 DEF Listed
  <2>4. \A d \in SnapshotEdges : Anonymous(Self) \notin {d.source, d.target}
    BY <2>1 DEF SnapshotEdges
  <2>5. \A e \in Live : Home[e] # Self
    BY DEF Live, Visible
  <2> QED BY <2>2, <2>3, <2>4, <2>5 DEF ObserverInvisible, snapshot_json
<1>2. IInv => ObserverInvisible
  BY <1>1 DEF IInv
<1> QED BY Invariance, <1>2, PTL
===============================================================================

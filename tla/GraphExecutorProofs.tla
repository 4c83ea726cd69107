-------------------------- MODULE GraphExecutorProofs --------------------------
(***************************************************************************)
(* Theorems about GraphExecutor, for any topology, periods and threads:    *)
(* publisher threads are backed by what they use, a construction that      *)
(* failed leaves nothing, publishers keep their rate, and calls through    *)
(* the handle work on an executor unless destroy overlapped them.          *)
(***************************************************************************)
EXTENDS GraphExecutor, TLAPS

USE DEF holdVars, threadVars

-----------------------------------------------------------------------------
(* The inductive invariant.                                                *)

Constructing == {"build", "start", "register"}
Owning == Constructing \cup TearingDown
PcLabels == {"idle"} \cup Calls \cup Owning
ThreadLabels == {"none", "new", "test", "write", "sleep", "done"}

TypeOK ==
    /\ creation \in {"none", "running", "returned", "threw"}
    /\ at \in [node : Nodes, item : Nat]
    /\ entries \subseteq Endpoints /\ entryNodes \subseteq Nodes
    /\ executorNodes \subseteq Nodes
    /\ alive \in BOOLEAN /\ running \in BOOLEAN /\ cancelled \in BOOLEAN
    /\ registered \in BOOLEAN /\ overlapped \in BOOLEAN
    /\ pc \in [Threads -> PcLabels] /\ thread \in [Periodic -> ThreadLabels]
    /\ started \in [Periodic -> Nat] /\ deadline \in [Periodic -> Nat]
    /\ published \in [Publishers -> Nat] /\ now \in Nat

\* One thread at a time builds the executor or tears it down; nobody does while the
\* handle is known, and there is no executor before the first call and after a throw.
OneOwner ==
    /\ \A t, u \in Threads : pc[t] \in Owning /\ pc[u] \in Owning => t = u
    /\ registered => \A t \in Threads : pc[t] \notin Owning
    /\ \A t \in Threads : pc[t] \in Constructing => creation = "running"
    /\ creation \in {"none", "threw"} => ~registered /\ \A t \in Threads : pc[t] \notin Owning

\* Nodes are built in order.
Building ==
    /\ creation = "none" => at = [node |-> 1, item |-> 0]
    /\ \A t \in Threads : pc[t] = "build" =>
         /\ alive
         /\ \A n \in Nodes :
              n < at.node \/ (n = at.node /\ at.item > 0) => n \in executorNodes

\* Threads are started in order too, each once.
Unstarted ==
    /\ creation = "none" => \A p \in Periodic : thread[p] = "none"
    /\ \A t \in Threads : pc[t] = "build" => \A p \in Periodic : thread[p] = "none"
    /\ \A t \in Threads : pc[t] = "start" => at.item > 0
    /\ \A t \in Threads : pc[t] = "start" =>
         \A n \in Nodes : \A i \in DOMAIN Topology[n] :
             /\ n > at.node \/ (n = at.node /\ i >= at.item)
             /\ Topology[n][i] \in Periodic
             => thread[Topology[n][i]] = "none"

\* From the end of building to the join all nodes are there.
Complete == alive /\ executorNodes = Nodes
Whole ==
    /\ registered => Complete
    /\ \A t \in Threads :
         pc[t] \in {"start", "register", "stop", "cancel_spin", "join"} => Complete

\* What is gone at the end of a teardown.
Emptied ==
    /\ \A t \in Threads : pc[t] = "drop_executor" => entries = {} /\ entryNodes = {}
    /\ creation \in {"none", "threw"} => LiveNodes = {} /\ entries = {}

\* Publisher threads work only while the executor is whole.
Covered ==
    (\E p \in Periodic : Working(p)) =>
        \/ registered
        \/ \E t \in Threads : pc[t] \in {"start", "register", "stop", "cancel_spin", "join"}

\* Calls are made through a handle that is known, unless destroy overlapped.
Looked == ~overlapped => \A t \in Threads : pc[t] \in Calls => registered

\* A publisher has written at most once for each period between its start and its next
\* deadline, which is at most one period away.
OnSchedule(p) ==
    /\ thread[p] \in {"none", "new"} =>
         started[p] = 0 /\ deadline[p] = 0 /\ published[p] = 0
    /\ started[p] <= deadline[p] /\ deadline[p] <= now + Period[p]
    /\ thread[p] \in {"test", "write", "done"} => deadline[p] <= now
    /\ published[p] * Period[p] <= deadline[p] - started[p]
    /\ \E k \in Nat : deadline[p] = started[p] + k * Period[p]
Paced == \A p \in Periodic : OnSchedule(p)

IInv ==
    /\ TypeOK /\ OneOwner /\ Building /\ Unstarted /\ Whole /\ Emptied /\ Covered
    /\ Looked /\ Paced

\* The nodes of the topology are numbered.
LEMMA NodesAre ==
    /\ Nodes = 1..Len(Topology) /\ Len(Topology) \in Nat /\ 1 \in Nodes
    /\ \A n \in Nodes : n \in Nat /\ Len(Topology[n]) \in Nat
                        /\ DOMAIN Topology[n] = 1..Len(Topology[n])
<1>1. /\ Topology \in Seq(Seq(Parameters \cup Endpoints)) /\ Topology # << >>
  BY TopologyAssumption
<1>2. \A n \in Nodes : Topology[n] \in Seq(Parameters \cup Endpoints)
  BY <1>1 DEF Nodes
<1> QED BY <1>1, <1>2 DEF Nodes

\* Every endpoint is on one of the nodes.
LEMMA NodeOfType == \A e \in Endpoints : NodeOf(e) \in Nodes
<1>1. \A e \in Endpoints : \E n \in Nodes : e \in On(n)
  BY TopologyAssumption
<1> QED BY <1>1 DEF NodeOf

\* The inductive invariant holds before the first call.
LEMMA IInvInit == Init => IInv
<1> SUFFICES ASSUME Init PROVE IInv
  OBVIOUS
<1>0. Period \in [Periodic -> Nat \ {0}]
  BY TopologyAssumption
<1>1. TypeOK
  <2>1. /\ alive \in BOOLEAN /\ running \in BOOLEAN /\ cancelled \in BOOLEAN
        /\ registered \in BOOLEAN /\ overlapped \in BOOLEAN
    BY Zenon DEF Init
  <2>2. at \in [node : Nodes, item : Nat]
    BY NodesAre DEF Init
  <2> QED BY <2>1, <2>2 DEF Init, TypeOK, PcLabels, ThreadLabels
<1>2. OneOwner /\ Building /\ Unstarted /\ Whole /\ Emptied /\ Covered /\ Looked
  BY DEF Init, OneOwner, Building, Unstarted, Whole, Emptied, Covered, Looked, Owning,
         Constructing, TearingDown, Calls, LiveNodes, Working
<1>3. Paced
  <2> SUFFICES ASSUME NEW p \in Periodic
               PROVE  /\ started[p] = 0 /\ deadline[p] = 0 /\ published[p] = 0
                      /\ thread[p] = "none"
                      /\ started[p] <= deadline[p] /\ deadline[p] <= now + Period[p]
                      /\ published[p] * Period[p] <= deadline[p] - started[p]
                      /\ \E k \in Nat : deadline[p] = started[p] + k * Period[p]
    BY DEF Paced, OnSchedule
  <2>1. /\ started[p] = 0 /\ deadline[p] = 0 /\ published[p] = 0 /\ now = 0
        /\ thread[p] = "none" /\ Period[p] \in Nat
    BY <1>0 DEF Init, Publishers
  <2>2. 0 * Period[p] = 0
    BY <2>1
  <2> QED BY <2>1, <2>2
<1> QED BY <1>1, <1>2, <1>3 DEF IInv

-----------------------------------------------------------------------------
(* Types.                                                                  *)

\* Every step keeps the types.
LEMMA TypeNext == TypeOK /\ [Next]_vars => TypeOK'
<1> SUFFICES ASSUME TypeOK, [Next]_vars PROVE TypeOK'
  OBVIOUS
<1> USE NodesAre DEF TypeOK, Goto
<1> DEFINE Flags == /\ alive' \in BOOLEAN /\ running' \in BOOLEAN
                    /\ cancelled' \in BOOLEAN /\ registered' \in BOOLEAN
                    /\ overlapped' \in BOOLEAN
<1>b. Flags
  <2>1. ASSUME UNCHANGED <<alive, running, cancelled, registered, overlapped>> PROVE Flags
    BY <2>1
  <2>2. ASSUME NEW t \in Threads, Create(t) \/ Register(t) PROVE Flags
    BY <2>2, Zenon DEF Create, Register
  <2>3. ASSUME NEW t \in Threads, SpinReturns(t) \/ Cancel(t) PROVE Flags
    BY <2>3, Zenon DEF SpinReturns, Cancel
  <2>4. ASSUME NEW t \in Threads, Destroy(t) PROVE Flags
    BY <2>4, Zenon DEF Destroy, Erased
  <2>5. ASSUME NEW t \in Threads, Stop(t) \/ CancelSpin(t) \/ DropEntries(t) PROVE Flags
    BY <2>5, Zenon DEF Stop, Stopped, CancelSpin, DropEntries
  <2> HIDE DEF Flags
  <2> QED
    BY <2>1, <2>2, <2>3, <2>4, <2>5
       DEF Next, ConstructorStep, BuildNode, BuildItem, PushNode, StartItem, StartNode,
           BuildThrows, StartThrows, Lookup, CallReturns, TeardownStep, Join, DropExecutor,
           PublisherStep, Begin, Test, Write, Wake, Tick, vars
<1> USE DEF PcLabels, Owning, Constructing, TearingDown, ThreadLabels
<1>1. ASSUME NEW t \in Threads, Create(t) \/ BuildThrows(t) \/ StartThrows(t) PROVE TypeOK'
  BY <1>1, <1>b DEF Create, BuildThrows, StartThrows, StartThrowsTo
<1>2. ASSUME NEW t \in Threads, BuildNode(t) \/ BuildItem(t) PROVE TypeOK'
  BY <1>2, <1>b DEF BuildNode, BuildItem, NextItem
<1>3. ASSUME NEW t \in Threads, PushNode(t) \/ StartNode(t) PROVE TypeOK'
  <2>1. at.node \in Nodes /\ (at.node # Len(Topology) => at.node + 1 \in Nodes)
    OBVIOUS
  <2>2. /\ at' = at \/ at' = [node |-> 1, item |-> 1]
           \/ (at.node # Len(Topology) /\ \E i \in {0, 1} : at' = [node |-> at.node + 1, item |-> i])
        /\ pc' = pc \/ \E l \in Constructing : pc' = [pc EXCEPT ![t] = l]
    BY <1>3 DEF PushNode, StartNode
  <2>3. at' \in [node : Nodes, item : Nat]
    BY <2>1, <2>2
  <2>4. pc' \in [Threads -> PcLabels]
    BY <2>2
  <2> QED BY <1>3, <1>b, <2>3, <2>4 DEF PushNode, StartNode
<1>4. ASSUME NEW t \in Threads, StartItem(t) PROVE TypeOK'
  <2>0. at' = [at EXCEPT !.item = @ + 1]
    BY <1>4 DEF StartItem, NextItem
  <2>1. at' \in [node : Nodes, item : Nat]
    <3>1. at.item + 1 \in Nat /\ at.node \in Nodes
      OBVIOUS
    <3>2. at' = [node |-> at.node, item |-> at.item + 1]
      BY <2>0
    <3> QED BY <3>1, <3>2
  <2>2. thread' \in [Periodic -> ThreadLabels] /\ published' \in [Publishers -> Nat]
    BY <1>4 DEF StartItem, WriteOutcomes
  <2> QED BY <1>4, <1>b, <2>1, <2>2 DEF StartItem
<1>5. ASSUME NEW t \in Threads, NEW call \in Calls,
             \/ Register(t) \/ Lookup(t, call) \/ SpinReturns(t) \/ CallReturns(t)
             \/ Cancel(t) \/ Destroy(t)
      PROVE  TypeOK'
  BY <1>5, <1>b DEF Register, Lookup, SpinReturns, CallReturns, Cancel, Destroy
<1>6. ASSUME NEW t \in Threads, TeardownStep(t) PROVE TypeOK'
  BY <1>6, <1>b DEF TeardownStep, Stop, CancelSpin, Join, DropEntries, DropExecutor
<1>7. ASSUME NEW p \in Periodic, PublisherStep(p) PROVE TypeOK'
  <2>1. Period[p] \in Nat /\ p \in Publishers
    BY TopologyAssumption DEF Publishers
  <2>2. started' \in [Periodic -> Nat] /\ deadline' \in [Periodic -> Nat]
    <3>1. deadline[p] + Period[p] \in Nat
      BY <2>1
    <3>2. CASE Write(p)
      BY <3>1, <3>2 DEF Write, NextDeadline
    <3>3. CASE Begin(p)
      BY <3>3 DEF Begin
    <3>4. CASE Test(p)
      BY <3>4 DEF Test
    <3>5. CASE Wake(p)
      BY <3>5 DEF Wake
    <3> QED BY <1>7, <3>2, <3>3, <3>4, <3>5 DEF PublisherStep
  <2>3. published' \in [Publishers -> Nat]
    BY <1>7, <2>1 DEF PublisherStep, Begin, Test, Write, Wake, WriteOutcomes
  <2>4. thread' \in [Periodic -> ThreadLabels]
    BY <1>7 DEF PublisherStep, Begin, Test, Write, Wake
  <2> QED BY <1>7, <1>b, <2>2, <2>3, <2>4 DEF PublisherStep, Begin, Test, Write, Wake
<1>8. CASE Tick
  BY <1>8, <1>b DEF Tick
<1>9. CASE UNCHANGED vars
  BY <1>9 DEF vars
<1>10. "status" \in Calls
  BY DEF Calls
<1> QED
  BY <1>1, <1>2, <1>3, <1>4, <1>5, <1>6, <1>7, <1>8, <1>9, <1>10
     DEF Next, ConstructorStep

-----------------------------------------------------------------------------
(* Who builds and who tears down.                                          *)

\* Every step leaves at most one thread building or tearing down.
LEMMA OneOwnerNext == TypeOK /\ OneOwner /\ [Next]_vars => OneOwner'
<1> SUFFICES ASSUME TypeOK, OneOwner, [Next]_vars PROVE OneOwner'
  OBVIOUS
<1> USE DEF TypeOK, Goto, Owning, Constructing, TearingDown
<1>1. ASSUME NEW t \in Threads, pc[t] \in Owning,
             pc' = pc \/ \E l \in PcLabels : pc' = [pc EXCEPT ![t] = l],
             pc'[t] \in Constructing => pc[t] \in Constructing,
             UNCHANGED <<registered, creation>>
      PROVE  OneOwner'
  BY <1>1 DEF OneOwner
<1>2. ASSUME NEW t \in Threads, Create(t) PROVE OneOwner'
  BY <1>2 DEF Create, OneOwner
<1>3. ASSUME NEW t \in Threads, BuildNode(t) \/ BuildItem(t) \/ StartItem(t) PROVE OneOwner'
  BY <1>1, <1>3 DEF BuildNode, BuildItem, StartItem
<1>4. ASSUME NEW t \in Threads,
             PushNode(t) \/ StartNode(t) \/ BuildThrows(t) \/ StartThrows(t)
      PROVE  OneOwner'
  BY <1>1, <1>4 DEF PushNode, StartNode, BuildThrows, StartThrows, StartThrowsTo, PcLabels
<1>5. ASSUME NEW t \in Threads, Register(t) PROVE OneOwner'
  BY <1>5 DEF Register, OneOwner
<1>6. ASSUME NEW t \in Threads, NEW call \in Calls,
             Lookup(t, call) \/ SpinReturns(t) \/ CallReturns(t) \/ Cancel(t)
      PROVE  OneOwner'
  BY <1>6 DEF Lookup, SpinReturns, CallReturns, Cancel, OneOwner, Calls
<1>7. ASSUME NEW t \in Threads, Destroy(t) PROVE OneOwner'
  BY <1>7 DEF Destroy, Erased, OneOwner
<1>8. ASSUME NEW t \in Threads, Stop(t) \/ CancelSpin(t) \/ Join(t) \/ DropEntries(t)
      PROVE  OneOwner'
  BY <1>1, <1>8 DEF Stop, CancelSpin, Join, DropEntries, PcLabels
<1>9. ASSUME NEW t \in Threads, DropExecutor(t) PROVE OneOwner'
  BY <1>9 DEF DropExecutor, OneOwner
<1>10. ASSUME UNCHANGED <<pc, registered, creation>> PROVE OneOwner'
  BY <1>10 DEF OneOwner
<1>11. "status" \in Calls
  BY DEF Calls
<1> QED
  BY <1>2, <1>3, <1>4, <1>5, <1>6, <1>7, <1>8, <1>9, <1>10, <1>11
     DEF Next, ConstructorStep, TeardownStep, PublisherStep, Begin, Test, Write, Wake, Tick,
         vars

\* A step of the thread that owns the executor: the others stay where they are, and
\* creation is under way or over.
LEMMA OwnerStep ==
    ASSUME TypeOK, OneOwner, NEW t \in Threads, pc[t] \in Owning, NEW l \in PcLabels,
           pc' = [pc EXCEPT ![t] = l]
    PROVE  /\ creation \notin {"none", "threw"} /\ ~registered
           /\ \A u \in Threads : u # t => pc'[u] = pc[u] /\ pc[u] \notin Owning
           /\ pc'[t] = l
  BY DEF TypeOK, OneOwner

\* Every step of building adds the next node.
LEMMA BuildingNext == TypeOK /\ OneOwner /\ Building /\ [Next]_vars => Building'
<1> SUFFICES ASSUME TypeOK, OneOwner, Building, [Next]_vars PROVE Building'
  OBVIOUS
<1> USE NodesAre DEF TypeOK, Goto
<1>1. ASSUME NEW t \in Threads, Create(t) PROVE Building'
  <2>1. at' = at /\ at.node = 1 /\ at.item = 0 /\ alive' /\ creation' = "running"
    BY <1>1 DEF Create, Building
  <2>2. \A n \in Nodes : ~(n < at.node \/ (n = at.node /\ at.item > 0))
    BY <2>1
  <2> QED BY <2>1, <2>2 DEF Building
<1>2. ASSUME NEW t \in Threads, BuildNode(t) PROVE Building'
  <2>1. /\ pc[t] = "build" /\ at' = [at EXCEPT !.item = 1] /\ UNCHANGED <<pc, alive, creation>>
        /\ executorNodes' = executorNodes \cup {at.node} /\ at.item = 0
    BY <1>2 DEF BuildNode, NextItem
  <2>2. at'.node = at.node /\ creation # "none" /\ alive
    BY <2>1 DEF Building, OneOwner, Owning, Constructing
  <2> QED BY <2>1, <2>2 DEF Building
<1>3. ASSUME NEW t \in Threads, BuildItem(t) PROVE Building'
  <2>1. /\ pc[t] = "build" /\ at.item # 0 /\ UNCHANGED <<pc, alive, creation, executorNodes>>
        /\ at' = [at EXCEPT !.item = @ + 1]
    BY <1>3 DEF BuildItem, NextItem
  <2>2. at'.node = at.node /\ creation # "none" /\ at.item > 0
    BY <2>1 DEF OneOwner, Owning, Constructing
  <2> QED BY <2>1, <2>2 DEF Building
<1>4. ASSUME NEW t \in Threads, PushNode(t) PROVE Building'
  <2>1. /\ pc[t] = "build" /\ at.item > Len(Topology[at.node]) /\ at.node \in Nodes
        /\ UNCHANGED <<alive, creation, executorNodes>>
    BY <1>4 DEF PushNode, NodeDone
  <2>2. at.item > 0 /\ creation # "none"
    BY <2>1 DEF OneOwner, Owning, Constructing
  <2>3. CASE at.node = Len(Topology)
    <3>1. \A u \in Threads : pc'[u] # "build"
      BY <1>4, <2>1, <2>3 DEF PushNode, OneOwner, Owning, Constructing
    <3> QED BY <2>1, <2>2, <3>1 DEF Building
  <2>4. CASE at.node # Len(Topology)
    <3>1. at' = [node |-> at.node + 1, item |-> 0] /\ UNCHANGED pc
      BY <1>4, <2>4 DEF PushNode
    <3>2. \A n \in Nodes : n < at'.node => n < at.node \/ n = at.node
      BY <2>1, <3>1
    <3>3. \A n \in Nodes : n < at.node \/ n = at.node => n \in executorNodes
      BY <2>1, <2>2 DEF Building
    <3>4. alive /\ ~(at'.item > 0)
      BY <2>1, <3>1 DEF Building
    <3> QED BY <2>1, <2>2, <3>2, <3>3, <3>4 DEF Building
  <2> QED BY <2>3, <2>4
<1>5. ASSUME NEW t \in Threads, pc[t] \in Owning, NEW l \in PcLabels, l # "build",
             pc' = [pc EXCEPT ![t] = l], creation' \in {creation, "returned", "threw"}
      PROVE  Building'
  BY <1>5, OwnerStep DEF Building, Owning, Constructing
<1>6. ASSUME NEW t \in Threads,
             \/ BuildThrows(t) \/ StartThrows(t) \/ Register(t) \/ TeardownStep(t)
      PROVE  Building'
  BY <1>5, <1>6 DEF BuildThrows, StartThrows, StartThrowsTo, Register, TeardownStep, Stop,
     CancelSpin, Join, DropEntries, DropExecutor, PcLabels, Owning, Constructing, TearingDown
<1>7. ASSUME NEW t \in Threads, StartItem(t) \/ StartNode(t) PROVE Building'
  <2>1. pc[t] = "start" /\ UNCHANGED creation
        /\ (pc' = pc \/ pc' = [pc EXCEPT ![t] = "register"])
    BY <1>7 DEF StartItem, StartNode
  <2> QED BY <2>1 DEF Building, OneOwner, Owning, Constructing
<1>8. ASSUME UNCHANGED <<at, alive, executorNodes, creation>>,
             \A t \in Threads : pc'[t] = "build" => pc[t] = "build"
      PROVE  Building'
  BY <1>8 DEF Building
<1>9. ASSUME NEW t \in Threads, NEW call \in Calls,
             \/ Lookup(t, call) \/ SpinReturns(t) \/ CallReturns(t) \/ Cancel(t) \/ Destroy(t)
      PROVE  Building'
  BY <1>8, <1>9 DEF Lookup, SpinReturns, CallReturns, Cancel, Destroy, Calls
<1>10. "status" \in Calls
  BY DEF Calls
<1> QED
  BY <1>1, <1>2, <1>3, <1>4, <1>6, <1>7, <1>8, <1>9, <1>10
     DEF Next, ConstructorStep, PublisherStep, Begin, Test, Write, Wake, Tick, vars

\* Every step keeps the threads not reached yet unstarted.
LEMMA UnstartedNext == TypeOK /\ OneOwner /\ Unstarted /\ [Next]_vars => Unstarted'
<1> SUFFICES ASSUME TypeOK, OneOwner, Unstarted, [Next]_vars PROVE Unstarted'
  OBVIOUS
<1> USE NodesAre DEF TypeOK, Goto
<1>1. ASSUME NEW t \in Threads, Create(t) PROVE Unstarted'
  BY <1>1 DEF Create, Unstarted, OneOwner, Owning, Constructing
<1>2. ASSUME NEW t \in Threads, BuildNode(t) \/ BuildItem(t) PROVE Unstarted'
  <2>1. pc[t] = "build" /\ UNCHANGED <<pc, creation, thread>>
    BY <1>2 DEF BuildNode, BuildItem
  <2> QED BY <2>1 DEF Unstarted, OneOwner, Owning, Constructing
<1>3. ASSUME NEW t \in Threads, PushNode(t) PROVE Unstarted'
  <2>1. /\ pc[t] = "build" /\ UNCHANGED <<creation, thread>>
        /\ \/ pc' = pc
           \/ pc' = [pc EXCEPT ![t] = "start"] /\ at'.item = 1
    BY <1>3 DEF PushNode
  <2>2. \A p \in Periodic : thread'[p] = "none"
    BY <2>1 DEF Unstarted
  <2>3. \A u \in Threads : pc'[u] = "start" => at'.item > 0
    BY <2>1 DEF OneOwner, Owning, Constructing
  <2> QED BY <2>2, <2>3 DEF Unstarted
<1>4. ASSUME NEW t \in Threads, StartItem(t) PROVE Unstarted'
  <2>1. /\ pc[t] = "start" /\ at' = [at EXCEPT !.item = @ + 1] /\ UNCHANGED <<pc, creation>>
        /\ ~NodeDone /\ creation = "running"
    BY <1>4 DEF StartItem, NextItem, OneOwner, Constructing
  <2>2. at'.node = at.node /\ at'.item = at.item + 1
    BY <2>1
  <2>3. \A p \in Periodic : p # Here => thread'[p] = thread[p]
    BY <1>4 DEF StartItem
  <2>4. \A u \in Threads : pc[u] # "build"
    BY <2>1 DEF OneOwner, Owning, Constructing
  <2>5. ASSUME NEW n \in Nodes, NEW i \in DOMAIN Topology[n], Topology[n][i] \in Periodic,
               n > at'.node \/ (n = at'.node /\ i >= at'.item)
        PROVE  thread'[Topology[n][i]] = "none"
    <3>1. n > at.node \/ (n = at.node /\ i >= at.item)
      BY <2>2, <2>5
    <3>2. thread[Topology[n][i]] = "none"
      BY <2>1, <2>5, <3>1 DEF Unstarted
    <3>3. at.item \in DOMAIN Topology[at.node]
      BY <2>1 DEF NodeDone, Unstarted
    <3>4. Topology[n][i] # Here
      <4>1. CASE n = at.node
        <5>1. i # at.item
          BY <2>2, <2>5, <4>1
        <5> QED BY <3>3, <4>1, <5>1, TopologyAssumption DEF Here
      <4>2. CASE n # at.node
        <5>1. Topology[n][i] \in On(n) /\ Here \in On(at.node)
          BY <3>3 DEF On, Here
        <5> QED BY <4>2, <5>1, TopologyAssumption
      <4> QED BY <4>1, <4>2
    <3> QED BY <2>3, <2>5, <3>2, <3>4
  <2>6. at'.item > 0
    BY <2>2
  <2> QED BY <2>1, <2>4, <2>5, <2>6 DEF Unstarted
<1>5. ASSUME NEW t \in Threads, StartNode(t) PROVE Unstarted'
  <2>1. /\ pc[t] = "start" /\ UNCHANGED <<thread, creation>>
        /\ \/ pc' = [pc EXCEPT ![t] = "register"]
           \/ at' = [node |-> at.node + 1, item |-> 1] /\ pc' = pc
    BY <1>5 DEF StartNode
  <2>2. creation = "running" /\ \A u \in Threads : u # t => pc[u] \notin {"build", "start"}
    BY <2>1 DEF OneOwner, Owning, Constructing
  <2>3. CASE pc' = [pc EXCEPT ![t] = "register"]
    BY <2>1, <2>2, <2>3 DEF Unstarted
  <2>4. CASE at' = [node |-> at.node + 1, item |-> 1] /\ pc' = pc
    <3>1. \A n \in Nodes : n >= at'.node => n > at.node
      BY <2>4
    <3>2. \A n \in Nodes : \A i \in Nat :
             n > at'.node \/ (n = at'.node /\ i >= at'.item) => n > at.node
      BY <3>1, <2>4
    <3> QED BY <2>1, <2>2, <2>4, <3>2 DEF Unstarted
  <2> QED BY <2>1, <2>3, <2>4
<1>6. ASSUME NEW t \in Threads, pc[t] \in Owning, NEW l \in PcLabels,
             l \notin {"build", "start"}, pc' = [pc EXCEPT ![t] = l],
             creation' \in {creation, "returned", "threw"}
      PROVE  Unstarted'
  <2>1. creation' # "none" /\ \A u \in Threads : pc'[u] \notin {"build", "start"}
    BY <1>6, OwnerStep DEF Owning, Constructing
  <2> QED BY <2>1 DEF Unstarted
<1>7. ASSUME NEW t \in Threads,
             \/ BuildThrows(t) \/ StartThrows(t) \/ Register(t) \/ TeardownStep(t)
      PROVE  Unstarted'
  BY <1>6, <1>7 DEF BuildThrows, StartThrows, StartThrowsTo, Register, TeardownStep, Stop,
     CancelSpin, Join, DropEntries, DropExecutor, PcLabels, Owning, Constructing, TearingDown
<1>8. ASSUME UNCHANGED <<at, creation>>,
             \A t \in Threads : pc'[t] \in {"build", "start"} => pc'[t] = pc[t],
             \A p \in Periodic : thread[p] = "none" => thread'[p] = "none"
      PROVE  Unstarted'
  <2>1. /\ creation' = "none" => \A p \in Periodic : thread'[p] = "none"
        /\ \A t \in Threads : pc'[t] = "build" => \A p \in Periodic : thread'[p] = "none"
        /\ \A t \in Threads : pc'[t] = "start" => at'.item > 0
    BY <1>8 DEF Unstarted
  <2>2. ASSUME NEW t \in Threads, pc'[t] = "start", NEW n \in Nodes,
               NEW i \in DOMAIN Topology[n], Topology[n][i] \in Periodic,
               n > at'.node \/ (n = at'.node /\ i >= at'.item)
        PROVE  thread'[Topology[n][i]] = "none"
    <3>1. pc[t] = "start" /\ (n > at.node \/ (n = at.node /\ i >= at.item))
      BY <1>8, <2>2
    <3>2. thread[Topology[n][i]] = "none"
      BY <2>2, <3>1 DEF Unstarted
    <3> QED BY <1>8, <2>2, <3>2
  <2> QED BY <2>1, <2>2 DEF Unstarted
<1>9. ASSUME NEW t \in Threads, NEW call \in Calls,
             \/ Lookup(t, call) \/ SpinReturns(t) \/ CallReturns(t) \/ Cancel(t) \/ Destroy(t)
      PROVE  Unstarted'
  BY <1>8, <1>9 DEF Lookup, SpinReturns, CallReturns, Cancel, Destroy, Calls
<1>10. ASSUME NEW p \in Periodic, PublisherStep(p) PROVE Unstarted'
  BY <1>8, <1>10 DEF PublisherStep, Begin, Test, Write, Wake
<1>11. ASSUME UNCHANGED <<at, creation, pc, thread>> PROVE Unstarted'
  BY <1>8, <1>11
<1>12. "status" \in Calls
  BY DEF Calls
<1> QED
  BY <1>1, <1>2, <1>3, <1>4, <1>5, <1>7, <1>9, <1>10, <1>11, <1>12
     DEF Next, ConstructorStep, Tick, vars

-----------------------------------------------------------------------------
(* What is there, and for whom.                                            *)

\* Every step keeps the executor whole between building and dropping.
LEMMA WholeNext ==
    TypeOK /\ OneOwner /\ Building /\ Whole /\ [Next]_vars => Whole'
<1> SUFFICES ASSUME TypeOK, OneOwner, Building, Whole, [Next]_vars PROVE Whole'
  OBVIOUS
<1> DEFINE Kept == {"start", "register", "stop", "cancel_spin", "join"}
<1> USE NodesAre DEF TypeOK, Goto, Owning, Constructing, TearingDown
<1>1. ASSUME UNCHANGED <<alive, executorNodes>>,
             registered' => registered \/ \E t \in Threads : pc[t] \in Kept,
             \A t \in Threads : pc'[t] \in Kept => pc[t] \in Kept \/ registered
      PROVE  Whole'
  BY <1>1 DEF Whole, Complete
<1>2. ASSUME NEW t \in Threads, Create(t) PROVE Whole'
  BY <1>2 DEF Create, OneOwner, Whole
<1>3. ASSUME NEW t \in Threads, BuildNode(t) PROVE Whole'
  BY <1>3 DEF BuildNode, OneOwner, Whole
<1>4. ASSUME NEW t \in Threads, BuildItem(t) \/ StartItem(t) PROVE Whole'
  BY <1>1, <1>4 DEF BuildItem, StartItem
<1>5. ASSUME NEW t \in Threads, PushNode(t) PROVE Whole'
  <2>1. /\ pc[t] = "build" /\ UNCHANGED <<alive, executorNodes, registered>>
        /\ at.item > Len(Topology[at.node])
    BY <1>5 DEF PushNode, NodeDone
  <2>2. CASE at.node = Len(Topology)
    <3>1. \A n \in Nodes : n < at.node \/ n = at.node
      BY <2>2
    <3>2. alive /\ Nodes \subseteq executorNodes
      BY <2>1, <3>1 DEF Building
    <3> QED BY <2>1, <3>2 DEF Whole, Complete
  <2>3. CASE at.node # Len(Topology)
    BY <1>1, <1>5, <2>1, <2>3 DEF PushNode
  <2> QED BY <2>2, <2>3
<1>6. ASSUME NEW t \in Threads,
             \/ StartNode(t) \/ BuildThrows(t) \/ StartThrows(t) \/ Register(t) \/ Destroy(t)
      PROVE  Whole'
  BY <1>1, <1>6 DEF StartNode, BuildThrows, StartThrows, StartThrowsTo, Register, Destroy,
                    Erased
<1>7. ASSUME NEW t \in Threads, Stop(t) \/ CancelSpin(t) \/ Join(t) PROVE Whole'
  BY <1>1, <1>7 DEF Stop, CancelSpin, Join
<1>8. ASSUME NEW t \in Threads, DropEntries(t) \/ DropExecutor(t) PROVE Whole'
  <2>1. pc[t] \in Owning /\ pc[t] \notin Kept /\ UNCHANGED registered
    BY <1>8 DEF DropEntries, DropExecutor
  <2>2. ~registered /\ \A u \in Threads : u # t => pc[u] \notin Kept
    BY <2>1 DEF OneOwner
  <2>3. pc'[t] \notin Kept /\ \A u \in Threads : u # t => pc'[u] = pc[u]
    BY <1>8 DEF DropEntries, DropExecutor
  <2> QED BY <2>1, <2>2, <2>3 DEF Whole
<1>9. ASSUME NEW t \in Threads, NEW call \in Calls,
             Lookup(t, call) \/ SpinReturns(t) \/ CallReturns(t) \/ Cancel(t)
      PROVE  Whole'
  BY <1>1, <1>9 DEF Lookup, SpinReturns, CallReturns, Cancel, Calls
<1>10. ASSUME UNCHANGED <<alive, executorNodes, registered, pc>> PROVE Whole'
  BY <1>1, <1>10
<1>11. "status" \in Calls
  BY DEF Calls
<1> QED
  BY <1>2, <1>3, <1>4, <1>5, <1>6, <1>7, <1>8, <1>9, <1>10, <1>11
     DEF Next, ConstructorStep, TeardownStep, PublisherStep, Begin, Test, Write, Wake, Tick,
         vars

\* Every step of a teardown that ends leaves nothing.
LEMMA EmptiedNext == TypeOK /\ OneOwner /\ Emptied /\ [Next]_vars => Emptied'
<1> SUFFICES ASSUME TypeOK, OneOwner, Emptied, [Next]_vars PROVE Emptied'
  OBVIOUS
<1> USE DEF TypeOK, Goto, Owning, Constructing, TearingDown
<1>1. ASSUME NEW t \in Threads, pc[t] \in Constructing,
             pc' = pc \/ \E l \in PcLabels \ {"drop_executor"} : pc' = [pc EXCEPT ![t] = l],
             creation' \in {"running", "returned"}
      PROVE  Emptied'
  BY <1>1 DEF Emptied, OneOwner
<1>2. ASSUME NEW t \in Threads, Create(t) PROVE Emptied'
  BY <1>2 DEF Create, OneOwner, Emptied
<1>3. ASSUME NEW t \in Threads, ConstructorStep(t) \/ BuildThrows(t) \/ StartThrows(t)
      PROVE  Emptied'
  <2>1. pc[t] \in Constructing
    BY <1>3 DEF ConstructorStep, BuildNode, BuildItem, PushNode, StartItem, StartNode,
                Register, BuildThrows, StartThrows
  <2>2. creation = "running"
    BY <2>1 DEF OneOwner
  <2>3. creation' \in {"running", "returned"}
    BY <1>3, <2>2 DEF ConstructorStep, BuildNode, BuildItem, PushNode, StartItem, StartNode,
                Register, BuildThrows, StartThrows
  <2>4. pc' = pc \/ \E l \in PcLabels \ {"drop_executor"} : pc' = [pc EXCEPT ![t] = l]
    BY <1>3 DEF ConstructorStep, BuildNode, BuildItem, PushNode, StartItem, StartNode,
                Register, BuildThrows, StartThrows, StartThrowsTo, PcLabels
  <2> QED BY <1>1, <2>1, <2>3, <2>4
<1>4. ASSUME NEW t \in Threads, Stop(t) \/ CancelSpin(t) \/ Join(t) PROVE Emptied'
  BY <1>4 DEF Stop, CancelSpin, Join, Emptied, LiveNodes
<1>5. ASSUME NEW t \in Threads, DropEntries(t) PROVE Emptied'
  <2>1. creation' \notin {"none", "threw"}
    BY <1>5 DEF DropEntries, OneOwner
  <2> QED BY <1>5, <2>1 DEF DropEntries, Emptied
<1>6. ASSUME NEW t \in Threads, DropExecutor(t) PROVE Emptied'
  BY <1>6 DEF DropExecutor, Emptied, LiveNodes
<1>7. ASSUME UNCHANGED <<creation, holdVars>>,
             \A t \in Threads : pc'[t] = "drop_executor" => pc[t] = "drop_executor"
      PROVE  Emptied'
  BY <1>7 DEF Emptied, LiveNodes
<1>8. ASSUME NEW t \in Threads, NEW call \in Calls,
             \/ Lookup(t, call) \/ SpinReturns(t) \/ CallReturns(t) \/ Cancel(t) \/ Destroy(t)
      PROVE  Emptied'
  BY <1>7, <1>8 DEF Lookup, SpinReturns, CallReturns, Cancel, Destroy, Calls
<1>9. "status" \in Calls
  BY DEF Calls
<1> QED
  BY <1>2, <1>3, <1>4, <1>5, <1>6, <1>7, <1>8, <1>9
     DEF Next, TeardownStep, PublisherStep, Begin, Test, Write, Wake, Tick, vars

\* Every step leaves working threads an executor that is whole: they are started after
\* it is, and joined before it is taken apart.
LEMMA CoveredNext ==
    TypeOK /\ OneOwner /\ Unstarted /\ Covered /\ [Next]_vars => Covered'
<1> SUFFICES ASSUME TypeOK, OneOwner, Unstarted, Covered, [Next]_vars PROVE Covered'
  OBVIOUS
<1> DEFINE Kept == {"start", "register", "stop", "cancel_spin", "join"}
<1> USE DEF TypeOK, Goto, Owning, Constructing, TearingDown
<1>1. ASSUME \A p \in Periodic : Working(p)' => Working(p),
             registered => registered' \/ \E t \in Threads : pc'[t] \in Kept,
             \A t \in Threads : pc[t] \in Kept => pc'[t] \in Kept \/ registered'
      PROVE  Covered'
  BY <1>1 DEF Covered
<1>2. ASSUME UNCHANGED thread PROVE \A p \in Periodic : Working(p)' => Working(p)
  BY <1>2 DEF Working
<1>3. ASSUME NEW t \in Threads, BuildNode(t) \/ BuildItem(t) \/ PushNode(t) \/ BuildThrows(t)
      PROVE  Covered'
  <2>1. \A p \in Periodic : ~Working(p)'
    BY <1>3 DEF BuildNode, BuildItem, PushNode, BuildThrows, Unstarted, Working
  <2> QED BY <2>1 DEF Covered
<1>4. ASSUME NEW t \in Threads, StartItem(t) PROVE Covered'
  <2>1. pc'[t] = "start"
    BY <1>4 DEF StartItem
  <2> QED BY <2>1 DEF Covered
<1>5. ASSUME NEW t \in Threads,
             \/ StartNode(t) \/ StartThrows(t) \/ Register(t) \/ Destroy(t)
             \/ Stop(t) \/ CancelSpin(t)
      PROVE  Covered'
  BY <1>1, <1>2, <1>5
     DEF StartNode, StartThrows, StartThrowsTo, Register, Destroy, Stop, CancelSpin
<1>6. ASSUME NEW t \in Threads, Join(t) PROVE Covered'
  <2>1. \A p \in Periodic : ~Working(p)'
    BY <1>6 DEF Join, Joined, Working
  <2> QED BY <2>1 DEF Covered
<1>7. ASSUME NEW t \in Threads, DropEntries(t) \/ DropExecutor(t) PROVE Covered'
  <2>1. /\ ~registered /\ \A u \in Threads : pc[u] \notin Kept
    BY <1>7 DEF DropEntries, DropExecutor, OneOwner
  <2>2. \A p \in Periodic : ~Working(p)
    BY <2>1 DEF Covered
  <2> QED BY <1>2, <1>7, <2>2 DEF DropEntries, DropExecutor, Covered
<1>8. ASSUME NEW t \in Threads, NEW call \in Calls,
             \/ Create(t) \/ Lookup(t, call) \/ SpinReturns(t) \/ CallReturns(t) \/ Cancel(t)
      PROVE  Covered'
  BY <1>1, <1>2, <1>8 DEF Create, Lookup, SpinReturns, CallReturns, Cancel, Calls
<1>9. ASSUME NEW p \in Periodic, PublisherStep(p) PROVE Covered'
  <2>1. \A q \in Periodic : Working(q)' => Working(q)
    BY <1>9 DEF PublisherStep, Begin, Test, Write, Wake, Working
  <2> QED BY <1>1, <1>9, <2>1 DEF PublisherStep, Begin, Test, Write, Wake
<1>10. ASSUME UNCHANGED <<thread, pc, registered>> PROVE Covered'
  BY <1>1, <1>2, <1>10
<1>11. "status" \in Calls
  BY DEF Calls
<1> QED
  BY <1>3, <1>4, <1>5, <1>6, <1>7, <1>8, <1>9, <1>10, <1>11
     DEF Next, ConstructorStep, TeardownStep, Tick, vars

\* Every step leaves a call under way its handle, or notes that destroy overlapped it.
LEMMA LookedNext == TypeOK /\ Looked /\ [Next]_vars => Looked'
<1> SUFFICES ASSUME TypeOK, Looked, [Next]_vars PROVE Looked'
  OBVIOUS
<1> USE DEF TypeOK, Goto, Owning, Constructing, TearingDown
<1>1. ASSUME registered => registered', UNCHANGED overlapped,
             \A t \in Threads : pc'[t] \in Calls => pc[t] \in Calls \/ registered
      PROVE  Looked'
  BY <1>1 DEF Looked
<1>2. ASSUME NEW t \in Threads, Create(t) \/ BuildThrows(t) \/ StartThrows(t) PROVE Looked'
  BY <1>1, <1>2 DEF Create, BuildThrows, StartThrows, StartThrowsTo, Calls
<1>3. ASSUME NEW t \in Threads, ConstructorStep(t) PROVE Looked'
  BY <1>1, <1>3 DEF ConstructorStep, BuildNode, BuildItem, PushNode, StartItem, StartNode,
                    Register, Calls
<1>4. ASSUME NEW t \in Threads, NEW call \in Calls,
             Lookup(t, call) \/ SpinReturns(t) \/ CallReturns(t) \/ Cancel(t)
      PROVE  Looked'
  BY <1>1, <1>4 DEF Lookup, SpinReturns, CallReturns, Cancel, Calls
<1>5. ASSUME NEW t \in Threads, Destroy(t) PROVE Looked'
  <2>1. overlapped' <=> overlapped \/ \E u \in Threads : pc[u] \in Calls
    BY <1>5, Zenon DEF Destroy
  <2>2. ~overlapped' => \A u \in Threads : pc'[u] \notin Calls
    BY <1>5, <2>1 DEF Destroy, Calls
  <2> QED BY <2>2 DEF Looked
<1>6. ASSUME NEW t \in Threads, TeardownStep(t) PROVE Looked'
  BY <1>1, <1>6 DEF TeardownStep, Stop, CancelSpin, Join, DropEntries, DropExecutor, Calls
<1>7. ASSUME UNCHANGED <<pc, registered, overlapped>> PROVE Looked'
  BY <1>1, <1>7
<1>8. "status" \in Calls
  BY DEF Calls
<1> QED
  BY <1>2, <1>3, <1>4, <1>5, <1>6, <1>7, <1>8
     DEF Next, PublisherStep, Begin, Test, Write, Wake, Tick, vars
-----------------------------------------------------------------------------
(* The schedule of a publisher.                                            *)

\* A deadline a period later is on the same grid.
LEMMA OneMorePeriod ==
    ASSUME NEW k \in Nat, NEW b \in Nat \ {0}, NEW d \in Nat, NEW s \in Nat, d = s + k * b
    PROVE  d + b = s + (k + 1) * b
<1>1. (k + 1) * b = k * b + b /\ k * b \in Nat
  OBVIOUS
<1>2. ASSUME NEW m \in Nat, d = s + m PROVE d + b = s + (m + b)
  BY <1>2
<1> QED BY <1>1, <1>2

\* One more write at most fits into one more period.
LEMMA AtMostOneMore ==
    ASSUME NEW n \in Nat, NEW b \in Nat, NEW d \in Nat, NEW s \in Nat, n * b <= d - s,
           NEW m \in {n, n + 1}
    PROVE  m * b <= (d + b) - s
<1>1. (n + 1) * b = n * b + b /\ n * b \in Nat
  OBVIOUS
<1>2. ASSUME NEW x \in Nat, x <= d - s PROVE x <= (d + b) - s /\ x + b <= (d + b) - s
  BY <1>2
<1> QED BY <1>1, <1>2

\* A number of whole periods leaves no remainder.
LEMMA WholePeriods ==
    ASSUME NEW k \in Nat, NEW b \in Nat \ {0} PROVE (k * b) % b = 0
  OBVIOUS

\* Every step keeps publishers on schedule: the deadline advances by a period for each
\* write, and a write follows a deadline that has passed.
LEMMA PacedNext == TypeOK /\ Unstarted /\ Paced /\ [Next]_vars => Paced'
<1> SUFFICES ASSUME TypeOK, Unstarted, Paced, [Next]_vars PROVE Paced'
  OBVIOUS
<1>0. \A p \in Periodic :
        /\ Period[p] \in Nat \ {0} /\ p \in Publishers /\ p \notin OneShot
        /\ started[p] \in Nat /\ deadline[p] \in Nat /\ published[p] \in Nat /\ now \in Nat
  BY TopologyAssumption DEF TypeOK, Publishers
<1>1. ASSUME NEW p \in Periodic, now' = now,
             \/ thread'[p] = thread[p]
             \/ thread[p] = "none" /\ thread'[p] = "new"
             \/ thread[p] = "test" /\ thread'[p] \in {"write", "done"}
             \/ thread[p] = "sleep" /\ thread'[p] = "test" /\ deadline[p] <= now,
             UNCHANGED <<started[p], deadline[p], published[p]>>
      PROVE  OnSchedule(p)'
  BY <1>1 DEF Paced, OnSchedule
<1>2. ASSUME NEW p \in Periodic, Begin(p) PROVE OnSchedule(p)'
  <2>1. /\ thread[p] = "new" /\ thread'[p] = "test" /\ started'[p] = now
        /\ deadline'[p] = now /\ published'[p] = published[p] /\ now' = now
    BY <1>2 DEF Begin, TypeOK
  <2>2. published[p] = 0 /\ 0 * Period[p] = 0
    BY <1>0, <2>1 DEF Paced, OnSchedule
  <2> QED BY <1>0, <2>1, <2>2 DEF OnSchedule
<1>3. ASSUME NEW p \in Periodic, Write(p) PROVE OnSchedule(p)'
  <2>1. /\ thread[p] = "write" /\ thread'[p] = "sleep" /\ now' = now
        /\ deadline'[p] = deadline[p] + Period[p] /\ started'[p] = started[p]
        /\ published'[p] \in {published[p], published[p] + 1}
    BY <1>0, <1>3 DEF Write, WriteOutcomes, NextDeadline, TypeOK
  <2>2. PICK k \in Nat : deadline[p] = started[p] + k * Period[p]
    BY DEF Paced, OnSchedule
  <2>3. deadline'[p] = started'[p] + (k + 1) * Period[p]
    <3>1. /\ Period[p] \in Nat \ {0} /\ deadline[p] \in Nat /\ started[p] \in Nat
      BY <1>0
    <3>2. deadline[p] + Period[p] = started[p] + (k + 1) * Period[p]
      BY <2>2, <3>1, OneMorePeriod
    <3> QED BY <2>1, <3>2
  <2>4. published'[p] * Period[p] <= deadline'[p] - started'[p]
    <3>1. published[p] * Period[p] <= deadline[p] - started[p]
      BY DEF Paced, OnSchedule
    <3>2. Period[p] \in Nat
      BY <1>0
    <3> QED BY <1>0, <2>1, <3>1, <3>2, AtMostOneMore
  <2>5. /\ started'[p] <= deadline'[p] /\ deadline'[p] <= now' + Period[p]
    BY <1>0, <2>1 DEF Paced, OnSchedule
  <2>6. k + 1 \in Nat
    OBVIOUS
  <2> QED BY <2>1, <2>3, <2>4, <2>5, <2>6 DEF OnSchedule
<1>4. ASSUME NEW p \in Periodic, PublisherStep(p) PROVE Paced'
  <2>1. ASSUME NEW q \in Periodic, q # p PROVE OnSchedule(q)'
    <3>1. /\ thread'[q] = thread[q] /\ started'[q] = started[q]
          /\ deadline'[q] = deadline[q] /\ published'[q] = published[q] /\ now' = now
      BY <1>0, <1>4, <2>1 DEF PublisherStep, Begin, Test, Write, Wake, TypeOK
    <3> QED BY <1>1, <3>1
  <2>2. OnSchedule(p)'
    <3>1. CASE Test(p)
      BY <1>1, <3>1 DEF Test, TypeOK
    <3>2. CASE Wake(p)
      BY <1>0, <1>1, <3>2 DEF Wake, TypeOK
    <3> QED BY <1>2, <1>3, <1>4, <3>1, <3>2 DEF PublisherStep
  <2> QED BY <2>1, <2>2 DEF Paced
<1>5. ASSUME NEW t \in Threads, StartItem(t) PROVE Paced'
  <2>1. /\ at.item \in DOMAIN Topology[at.node] /\ at.node \in Nodes /\ pc[t] = "start"
    BY <1>5, NodesAre DEF StartItem, NodeDone, Unstarted, TypeOK
  <2>2. Here \in Periodic => thread[Here] = "none"
    BY <2>1, NodesAre DEF Unstarted, Here
  <2>3. ASSUME NEW p \in Periodic PROVE OnSchedule(p)'
    <3>1. /\ thread'[p] = thread[p] \/ (thread[p] = "none" /\ thread'[p] = "new")
          /\ UNCHANGED <<started, deadline, now>> /\ published'[p] = published[p]
      BY <1>0, <1>5, <2>2 DEF StartItem
    <3> QED BY <1>1, <3>1
  <2> QED BY <2>3 DEF Paced
<1>6. CASE Tick
  <2>1. now' = now + 1 /\ UNCHANGED threadVars
    BY <1>6 DEF Tick
  <2>2. ASSUME NEW p \in Periodic PROVE OnSchedule(p)'
    BY <1>0, <2>1 DEF Paced, OnSchedule
  <2> QED BY <2>2 DEF Paced
<1>7. ASSUME UNCHANGED <<threadVars, now>> PROVE Paced'
  <2>1. ASSUME NEW p \in Periodic PROVE OnSchedule(p)'
    BY <1>1, <1>7
  <2> QED BY <2>1 DEF Paced
<1> QED
  BY <1>4, <1>5, <1>6, <1>7
     DEF Next, Create, ConstructorStep, BuildNode, BuildItem, PushNode, StartNode, Register,
         BuildThrows, StartThrows, Lookup, SpinReturns, CallReturns, Cancel, Destroy,
         TeardownStep, Stop, CancelSpin, Join, DropEntries, DropExecutor, vars

-----------------------------------------------------------------------------
(* Theorems.                                                               *)

\* The inductive invariant holds in every reachable state of the graph executor.
THEOREM Invariance == Spec => []IInv
<1>1. IInv /\ [Next]_vars => IInv'
  BY TypeNext, OneOwnerNext, BuildingNext, UnstartedNext, WholeNext, EmptiedNext,
     CoveredNext, LookedNext, PacedNext DEF IInv
<1> QED BY IInvInit, <1>1, PTL DEF Spec

\* Type correctness of the graph executor's state.
THEOREM TypeCorrect == Spec => []TypeOK
<1>1. IInv => TypeOK
  BY DEF IInv
<1> QED BY Invariance, <1>1, PTL

\* A publisher thread never outlives running or its node (start_publishing, ~Impl),
\* whatever the topology and wherever construction throws.
THEOREM PublishersBacked == Spec => []ThreadsAreBacked
<1>1. IInv => ThreadsAreBacked
  BY NodeOfType
     DEF IInv, Covered, Whole, Complete, ThreadsAreBacked, LiveNodes, Endpoints, Publishers
<1> QED BY Invariance, <1>1, PTL

\* A construction that threw leaves no node, endpoint, thread or handle
\* (GraphExecutor's constructor, GraphExecCreate_).
THEOREM FailureIsClean == Spec => []FailureLeavesNothing
<1>1. IInv => FailureLeavesNothing
  BY DEF IInv, Emptied, OneOwner, Owning, Constructing, TearingDown, Covered,
         FailureLeavesNothing
<1> QED BY Invariance, <1>1, PTL

\* Periodic publishers keep their rate, and their deadlines stay on the grid of the
\* first (the deadline loop of start_publishing), for every period.
THEOREM PublishersKeepRate == Spec => []RateKept
<1>1. ASSUME IInv PROVE RateKept
  <2> SUFFICES ASSUME NEW p \in Periodic
               PROVE  /\ published[p] * Period[p] <= now - started[p] + Period[p]
                      /\ (deadline[p] - started[p]) % Period[p] = 0
    BY DEF RateKept
  <2>1. /\ Period[p] \in Nat \ {0} /\ p \in Publishers
        /\ started[p] \in Nat /\ deadline[p] \in Nat /\ published[p] \in Nat /\ now \in Nat
    BY <1>1, TopologyAssumption DEF IInv, TypeOK, Publishers
  <2>2. OnSchedule(p)
    BY <1>1 DEF IInv, Paced
  <2>3. published[p] * Period[p] \in Nat
    BY <2>1
  <2>4. published[p] * Period[p] <= now - started[p] + Period[p]
    BY <2>1, <2>2, <2>3 DEF OnSchedule
  <2>5. PICK k \in Nat : deadline[p] = started[p] + k * Period[p]
    BY <2>2 DEF OnSchedule
  <2>6. deadline[p] - started[p] = k * Period[p]
    <3>1. k * Period[p] \in Nat
      BY <2>1
    <3> QED BY <2>1, <2>5, <3>1
  <2>7. (k * Period[p]) % Period[p] = 0
    BY <2>1, WholePeriods
  <2> QED BY <2>4, <2>6, <2>7
<1> QED BY Invariance, <1>1, PTL

\* A call through the handle works on an executor nobody tears down, unless destroy
\* overlapped it (GraphExecDestroy_, graph_exec_lookup).
THEOREM CallsAreServed == Spec => []CallsHaveExecutor
<1>1. IInv => CallsHaveExecutor
  BY DEF IInv, Looked, OneOwner, Owning, Whole, Complete, CallsHaveExecutor, Intact
<1> QED BY Invariance, <1>1, PTL
================================================================================

---------------------------- MODULE GraphExecutor ----------------------------
(***************************************************************************)
(* GraphExecutor: builds the nodes and endpoints of a topology, starts a   *)
(* thread for every periodic publisher, is reached through a handle of the *)
(* bindings and torn down by one of its users, or by the exception of a    *)
(* construction that fails part-way.                                       *)
(*                                                                         *)
(* What a shared_ptr keeps alive is derived from who holds one: entries,   *)
(* the executor, publisher threads.  The JSON document has been read into  *)
(* Topology; any step that reads a part of it may throw.  The spin itself  *)
(* is the subject of Executor.                                             *)
(***************************************************************************)
EXTENDS Naturals, Sequences

CONSTANTS
    Threads,        \* application threads
    Parameters, Periodic, OneShot, Subscriptions,
    Topology,       \* of each node, in order: what is built on it
    Period,         \* 1 / rate_hz of the periodic publishers
    MaxTime         \* bound on the clock

Publishers == Periodic \cup OneShot
Endpoints == Publishers \cup Subscriptions
Nodes == DOMAIN Topology
On(n) == {Topology[n][i] : i \in DOMAIN Topology[n]}

ASSUME TopologyAssumption ==
    /\ Topology \in Seq(Seq(Parameters \cup Endpoints)) /\ Topology # << >>
    /\ Parameters \cap Endpoints = {} /\ Publishers \cap Subscriptions = {}
    /\ Periodic \cap OneShot = {}
    /\ \A m, n \in Nodes : m # n => On(m) \cap On(n) = {}
    /\ \A n \in Nodes : \A i, j \in DOMAIN Topology[n] :
         i # j => Topology[n][i] # Topology[n][j]
    /\ Endpoints \subseteq UNION {On(n) : n \in Nodes}
    /\ Period \in [Periodic -> Nat \ {0}] /\ MaxTime \in Nat

NodeOf(e) == CHOOSE n \in Nodes : e \in On(n)

VARIABLES
    creation,       \* "none", "running", "returned" or "threw"
    at,             \* the node and the item the constructor has reached
    entries,        \* endpoints held by the NodeEntry being built or by nodes
    entryNodes,     \* nodes held likewise
    executorNodes,  \* nodes held by the executor; a node holds its subscriptions
    alive,          \* running and pub_threads exist
    running,
    cancelled,      \* the executor's cancel guard
    registered,     \* the handle is in g_graph_execs
    pc,             \* what each application thread is doing
    thread,         \* each publisher thread
    now,            \* the clock
    started,        \* ghost: when each publisher thread began
    deadline,       \* its local variable
    published,      \* the counter of each publisher
    overlapped      \* ghost: destroy was called while another call was under way

holdVars == <<entries, entryNodes, executorNodes>>
threadVars == <<thread, started, deadline, published>>
vars == <<creation, at, holdVars, alive, running, cancelled, registered, pc, threadVars,
          now, overlapped>>

Init ==
    /\ creation = "none" /\ at = [node |-> 1, item |-> 0]
    /\ entries = {} /\ entryNodes = {} /\ executorNodes = {}
    /\ alive = FALSE /\ running = TRUE /\ cancelled = FALSE /\ registered = FALSE
    /\ pc = [t \in Threads |-> "idle"]
    /\ thread = [p \in Periodic |-> "none"]
    /\ started = [p \in Periodic |-> 0] /\ deadline = [p \in Periodic |-> 0]
    /\ published = [p \in Publishers |-> 0]
    /\ now = 0 /\ overlapped = FALSE

Goto(t, l) == pc' = [pc EXCEPT ![t] = l]

-----------------------------------------------------------------------------
(* Construction.                                                           *)

Here == Topology[at.node][at.item]
NodeDone == at.item > Len(Topology[at.node])
NextItem == at' = [at EXCEPT !.item = @ + 1]

\* GraphExecCreate_: nothing is registered yet.
Create(t) ==
    /\ pc[t] = "idle" /\ creation = "none"
    /\ creation' = "running" /\ alive' = TRUE /\ Goto(t, "build")
    /\ UNCHANGED <<at, holdVars, running, cancelled, registered, threadVars, now,
                   overlapped>>

\* build_node makes the node and adds it to the executor.
BuildNode(t) ==
    /\ pc[t] = "build" /\ at.item = 0 /\ NextItem
    /\ entryNodes' = entryNodes \cup {at.node}
    /\ executorNodes' = executorNodes \cup {at.node}
    /\ UNCHANGED <<creation, entries, alive, running, cancelled, registered, pc,
                   threadVars, now, overlapped>>

\* declare_parameter, build_publisher or build_subscription.
BuildItem(t) ==
    /\ pc[t] = "build" /\ at.item # 0 /\ ~NodeDone /\ NextItem
    /\ entries' = entries \cup ({Here} \cap Endpoints)
    /\ UNCHANGED <<creation, entryNodes, executorNodes, alive, running, cancelled,
                   registered, pc, threadVars, now, overlapped>>

\* nodes.push_back; after the last node publishing starts.
PushNode(t) ==
    /\ pc[t] = "build" /\ NodeDone
    /\ IF at.node = Len(Topology)
       THEN Goto(t, "start") /\ at' = [node |-> 1, item |-> 1]
       ELSE at' = [node |-> at.node + 1, item |-> 0] /\ UNCHANGED pc
    /\ UNCHANGED <<creation, holdVars, alive, running, cancelled, registered, threadVars,
                   now, overlapped>>

\* An exception: the entry under construction dies first, then Impl's members.  Impl's
\* destructor does not run.
BuildThrows(t) ==
    /\ pc[t] = "build" /\ ~NodeDone /\ Goto(t, "drop")
    /\ entries' = entries \ On(at.node) /\ entryNodes' = entryNodes \ {at.node}
    /\ UNCHANGED <<creation, at, executorNodes, alive, running, cancelled, registered,
                   threadVars, now, overlapped>>

\* Writer::write reports whether the sample was written: what published grows by.
WriteOutcomes == {0, 1}

\* start_publishing: a thread for a periodic publisher, one write for another; the loop
\* is over publishers only.
StartItem(t) ==
    /\ pc[t] = "start" /\ ~NodeDone /\ NextItem
    /\ thread' = [p \in Periodic |-> IF p = Here THEN "new" ELSE thread[p]]
    /\ \E ok \in WriteOutcomes : published' = [p \in Publishers |->
           IF p \in OneShot /\ p = Here THEN ok ELSE published[p]]
    /\ UNCHANGED <<creation, holdVars, alive, running, cancelled, registered, pc, started,
                   deadline, now, overlapped>>

StartNode(t) ==
    /\ pc[t] = "start" /\ NodeDone
    /\ IF at.node = Len(Topology)
       THEN Goto(t, "register") /\ UNCHANGED at
       ELSE at' = [node |-> at.node + 1, item |-> 1] /\ UNCHANGED pc
    /\ UNCHANGED <<creation, holdVars, alive, running, cancelled, registered, threadVars,
                   now, overlapped>>

\* No thread can be made: impl_ is complete, so its destructor runs.
StartThrowsMutant == "drop"
StartThrowsTo == "stop"

StartThrows(t) ==
    /\ pc[t] = "start" /\ ~NodeDone /\ Here \in Periodic /\ Goto(t, StartThrowsTo)
    /\ UNCHANGED <<creation, at, holdVars, alive, running, cancelled, registered,
                   threadVars, now, overlapped>>

\* g_graph_execs.emplace
Register(t) ==
    /\ pc[t] = "register" /\ Goto(t, "idle")
    /\ creation' = "returned" /\ registered' = TRUE
    /\ UNCHANGED <<at, holdVars, alive, running, cancelled, threadVars, now, overlapped>>

-----------------------------------------------------------------------------
(* A publisher thread.                                                     *)

\* deadline = steady_clock::now()
Begin(p) ==
    /\ thread[p] = "new" /\ thread' = [thread EXCEPT ![p] = "test"]
    /\ started' = [started EXCEPT ![p] = now] /\ deadline' = [deadline EXCEPT ![p] = now]
    /\ UNCHANGED <<creation, at, holdVars, alive, running, cancelled, registered, pc,
                   published, now, overlapped>>

\* while (running.load()); MaxTime bounds the schedule, not the test.
Wanted == running

Test(p) ==
    /\ thread[p] = "test"
    /\ thread' = [thread EXCEPT ![p] = IF Wanted THEN "write" ELSE "done"]
    /\ Wanted => deadline[p] + Period[p] <= MaxTime
    /\ UNCHANGED <<creation, at, holdVars, alive, running, cancelled, registered, pc,
                   started, deadline, published, now, overlapped>>

\* deadline += period
NextDeadlineMutant(p) == now + Period[p]
NextDeadline(p) == deadline[p] + Period[p]

\* The write, which may take time or fail.
Write(p) ==
    /\ thread[p] = "write" /\ thread' = [thread EXCEPT ![p] = "sleep"]
    /\ \E ok \in WriteOutcomes : published' = [published EXCEPT ![p] = @ + ok]
    /\ deadline' = [deadline EXCEPT ![p] = NextDeadline(p)]
    /\ UNCHANGED <<creation, at, holdVars, alive, running, cancelled, registered, pc,
                   started, now, overlapped>>

\* sleep_until(deadline)
Wake(p) ==
    /\ thread[p] = "sleep" /\ now >= deadline[p]
    /\ thread' = [thread EXCEPT ![p] = "test"]
    /\ UNCHANGED <<creation, at, holdVars, alive, running, cancelled, registered, pc,
                   started, deadline, published, now, overlapped>>

Tick ==
    /\ now < MaxTime /\ now' = now + 1
    /\ UNCHANGED <<creation, at, holdVars, alive, running, cancelled, registered, pc,
                   threadVars, overlapped>>

-----------------------------------------------------------------------------
(* Calls through the handle.  graph_exec_lookup returns a plain pointer.   *)

Calls == {"spin", "status", "cancel"}

Lookup(t, call) ==
    /\ pc[t] = "idle" /\ registered /\ Goto(t, call)
    /\ UNCHANGED <<creation, at, holdVars, alive, running, cancelled, registered,
                   threadVars, now, overlapped>>

\* spin() returns when it takes the cancel guard.
SpinReturns(t) ==
    /\ pc[t] = "spin" /\ cancelled /\ Goto(t, "idle") /\ cancelled' = FALSE
    /\ UNCHANGED <<creation, at, holdVars, alive, running, registered, threadVars, now,
                   overlapped>>

\* status_json() and spin_once() return in any state and leave nothing behind here.
CallReturns(t) ==
    /\ pc[t] = "status" /\ Goto(t, "idle")
    /\ UNCHANGED <<creation, at, holdVars, alive, running, cancelled, registered,
                   threadVars, now, overlapped>>

Cancel(t) ==
    /\ pc[t] = "cancel" /\ Goto(t, "idle") /\ cancelled' = TRUE
    /\ UNCHANGED <<creation, at, holdVars, alive, running, registered, threadVars, now,
                   overlapped>>

-----------------------------------------------------------------------------
(* Teardown.                                                               *)

\* GraphExecDestroy_ takes the executor out of the map; a handle that is not known is
\* ignored.
ErasedMutant == registered
Erased == FALSE

Destroy(t) ==
    /\ pc[t] = "idle" /\ registered /\ Goto(t, "stop")
    /\ registered' = Erased
    /\ overlapped' = (overlapped \/ \E u \in Threads : pc[u] \in Calls)
    /\ UNCHANGED <<creation, at, holdVars, alive, running, cancelled, threadVars, now>>

\* ~Impl: running = false
StoppedMutant == running
Stopped == FALSE

Stop(t) ==
    /\ pc[t] = "stop" /\ Goto(t, "cancel_spin")
    /\ running' = Stopped
    /\ UNCHANGED <<creation, at, holdVars, alive, cancelled, registered, threadVars, now,
                   overlapped>>

\* executor.cancel()
CancelSpin(t) ==
    /\ pc[t] = "cancel_spin" /\ Goto(t, "join")
    /\ cancelled' = TRUE
    /\ UNCHANGED <<creation, at, holdVars, alive, running, registered, threadVars, now,
                   overlapped>>

\* thread.join() for all of pub_threads
JoinedMutant == TRUE
Joined == \A p \in Periodic : thread[p] \in {"none", "done"}

Join(t) ==
    /\ pc[t] = "join" /\ Joined /\ Goto(t, "drop")
    /\ UNCHANGED <<creation, at, holdVars, alive, running, cancelled, registered,
                   threadVars, now, overlapped>>

\* pub_threads, running, then nodes: each entry its endpoints before its node.
DropEntries(t) ==
    /\ pc[t] = "drop" /\ Goto(t, "drop_executor")
    /\ alive' = FALSE /\ entries' = {} /\ entryNodes' = {}
    /\ UNCHANGED <<creation, at, executorNodes, running, cancelled, registered,
                   threadVars, now, overlapped>>

\* The executor, declared first, dies last.
DropExecutor(t) ==
    /\ pc[t] = "drop_executor" /\ Goto(t, "idle")
    /\ executorNodes' = {}
    /\ creation' = IF creation = "running" THEN "threw" ELSE creation
    /\ UNCHANGED <<at, entries, entryNodes, alive, running, cancelled, registered,
                   threadVars, now, overlapped>>

-----------------------------------------------------------------------------
ConstructorStep(t) ==
    \/ BuildNode(t) \/ BuildItem(t) \/ PushNode(t)
    \/ StartItem(t) \/ StartNode(t) \/ Register(t)
TeardownStep(t) ==
    Stop(t) \/ CancelSpin(t) \/ Join(t) \/ DropEntries(t) \/ DropExecutor(t)
PublisherStep(p) == Begin(p) \/ Test(p) \/ Write(p) \/ Wake(p)

Next ==
    \/ \E t \in Threads :
         \/ Create(t) \/ ConstructorStep(t) \/ BuildThrows(t) \/ StartThrows(t)
         \/ \E call \in Calls : Lookup(t, call)
         \/ SpinReturns(t) \/ CallReturns(t) \/ Cancel(t)
         \/ Destroy(t) \/ TeardownStep(t)
    \/ \E p \in Periodic : PublisherStep(p)
    \/ Tick

\* Threads are scheduled and time passes; nobody has to make a call.
Spec ==
    /\ Init /\ [][Next]_vars
    /\ \A t \in Threads : WF_vars(ConstructorStep(t)) /\ WF_vars(TeardownStep(t))
    /\ \A p \in Periodic : WF_vars(PublisherStep(p))
    /\ WF_vars(Tick)

-----------------------------------------------------------------------------
(* Properties.                                                             *)

Working(p) == thread[p] \in {"new", "test", "write", "sleep"}
LiveNodes == entryNodes \cup executorNodes
TearingDown == {"stop", "cancel_spin", "join", "drop", "drop_executor"}
Intact == alive /\ \A t \in Threads : pc[t] \notin TearingDown

\* A publisher thread never outlives what it uses: running, and the node whose
\* participant its writer belongs to, through every teardown and every construction
\* that throws after some threads were started (start_publishing, ~Impl).
ThreadsAreBacked ==
    \A p \in Periodic : Working(p) => alive /\ NodeOf(p) \in LiveNodes

\* "a config error throws before registering anything": a construction that threw leaves
\* no node, no endpoint, no thread and no handle, at whichever step it threw.
FailureLeavesNothing ==
    creation = "threw" =>
        /\ LiveNodes = {} /\ entries = {} /\ ~registered
        /\ \A p \in Periodic : ~Working(p)

\* A periodic publisher keeps its rate: by now it has written at most once per period
\* since it began, and its next deadline is on the grid of its first one, however late
\* single writes were (the deadline loop of start_publishing).
RateKept ==
    \A p \in Periodic :
        /\ published[p] * Period[p] <= now - started[p] + Period[p]
        /\ (deadline[p] - started[p]) % Period[p] = 0

\* A call through the handle works on an executor nobody is tearing down, unless destroy
\* was called while that call was under way: the handle is erased before teardown begins
\* (GraphExecDestroy_, graph_exec_lookup).
CallsHaveExecutor ==
    ~overlapped => \A t \in Threads : pc[t] \in Calls => Intact

\* Creation and destroy return: publisher threads see running and the join ends.
CreateAndDestroyReturn ==
    \A t \in Threads :
        pc[t] \in {"build", "start", "register"} \cup TearingDown ~> pc[t] = "idle"
==============================================================================

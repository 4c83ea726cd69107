----------------------------- MODULE FfiRegistry -----------------------------
(***************************************************************************)
(* The Python bindings' process-wide registry (rcllite_ffi.cpp): nodes and *)
(* their publishers and subscriptions behind int64 handles, used by any    *)
(* thread while another one spins.                                         *)
(*                                                                         *)
(* Every step under g_registry_mtx is one action: the lock is not held     *)
(* from one of these steps to the next.  Executor::spin is reduced to      *)
(* what the bindings rely on: a cancel guard that stays                    *)
(* triggered until a spin takes it, and attachments that follow the        *)
(* node's entities some time later (see Executor).                         *)
(***************************************************************************)
EXTENDS Naturals

CONSTANTS
    Threads,
    Spinners,       \* the threads that spin; the others make the other calls
    MaxHandle,      \* bound: handles given out
    MaxData,        \* bound: unread samples of a reader
    MaxSamples      \* bound: samples published

ASSUME FfiAssumption ==
    /\ Spinners \subseteq Threads
    /\ MaxHandle \in Nat /\ MaxData \in Nat /\ MaxSamples \in Nat

Handles == 1..MaxHandle

VARIABLES
    g_next_handle,
    g_registry,     \* the node handles known
    pubs, subs,     \* of each node: the publisher and subscription handles known
    entities,       \* of each node: its entities
    attached,       \* of each node: what its executor has attached
    guard,          \* the nodes whose executor's cancel guard is triggered
    closed,         \* subscriptions with closed set
    data,           \* unread samples of each subscription
    late,           \* callbacks of each subscription that began after closed was set
    published,      \* samples published so far
    pc,             \* what each thread is doing, "idle" between calls
    once,           \* whether its spin is spin_once
    node, sub,      \* the node whose entry (in sub_destroy: whose Node) and the
                    \* entity it holds
    left            \* samples of its take still to be handled

registryVars == <<g_next_handle, g_registry, pubs, subs>>
nodeVars == <<entities, attached, guard>>
sampleVars == <<closed, data, late, published>>
threadVars == <<pc, once, node, sub, left>>
ffiVars == <<registryVars, nodeVars, sampleVars, threadVars>>

RegistryInit ==
    /\ g_next_handle = 1 /\ g_registry = {} /\ guard = {} /\ closed = {}
    /\ pubs = [n \in Handles |-> {}] /\ subs = [n \in Handles |-> {}]
    /\ entities = [n \in Handles |-> {}] /\ attached = [n \in Handles |-> {}]
    /\ data = [s \in Handles |-> 0] /\ late = [s \in Handles |-> 0] /\ published = 0
    /\ pc = [t \in Threads |-> "idle"] /\ once = [t \in Threads |-> FALSE]
    /\ node = [t \in Threads |-> 0] /\ sub = [t \in Threads |-> 0]
    /\ left = [t \in Threads |-> 0]

Goto(t, l) == pc' = [pc EXCEPT ![t] = l]

\* A thread that looked a node up holds its entry, and with it the executor and what
\* that has attached; one in sub_destroy holds the Node and the subscription only.
InSpin == {"spin", "dispatch", "sample", "callback"}
InSubDestroy == {"close", "remove"}

\* What outlives a call of t that returns: an entry dies with its last holder, and a Node
\* after its entry if another sub_destroy holds it.
EntriesKept(t) ==
    {n \in Handles : \/ n \in g_registry
                     \/ \E u \in Threads \ {t} : pc[u] \notin InSubDestroy /\ node[u] = n}
NodesKept(t) ==
    {n \in Handles : n \in g_registry \/ \E u \in Threads \ {t} : node[u] = n}
SubsKept(t, ents) ==
    {sub[u] : u \in Threads \ {t}} \cup UNION {ents[n] : n \in NodesKept(t)}
        \cup UNION {attached[n] : n \in EntriesKept(t)}
Kept(f, ns) == [n \in Handles |-> IF n \in ns THEN f[n] ELSE {}]
Zeroed(f, ss) == [s \in Handles |-> IF s \in ss THEN f[s] ELSE 0]

\* The call returns and drops what it held; before, it has left these entities to the
\* nodes and these guards triggered.
Return(t, ents, guards) ==
    /\ Goto(t, "idle") /\ once' = [once EXCEPT ![t] = FALSE]
    /\ node' = [node EXCEPT ![t] = 0] /\ sub' = [sub EXCEPT ![t] = 0]
    /\ entities' = Kept(ents, NodesKept(t)) /\ attached' = Kept(attached, EntriesKept(t))
    /\ guard' = guards \cap EntriesKept(t)
    /\ pubs' = Kept(pubs, EntriesKept(t)) /\ subs' = Kept(subs, EntriesKept(t))
    /\ closed' = closed \cap SubsKept(t, ents)
    /\ data' = Zeroed(data, SubsKept(t, ents)) /\ late' = Zeroed(late, SubsKept(t, ents))
    /\ UNCHANGED <<g_next_handle, g_registry, published, left>>

-----------------------------------------------------------------------------
(* Handles.                                                                *)

NewHandle == g_next_handle \in Handles /\ g_next_handle' = g_next_handle + 1

NodeCreate(t) ==
    /\ pc[t] = "idle" /\ NewHandle
    /\ g_registry' = g_registry \cup {g_next_handle}
    /\ UNCHANGED <<pubs, subs, nodeVars, sampleVars, threadVars>>

\* A handle that is not known is ignored: "idempotent destroy".
NodeDestroy(t, n) ==
    /\ pc[t] = "idle" /\ n \in g_registry
    /\ g_registry' = g_registry \ {n}
    /\ Goto(t, "cancel") /\ node' = [node EXCEPT ![t] = n]
    /\ UNCHANGED <<g_next_handle, pubs, subs, nodeVars, sampleVars, once, sub,
                   left>>

\* executor->cancel()
CancelledMutant(n) == guard
Cancelled(n) == guard \cup {n}

CancelEntry(t) ==
    /\ pc[t] = "cancel" /\ Return(t, entities, Cancelled(node[t]))

\* NodeCancel_ looks the entry up and holds it while it cancels.
NodeCancel(t, n) ==
    /\ pc[t] = "idle" /\ n \in g_registry
    /\ Goto(t, "cancel") /\ node' = [node EXCEPT ![t] = n]
    /\ UNCHANGED <<registryVars, nodeVars, sampleVars, once, sub, left>>

PubCreate(t, n) ==
    /\ pc[t] = "idle" /\ n \in g_registry /\ NewHandle
    /\ pubs' = [pubs EXCEPT ![n] = @ \cup {g_next_handle}]
    /\ UNCHANGED <<g_registry, subs, nodeVars, sampleVars, threadVars>>

KnownPub(h) == \E n \in g_registry : h \in pubs[n]

PubDestroy(t, h) ==
    /\ pc[t] = "idle" /\ KnownPub(h)
    /\ pubs' = [n \in Handles |-> IF n \in g_registry THEN pubs[n] \ {h} ELSE pubs[n]]
    /\ UNCHANGED <<g_next_handle, g_registry, subs, nodeVars, sampleVars,
                   threadVars>>

\* The write, under the lock; a sample that reaches subscription s.
PubPublish(t, h, s) ==
    /\ pc[t] = "idle" /\ KnownPub(h)
    /\ published < MaxSamples /\ published' = published + 1
    /\ data[s] < MaxData /\ \E n \in Handles : s \in entities[n]
    /\ data' = [data EXCEPT ![s] = @ + 1]
    /\ UNCHANGED <<registryVars, nodeVars, closed, late, threadVars>>

SubCreate(t, n) ==
    /\ pc[t] = "idle" /\ n \in g_registry /\ NewHandle
    /\ entities' = [entities EXCEPT ![n] = @ \cup {g_next_handle}]
    /\ subs' = [subs EXCEPT ![n] = @ \cup {g_next_handle}]
    /\ UNCHANGED <<g_registry, pubs, attached, guard, sampleVars, threadVars>>

\* The subscription is taken out of the entry; the thread keeps it and the Node.  A
\* handle that is not known is ignored.
SubDestroy(t, n, h) ==
    /\ pc[t] = "idle" /\ n \in g_registry /\ h \in subs[n]
    /\ subs' = [subs EXCEPT ![n] = @ \ {h}]
    /\ Goto(t, "close")
    /\ node' = [node EXCEPT ![t] = n] /\ sub' = [sub EXCEPT ![t] = h]
    /\ UNCHANGED <<g_next_handle, g_registry, pubs, nodeVars, sampleVars, once,
                   left>>

\* closed.store(true)
CloseSub(t) ==
    /\ pc[t] = "close" /\ Goto(t, "remove")
    /\ closed' = closed \cup {sub[t]}
    /\ UNCHANGED <<registryVars, nodeVars, data, late, published, once, node,
                   sub, left>>

\* node->remove_entity(sub)
RemovedMutant(t) == entities[node[t]]
Removed(t) == entities[node[t]] \ {sub[t]}

RemoveSub(t) ==
    /\ pc[t] = "remove"
    /\ Return(t, [entities EXCEPT ![node[t]] = Removed(t)], guard)

-----------------------------------------------------------------------------
(* Spinning.  "Callable once at a time": no second spin of the same node.  *)

Spinning(n) == \E t \in Threads : pc[t] \in InSpin /\ node[t] = n

\* NodeSpin_ and NodeSpinOnce_ hold the entry they looked up until spin returns.
NodeSpin(t, n) ==
    /\ pc[t] = "idle" /\ n \in g_registry /\ ~Spinning(n)
    /\ Goto(t, "spin") /\ node' = [node EXCEPT ![t] = n]
    /\ \E o \in BOOLEAN : once' = [once EXCEPT ![t] = o]
    /\ UNCHANGED <<registryVars, nodeVars, sampleVars, sub, left>>

\* The wait returned the cancel guard.
SpinCancelled(t) ==
    /\ pc[t] = "spin" /\ node[t] \in guard /\ Return(t, entities, guard \ {node[t]})

\* spin_once returns after a pass or its timeout.
SpinOnceReturns(t) ==
    /\ pc[t] = "spin" /\ once[t] /\ Return(t, entities, guard)

Reconcile(t) ==
    /\ pc[t] = "spin" /\ attached[node[t]] # entities[node[t]]
    /\ attached' = [attached EXCEPT ![node[t]] = entities[node[t]]]
    /\ UNCHANGED <<registryVars, entities, guard, sampleVars, threadVars>>

\* An attached reader with data was looked up; the executor holds its entity.
LookedUp(t, s) ==
    /\ pc[t] = "spin" /\ s \in attached[node[t]] /\ data[s] > 0
    /\ Goto(t, "dispatch") /\ sub' = [sub EXCEPT ![t] = s]
    /\ UNCHANGED <<registryVars, nodeVars, sampleVars, once, node, left>>

\* The executor lets go of the entity.
DispatchEnds(t) == Goto(t, "spin") /\ sub' = [sub EXCEPT ![t] = 0]

\* SubEntry::dispatch: nothing if closed, else take what there is.
Dispatch(t) ==
    /\ pc[t] = "dispatch"
    /\ IF sub[t] \in closed
       THEN DispatchEnds(t) /\ UNCHANGED <<left, data>>
       ELSE /\ Goto(t, "sample") /\ UNCHANGED sub
            /\ left' = [left EXCEPT ![t] = data[sub[t]]]
            /\ data' = [data EXCEPT ![sub[t]] = 0]
    /\ UNCHANGED <<registryVars, nodeVars, closed, late, published, once, node>>

\* closed is read again for every sample.
DeliverableMutant(s) == TRUE
Deliverable(s) == s \notin closed

Sample(t) ==
    /\ pc[t] = "sample"
    /\ IF left[t] = 0
       THEN DispatchEnds(t) /\ UNCHANGED left
       ELSE /\ left' = [left EXCEPT ![t] = @ - 1] /\ UNCHANGED sub
            /\ Goto(t, IF Deliverable(sub[t]) THEN "callback" ELSE "sample")
    /\ UNCHANGED <<registryVars, nodeVars, sampleVars, once, node>>

\* callback(payload); an exception it throws is logged.
Callback(t) ==
    /\ pc[t] = "callback" /\ Goto(t, "sample")
    /\ late' = IF sub[t] \in closed THEN [late EXCEPT ![sub[t]] = @ + 1] ELSE late
    /\ UNCHANGED <<registryVars, nodeVars, closed, data, published, once, node,
                   sub, left>>

-----------------------------------------------------------------------------
SpinStep(t) ==
    \/ SpinCancelled(t) \/ Reconcile(t) \/ Dispatch(t) \/ Sample(t) \/ Callback(t)
    \/ \E s \in Handles : LookedUp(t, s)

Step(t) == SpinStep(t) \/ CancelEntry(t) \/ CloseSub(t) \/ RemoveSub(t)

-----------------------------------------------------------------------------
(* Properties.                                                             *)

\* "Stop callbacks first": once sub_destroy has set closed at most one more callback
\* begins, the one whose sample had been checked, however many samples were taken with
\* it (SubEntry::dispatch, SubDestroy_).
OneLateCallback == \A s \in Handles : late[s] <= 1

\* The registry and the nodes agree, in every interleaving of sub_create, sub_destroy
\* and node_destroy: an entity of a node is one its entry knows or one whose sub_destroy
\* is under way; and a node that has lost its entry, with entities that no handle leads
\* to any more, is only there until a sub_destroy of it returns (SubDestroy_,
\* NodeDestroy_).
HasEntry(n) ==
    n \in g_registry \/ \E t \in Threads : pc[t] \notin InSubDestroy /\ node[t] = n
Going(n) == {sub[t] : t \in {u \in Threads : pc[u] \in InSubDestroy /\ node[u] = n}}
EntitiesAreKnown ==
    \A n \in Handles :
        IF HasEntry(n) THEN entities[n] = subs[n] \cup Going(n)
        ELSE /\ subs[n] = {} /\ Going(n) \subseteq entities[n]
             /\ entities[n] # {} => Going(n) # {}
==============================================================================

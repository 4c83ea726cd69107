------------------------------- MODULE Bindings -------------------------------
(***************************************************************************)
(* A process that uses the Python package: its threads fix the DDS setup   *)
(* (Context), create nodes and endpoints (FfiRegistry) through the objects *)
(* of node.py and pubsub.py, and the interpreter exits while they still    *)
(* run.  The threads are daemons: the interpreter joins the others before  *)
(* it runs the atexit handlers.                                            *)
(*                                                                         *)
(* An object is known by its handle and the node's: a Node has both the    *)
(* same, a Publisher or Subscription its own and that of its node.         *)
(***************************************************************************)
EXTENDS FfiRegistry, Context

CONSTANT Main       \* the thread that exits

ASSUME BindingsAssumption == Users = Threads \ Spinners /\ Main \in Users

VARIABLES
    participant,    \* what participants have been created with
    tracked,        \* objects with a handle: _TRACKED_NODES and _TRACKED
    py,             \* what is left of each user's method: [do, object]
    phase,          \* "running", "list nodes", "nodes", "list endpoints", "endpoints"
                    \* or "finalizing"
    changed,        \* whether the set that is listed has changed meanwhile
    listed,         \* the objects in a set whose listing was not disturbed
    todo            \* what the handler that runs has listed and not dealt with

exitVars == <<phase, changed, listed, todo>>
pythonVars == <<tracked, py, exitVars>>
vars == <<ffiVars, contextVars, participant, pythonVars>>

Object(n, h) == [node |-> n, handle |-> h]
IsNode(o) == o.handle = o.node
Done == [do |-> "nothing", object |-> Object(0, 0)]

Init ==
    /\ RegistryInit /\ ContextInit /\ participant = {}
    /\ tracked = {} /\ py = [t \in Users |-> Done]
    /\ phase = "running" /\ changed = FALSE /\ listed = {} /\ todo = {}

\* Between two calls; the main thread makes none of its own once it exits.
Free(t) == py[t] = Done /\ pc[t] = "idle" /\ at[t] = "out"
MayCall(t) == Free(t) /\ (t = Main => phase = "running")

Then(t, what, o) == py' = [py EXCEPT ![t] = [do |-> what, object |-> o]]

-----------------------------------------------------------------------------
(* Node.                                                                   *)

Configure(t) ==
    /\ MayCall(t) /\ \E c \in InitCalls : InitDds(t, c)
    /\ UNCHANGED <<ffiVars, participant, pythonVars>>

\* The first node creates the context.
BeginCreate(t) ==
    /\ MayCall(t) /\ g_next_handle \in Handles /\ BeginInstance(t)
    /\ UNCHANGED <<ffiVars, participant, pythonVars>>

ContextStep(t) ==
    /\ Construct(t) \/ Assign(t)
    /\ UNCHANGED <<ffiVars, participant, pythonVars>>

Create(t) ==
    /\ MayCall(t) /\ HasInstance /\ NodeCreate(t) /\ UNCHANGED contextVars
    /\ participant' = participant \cup {Participant}
    /\ Then(t, "track", Object(g_next_handle, g_next_handle))
    /\ UNCHANGED <<tracked, exitVars>>

\* The exit handler that lists the set an object is in.
Listing(o) == phase = IF IsNode(o) THEN "list nodes" ELSE "list endpoints"

\* The object is complete: _TRACKED_NODES.add or _TRACKED.add.
Track(t) ==
    LET o == py[t].object
    IN  /\ py[t].do = "track" /\ Then(t, "nothing", Object(0, 0))
        /\ tracked' = tracked \cup {o}
        /\ changed' = (changed \/ Listing(o))
        /\ todo' = IF Listing(o) THEN todo \cup {o} ELSE todo
        /\ UNCHANGED <<ffiVars, contextVars, participant, phase, listed>>

\* Two threads may both find the handle, only one of them finds the entry.
DestroyNode(t, o) ==
    /\ IF o.node \in g_registry THEN NodeDestroy(t, o.node) ELSE UNCHANGED ffiVars
    /\ Then(t, "untrack", o)
    /\ UNCHANGED <<contextVars, participant, tracked, phase, changed, listed>>

DestroyEndpoint(t, o) ==
    /\ IF o.node \in g_registry /\ o.handle \in subs[o.node]
       THEN SubDestroy(t, o.node, o.handle)
       ELSE PubDestroy(t, o.handle) \/ (~KnownPub(o.handle) /\ UNCHANGED ffiVars)
    /\ Then(t, "untrack", o)
    /\ UNCHANGED <<contextVars, participant, tracked, phase, changed, listed>>

DestroyObject(t, o) == IF IsNode(o) THEN DestroyNode(t, o) ELSE DestroyEndpoint(t, o)
Destroy(t, o) == MayCall(t) /\ DestroyObject(t, o) /\ UNCHANGED todo

\* _handle = 0, discarded; a node's endpoints too.
Untrack(t) ==
    LET o == py[t].object
        gone == {p \in tracked : p = o \/ (IsNode(o) /\ p.node = o.node)}
    IN  /\ py[t].do = "untrack" /\ pc[t] = "idle" /\ Then(t, "nothing", Object(0, 0))
        /\ tracked' = tracked \ gone
        /\ changed' = (changed \/ \E p \in gone : Listing(p))
        /\ UNCHANGED <<ffiVars, contextVars, participant, phase, listed, todo>>

\* create_publisher and create_subscription
CreateEndpoint(t, n) ==
    /\ MayCall(t) /\ Object(n, n) \in tracked
    /\ PubCreate(t, n) \/ SubCreate(t, n)
    /\ Then(t, "track", Object(n, g_next_handle))
    /\ UNCHANGED <<contextVars, participant, tracked, exitVars>>

\* Methods that make one call.
Method(t, o) ==
    /\ MayCall(t)
    /\ \/ IsNode(o) /\ NodeCancel(t, o.node)
       \/ o.handle \in pubs[o.node] /\ \E s \in Handles : PubPublish(t, o.handle, s)
    /\ UNCHANGED <<contextVars, participant, pythonVars>>

Spin(t, n) ==
    /\ Object(n, n) \in tracked /\ NodeSpin(t, n)
    /\ UNCHANGED <<contextVars, participant, pythonVars>>

\* What a call does after its first step.
FfiStep(t) == Step(t) /\ UNCHANGED <<contextVars, participant, pythonVars>>
OnceReturns(t) == SpinOnceReturns(t) /\ UNCHANGED <<contextVars, participant, pythonVars>>

-----------------------------------------------------------------------------
(* Exit.  The handlers run in the opposite order of their registration:    *)
(* _destroy_tracked_nodes, then _destroy_tracked of pubsub.py, which       *)
(* node.py imports first.  Each lists its WeakSet, outside its try, while  *)
(* other threads add objects and discard them: todo is what has been in    *)
(* the set since the listing began.                                        *)

List(from, to, objects) ==
    /\ phase = from /\ Free(Main) /\ todo = {} /\ phase' = to
    /\ todo' = objects
    /\ UNCHANGED <<ffiVars, contextVars, participant, tracked, py, changed, listed>>

\* An iteration that finds its set larger or smaller than before raises, and the handler
\* ends with nothing listed; if additions made up for removals, or came after the last
\* element, it ends with some of the objects.
FoundMutant == {{}}
Found == IF changed THEN SUBSET todo ELSE {todo}

Listed(from, to) ==
    /\ phase = from /\ phase' = to
    /\ todo' \in Found
    /\ listed' = IF changed THEN listed ELSE listed \cup todo
    /\ changed' = FALSE
    /\ UNCHANGED <<ffiVars, contextVars, participant, tracked, py>>

\* destroy() of an object without a handle does nothing.
Handle(at_phase, o) ==
    /\ phase = at_phase /\ Free(Main) /\ o \in todo /\ todo' = todo \ {o}
    /\ IF o \in tracked THEN DestroyObject(Main, o)
       ELSE UNCHANGED <<ffiVars, contextVars, participant, tracked, py, phase, changed, listed>>

Exit == List("running", "list nodes", {o \in tracked : IsNode(o)})
NodesListed == Listed("list nodes", "nodes")
ExitNode(o) == Handle("nodes", o)
ListEndpoints == List("nodes", "list endpoints", {o \in tracked : ~IsNode(o)})
EndpointsListed == Listed("list endpoints", "endpoints")
ExitEndpoint(o) == Handle("endpoints", o)

Finalize ==
    /\ phase = "endpoints" /\ Free(Main) /\ todo = {} /\ phase' = "finalizing"
    /\ UNCHANGED <<ffiVars, contextVars, participant, tracked, py, changed, listed, todo>>

-----------------------------------------------------------------------------
UserStep(t) == ContextStep(t) \/ Track(t) \/ Untrack(t)

\* Nothing is modelled of a process that finalizes.
Next ==
    /\ phase # "finalizing"
    /\ \/ \E t \in Threads : FfiStep(t)
       \/ \E t \in Users :
            \/ UserStep(t) \/ Configure(t) \/ BeginCreate(t) \/ Create(t)
            \/ \E n \in Handles : CreateEndpoint(t, n)
            \/ \E o \in tracked : Destroy(t, o) \/ Method(t, o)
       \/ \E t \in Spinners : OnceReturns(t) \/ \E n \in Handles : Spin(t, n)
       \/ Exit \/ NodesListed \/ ListEndpoints \/ EndpointsListed \/ Finalize
       \/ \E o \in todo : ExitNode(o) \/ ExitEndpoint(o)

Spec == Init /\ [][Next]_vars

-----------------------------------------------------------------------------
(* Properties.                                                             *)

\* "node_destroy() cancels a concurrent spin() before releasing the entry": a spin of a
\* node that has left the registry has the cancel guard waiting for it, or is about to,
\* wherever it is and whatever earlier cancel it may have taken, so that it ends
\* (NodeDestroy_, with CancelStopsSpin of Executor).
DestroyEndsSpin ==
    \A n \in Handles : n \notin g_registry /\ Spinning(n) =>
        n \in guard \/ \E t \in Threads : pc[t] = "cancel" /\ node[t] = n

\* Every participant is in the domain and has the configuration that the last init_dds
\* that returned asked for, behind CYCLONEDDS_URI and before ROS_LOCALHOST_ONLY; only
\* one that ran while another thread was between Context's constructor and the
\* assignment of g_ctx is accepted and not used (Context::configure, instance).
OverridesAreUsed ==
    ~unseen => \A p \in participant :
        /\ p.domain_id = IF g_cfg.domain_id >= 0 THEN g_cfg.domain_id ELSE env_domain_id
        /\ p.config # << >> =>
             p.config[Len(p.config)] = IF Uri THEN "uri"
                                       ELSE IF g_cfg.config_xml # << >> THEN g_cfg.config_xml[1]
                                       ELSE "localhost"
        /\ g_cfg.config_xml # << >> \/ Uri \/ LocalhostOnly => p.config # << >>

\* "Must not be destroyed during interpreter finalization": what the exit handlers could
\* list undisturbed is gone when they are through, whatever destroy() calls ran
\* meanwhile.  Of a node a Python callback is alive only while another thread still
\* spins or destroys it; a subscription, whose node may not have been listed, is at most
\* in what the node's executor has attached, or another thread is destroying it or its
\* node.  A listing that an add or discard of another thread disturbs promises nothing
\* (_destroy_tracked_nodes, _destroy_tracked).
CallbacksGone ==
    phase = "finalizing" => \A o \in listed :
        LET n == o.node
            held == \E t \in Threads \ {Main} : node[t] = n
        IN  IF IsNode(o) THEN subs[n] \cup entities[n] \cup attached[n] # {} => held
            ELSE o.handle \in subs[n] \cup entities[n] =>
                 \/ n \notin g_registry /\ held
                 \/ \E t \in Threads \ {Main} : pc[t] \in InSubDestroy /\ sub[t] = o.handle
==============================================================================

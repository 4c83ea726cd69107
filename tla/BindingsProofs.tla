---------------------------- MODULE BindingsProofs ----------------------------
(***************************************************************************)
(* Theorems about Bindings, for any threads, bounds and calls of init_dds: *)
(* the registry and its nodes agree, a destroyed subscription gets at most *)
(* one more callback, a destroyed node's spin is told to end, overrides    *)
(* are used unless they raced with the context's construction, and the     *)
(* exit handlers leave no callback behind that nobody is using.            *)
(*                                                                         *)
(* The registry's invariant is shown for the calls of FfiRegistry alone,   *)
(* whoever makes them, that of the context for the steps of Context.       *)
(***************************************************************************)
EXTENDS Bindings, TLAPS

-----------------------------------------------------------------------------
(* The registry.                                                           *)

\* Every call on the registry that some thread may make, and every later step of one.
RegistryStep ==
    \E t \in Threads :
        \/ Step(t) \/ SpinOnceReturns(t) \/ NodeCreate(t)
        \/ \E n \in Handles :
             \/ NodeDestroy(t, n) \/ NodeCancel(t, n) \/ NodeSpin(t, n)
             \/ PubCreate(t, n) \/ SubCreate(t, n)
             \/ \E h \in Handles :
                  \/ SubDestroy(t, n, h) \/ PubDestroy(t, h) \/ PubPublish(t, h, n)

Labels == {"idle", "cancel", "close", "remove"} \cup InSpin
Holding == {"dispatch", "sample", "callback"}

RegistryTypeOK ==
    /\ g_next_handle \in Nat /\ g_registry \subseteq Handles /\ guard \subseteq Handles
    /\ pubs \in [Handles -> SUBSET Handles] /\ subs \in [Handles -> SUBSET Handles]
    /\ entities \in [Handles -> SUBSET Handles] /\ attached \in [Handles -> SUBSET Handles]
    /\ closed \subseteq Handles
    /\ data \in [Handles -> Nat] /\ late \in [Handles -> Nat] /\ published \in Nat
    /\ pc \in [Threads -> Labels] /\ once \in [Threads -> BOOLEAN]
    /\ node \in [Threads -> Handles \cup {0}] /\ sub \in [Threads -> Handles \cup {0}]
    /\ left \in [Threads -> Nat]

\* A thread holds an entry, or a Node, exactly while it is in a call that has looked it up.
Entered ==
    \A t \in Threads :
        /\ pc[t] = "idle" <=> node[t] = 0
        /\ pc[t] \in Holding \cup InSubDestroy => sub[t] \in Handles

\* What lives in a node has a handle given out before, and lives in no other node.
Held(n) == subs[n] \cup entities[n] \cup attached[n]
Owned ==
    /\ \A h \in g_registry : h < g_next_handle
    /\ \A n \in Handles : \A h \in Held(n) : h < g_next_handle /\ n < g_next_handle
    /\ \A m, n \in Handles : m # n => Held(m) \cap Held(n) = {}

\* "Callable once at a time": two threads that spin spin different nodes.
OneSpinner ==
    \A t, u \in Threads :
        pc[t] \in InSpin /\ pc[u] \in InSpin /\ node[t] = node[u] => t = u

\* The executor dispatches what it has attached.
HoldsAttached ==
    \A t \in Threads : pc[t] \in Holding => sub[t] \in attached[node[t]]

\* A subscription that is being destroyed is so by one thread, and unknown to others.
OneDestroyer ==
    \A t \in Threads : pc[t] \in InSubDestroy =>
        /\ sub[t] \in entities[node[t]] /\ sub[t] \notin subs[node[t]]
        /\ \A u \in Threads :
             pc[u] \in InSubDestroy /\ node[u] = node[t] /\ sub[u] = sub[t] => u = t

\* A late callback is one of a closed subscription, and the last.
LateOnce ==
    /\ \A s \in Handles : late[s] <= 1 /\ (s \notin closed => late[s] = 0)
    /\ \A t \in Threads : pc[t] = "callback" => late[sub[t]] = 0

\* What lives in a node that is not registered is held by a thread in a call.
Backed ==
    \A n \in Handles : n \notin g_registry /\ Held(n) # {} =>
        \E t \in Threads : pc[t] # "idle" /\ node[t] = n

RegistryInv ==
    /\ RegistryTypeOK /\ Entered /\ Owned /\ OneSpinner /\ HoldsAttached
    /\ EntitiesAreKnown /\ OneDestroyer /\ LateOnce /\ Backed /\ DestroyEndsSpin

-----------------------------------------------------------------------------
(* The context.                                                            *)

InInstance == {"construct", "assign"}

ContextTypeOK ==
    /\ g_ctx_once \in {"unset", "running", "done"}
    /\ at \in [Users -> {"out"} \cup InInstance]
    /\ g_cfg.domain_id \in Int
    /\ g_cfg.config_xml = << >> \/ g_cfg.config_xml = <<g_cfg.config_xml[1]>>

\* One thread constructs, once; there is no participant before.
OneConstructor ==
    /\ \A t \in Users : at[t] \in InInstance => g_ctx_once = "running"
    /\ \A t, u \in Users : at[t] \in InInstance /\ at[u] \in InInstance => t = u
    /\ g_ctx_once # "done" => participant = {}
    /\ g_ctx_once = "done" => g_ctx.domain_id >= 0

\* What the constructor has read, and then the context, is the configuration stored
\* last, unless that came too late.
Current ==
    /\ \A t \in Users : at[t] = "assign" =>
         built.domain_id >= 0 /\ (~unseen => built = ContextOf(g_cfg))
    /\ g_ctx_once = "done" /\ ~unseen => g_ctx = ContextOf(g_cfg)

\* Participants are made from the context, which does not change.
FromContext == \A p \in participant : p = Participant

ContextInv == ContextTypeOK /\ OneConstructor /\ Current /\ FromContext

-----------------------------------------------------------------------------
(* The Python objects.                                                     *)

Objects == [node : Handles, handle : Handles]

PythonTypeOK ==
    /\ phase \in {"running", "list nodes", "nodes", "list endpoints", "endpoints",
                  "finalizing"}
    /\ tracked \subseteq Objects /\ listed \subseteq Objects /\ todo \subseteq Objects
    /\ py \in [Users -> [do : {"nothing", "track", "untrack"},
                         object : Objects \cup {Object(0, 0)}]]

\* Objects stand for handles that were given out.
GivenOut(o) == o.node < g_next_handle /\ o.handle < g_next_handle
Named ==
    /\ \A o \in tracked \cup listed \cup todo : GivenOut(o)
    /\ \A t \in Users : py[t].do # "nothing" =>
         py[t].object \in Objects /\ GivenOut(py[t].object)

\* An object loses its handle when the registry has lost its entry: a node its own, a
\* subscription its own or that of its node.
Cleared(o) == \/ o.node \notin g_registry
              \/ ~IsNode(o) /\ o.handle \notin subs[o.node]
Untracked ==
    /\ \A t \in Users : py[t].do = "untrack" => Cleared(py[t].object)
    /\ \A o \in listed \cup todo : o \in tracked \/ Cleared(o)

\* What the exit handlers have dealt with is not registered.
Handled ==
    /\ phase \in {"running", "list nodes"} => listed = {}
    /\ phase \in {"nodes", "endpoints"} => \A o \in listed \ todo : Cleared(o)
    /\ phase \in {"list endpoints", "finalizing"} => \A o \in listed : Cleared(o)
    /\ phase = "finalizing" => pc[Main] = "idle"

PythonInv == PythonTypeOK /\ Named /\ Untracked /\ Handled

IInv == RegistryInv /\ ContextInv /\ PythonInv

-----------------------------------------------------------------------------
(* What a step of the registry does.                                       *)

USE DEF registryVars, nodeVars, sampleVars, threadVars

\* A call that returns drops what it held; entries and nodes that others hold stay.
LEMMA ReturnEffect ==
    ASSUME RegistryTypeOK, NEW t \in Threads, NEW ents \in [Handles -> SUBSET Handles],
           NEW guards \in SUBSET Handles, Return(t, ents, guards)
    PROVE  /\ pc' = [pc EXCEPT ![t] = "idle"] /\ node' = [node EXCEPT ![t] = 0]
           /\ sub' = [sub EXCEPT ![t] = 0] /\ g_registry' = g_registry
           /\ \A n \in EntriesKept(t) : n \in NodesKept(t)
           /\ \A u \in Threads : u # t /\ node[u] \in Handles =>
                /\ node[u] \in NodesKept(t)
                /\ pc[u] \notin InSubDestroy => node[u] \in EntriesKept(t)
           /\ \A n \in Handles : n \in EntriesKept(t) =>
                subs'[n] = subs[n] /\ attached'[n] = attached[n]
           /\ \A n \in Handles : n \notin EntriesKept(t) => subs'[n] = {} /\ attached'[n] = {}
           /\ \A n \in Handles : n \in NodesKept(t) => entities'[n] = ents[n]
           /\ \A n \in Handles : n \notin NodesKept(t) => entities'[n] = {}
           /\ closed' \subseteq closed
           /\ \A s \in Handles : s \in closed /\ s \notin closed' => late'[s] = 0
           /\ \A s \in Handles : late'[s] = late[s] \/ late'[s] = 0
           /\ guard' = guards \cap EntriesKept(t)
<1> DEFINE ss == SubsKept(t, ents)
<1>1. /\ closed' = closed \cap ss /\ late' = Zeroed(late, ss)
  BY DEF Return
<1> HIDE DEF ss
<1>2. /\ closed' \subseteq closed
      /\ \A s \in Handles : s \in closed /\ s \notin closed' => late'[s] = 0
      /\ \A s \in Handles : late'[s] = late[s] \/ late'[s] = 0
  BY <1>1 DEF Zeroed
<1>3. /\ \A n \in EntriesKept(t) : n \in NodesKept(t)
      /\ \A u \in Threads : u # t /\ node[u] \in Handles =>
           /\ node[u] \in NodesKept(t)
           /\ pc[u] \notin InSubDestroy => node[u] \in EntriesKept(t)
  BY DEF EntriesKept, NodesKept
<1>4. /\ pc' = [pc EXCEPT ![t] = "idle"] /\ node' = [node EXCEPT ![t] = 0]
      /\ sub' = [sub EXCEPT ![t] = 0] /\ g_registry' = g_registry
      /\ guard' = guards \cap EntriesKept(t)
      /\ subs' = Kept(subs, EntriesKept(t)) /\ attached' = Kept(attached, EntriesKept(t))
      /\ entities' = Kept(ents, NodesKept(t))
  BY DEF Return, Goto
<1> QED BY <1>2, <1>3, <1>4 DEF Kept

\* ... and the types stay.
LEMMA ReturnType ==
    ASSUME RegistryTypeOK, NEW t \in Threads, NEW ents \in [Handles -> SUBSET Handles],
           NEW guards \in SUBSET Handles, Return(t, ents, guards)
    PROVE  RegistryTypeOK'
<1>1. /\ pubs' \in [Handles -> SUBSET Handles] /\ subs' \in [Handles -> SUBSET Handles]
      /\ entities' \in [Handles -> SUBSET Handles]
      /\ attached' \in [Handles -> SUBSET Handles]
  BY DEF Return, Kept, RegistryTypeOK
<1>2. data' \in [Handles -> Nat] /\ late' \in [Handles -> Nat]
  BY DEF Return, Zeroed, RegistryTypeOK
<1>3. /\ pc' \in [Threads -> Labels] /\ node' \in [Threads -> Handles \cup {0}]
      /\ sub' \in [Threads -> Handles \cup {0}]
  BY DEF Return, Goto, Labels, RegistryTypeOK
<1>4. once' \in [Threads -> BOOLEAN]
  BY Zenon DEF Return, RegistryTypeOK
<1>5. guard' \subseteq Handles /\ closed' \subseteq Handles
  BY DEF Return, RegistryTypeOK
<1> QED BY <1>1, <1>2, <1>3, <1>4, <1>5 DEF Return, RegistryTypeOK

\* Left(t, ents, guards): a call returns having left the nodes these entities and these
\* guards triggered.
Left(t, ents, guards) ==
    /\ Return(t, ents, guards) /\ node[t] \in Handles
    /\ \A n \in Handles : ents[n] \subseteq entities[n]
    /\ \/ pc[t] = "remove" /\ guards = guard
          /\ ents = [entities EXCEPT ![node[t]] = @ \ {sub[t]}]
       \/ pc[t] \in {"spin", "cancel"} /\ ents = entities
    /\ \A n \in guard : n \in guards \/ (n = node[t] /\ pc[t] = "spin")
    /\ pc[t] = "cancel" => node[t] \in guards

\* The calls that return.
LEMMA Returns ==
    ASSUME RegistryTypeOK, Entered, NEW t \in Threads,
           \/ SpinCancelled(t) \/ SpinOnceReturns(t) \/ CancelEntry(t) \/ RemoveSub(t)
    PROVE  \E ents \in [Handles -> SUBSET Handles], guards \in SUBSET Handles :
               Left(t, ents, guards)
<1>0. node[t] \in Handles
  BY DEF RegistryTypeOK, Entered, SpinCancelled, SpinOnceReturns, CancelEntry, RemoveSub
<1>1. entities \in [Handles -> SUBSET Handles] /\ guard \in SUBSET Handles
  BY DEF RegistryTypeOK
<1>2. CASE SpinCancelled(t)
  <2>1. guard \ {node[t]} \in SUBSET Handles /\ Left(t, entities, guard \ {node[t]})
    BY <1>0, <1>1, <1>2 DEF SpinCancelled, Left
  <2> QED BY <1>1, <2>1
<1>3. CASE SpinOnceReturns(t)
  <2>1. Left(t, entities, guard)
    BY <1>0, <1>3 DEF SpinOnceReturns, Left
  <2> QED BY <1>1, <2>1
<1>4. CASE CancelEntry(t)
  <2>1. /\ guard \cup {node[t]} \in SUBSET Handles
        /\ Left(t, entities, guard \cup {node[t]})
    BY <1>0, <1>1, <1>4 DEF CancelEntry, Cancelled, Left
  <2> QED BY <1>1, <2>1
<1>5. CASE RemoveSub(t)
  <2> DEFINE ents == [entities EXCEPT ![node[t]] = @ \ {sub[t]}]
  <2>1. ents \in [Handles -> SUBSET Handles]
    BY <1>0, <1>1
  <2>2. Return(t, ents, guard)
    BY <1>5 DEF RemoveSub, Removed
  <2>3. \A n \in Handles : ents[n] \subseteq entities[n]
    BY <1>0, <1>1
  <2>4. Left(t, ents, guard)
    BY <1>0, <1>5, <2>2, <2>3 DEF RemoveSub, Left
  <2> QED BY <1>1, <2>1, <2>4
<1> QED BY <1>2, <1>3, <1>4, <1>5

-----------------------------------------------------------------------------
(* Each part of the registry's invariant.                                  *)

\* The steps that return, as the proofs below take them.
ReturnStep == \E t \in Threads : \E ents \in [Handles -> SUBSET Handles] :
                \E guards \in SUBSET Handles : Left(t, ents, guards)

\* A step of the registry returns from a call or is one of the others.
LEMMA Steps ==
    ASSUME RegistryTypeOK, Entered, RegistryStep
    PROVE  \/ ReturnStep
           \/ \E t \in Threads :
                \/ Reconcile(t) \/ Dispatch(t) \/ Sample(t) \/ Callback(t)
                \/ CloseSub(t) \/ NodeCreate(t)
                \/ \E n \in Handles :
                     \/ LookedUp(t, n) \/ NodeDestroy(t, n) \/ NodeCancel(t, n)
                     \/ NodeSpin(t, n) \/ PubCreate(t, n) \/ SubCreate(t, n)
                     \/ \E h \in Handles :
                          SubDestroy(t, n, h) \/ PubDestroy(t, h) \/ PubPublish(t, h, n)
  BY Returns DEF RegistryStep, Step, SpinStep, ReturnStep

\* Every step keeps the types.
LEMMA TypeStep ==
    ASSUME RegistryTypeOK, Entered, [RegistryStep]_ffiVars
    PROVE  RegistryTypeOK'
<1> USE DEF Goto, Labels, InSpin
<1>1. CASE ReturnStep
  BY <1>1, ReturnType DEF ReturnStep, Left
<1>2. ASSUME NEW t \in Threads, Reconcile(t) PROVE RegistryTypeOK'
  BY <1>2 DEF Reconcile, RegistryTypeOK
<1>3. ASSUME NEW t \in Threads, Dispatch(t) PROVE RegistryTypeOK'
  BY <1>3 DEF Dispatch, DispatchEnds, Entered, Holding, RegistryTypeOK
<1>4. ASSUME NEW t \in Threads, Sample(t) PROVE RegistryTypeOK'
  BY <1>4 DEF Sample, DispatchEnds, RegistryTypeOK
<1>5. ASSUME NEW t \in Threads, Callback(t) PROVE RegistryTypeOK'
  BY <1>5 DEF Callback, RegistryTypeOK
<1>6. ASSUME NEW t \in Threads, CloseSub(t) PROVE RegistryTypeOK'
  BY <1>6 DEF CloseSub, Entered, InSubDestroy, RegistryTypeOK
<1>7. ASSUME NEW t \in Threads, NodeCreate(t) PROVE RegistryTypeOK'
  BY <1>7 DEF NodeCreate, NewHandle, RegistryTypeOK
<1>8. ASSUME NEW t \in Threads, NEW s \in Handles, LookedUp(t, s) PROVE RegistryTypeOK'
  BY <1>8 DEF LookedUp, RegistryTypeOK
<1>9. ASSUME NEW t \in Threads, NEW n \in Handles, NodeDestroy(t, n) \/ NodeCancel(t, n)
      PROVE  RegistryTypeOK'
  BY <1>9 DEF NodeDestroy, NodeCancel, RegistryTypeOK
<1>10. ASSUME NEW t \in Threads, NEW n \in Handles, NodeSpin(t, n) PROVE RegistryTypeOK'
  <2>1. once' \in [Threads -> BOOLEAN]
    BY <1>10, Zenon DEF NodeSpin, RegistryTypeOK
  <2> QED BY <1>10, <2>1 DEF NodeSpin, RegistryTypeOK
<1>11. ASSUME NEW t \in Threads, NEW n \in Handles, PubCreate(t, n) \/ SubCreate(t, n)
       PROVE  RegistryTypeOK'
  BY <1>11 DEF PubCreate, SubCreate, NewHandle, RegistryTypeOK
<1>12. ASSUME NEW t \in Threads, NEW n \in Handles, NEW h \in Handles,
              SubDestroy(t, n, h)
       PROVE  RegistryTypeOK'
  BY <1>12 DEF SubDestroy, RegistryTypeOK
<1>13. ASSUME NEW t \in Threads, NEW s \in Handles, NEW h \in Handles,
              PubDestroy(t, h) \/ PubPublish(t, h, s)
       PROVE  RegistryTypeOK'
  BY <1>13 DEF PubDestroy, PubPublish, RegistryTypeOK
<1>14. CASE UNCHANGED ffiVars
  BY <1>14 DEF ffiVars, RegistryTypeOK
<1> QED
  BY <1>1, <1>2, <1>3, <1>4, <1>5, <1>6, <1>7, <1>8, <1>9, <1>10, <1>11, <1>12, <1>13,
     <1>14, Steps

\* Every step keeps entries with the calls that looked them up.
LEMMA EnteredStep ==
    ASSUME RegistryTypeOK, Entered, [RegistryStep]_ffiVars
    PROVE  Entered'
<1> USE DEF Goto, Entered, RegistryTypeOK, Holding, InSubDestroy
<1>0. 0 \notin Handles
  BY FfiAssumption DEF Handles
<1>1. CASE ReturnStep
  BY <1>1, ReturnEffect DEF ReturnStep, Left
<1>2. ASSUME NEW t \in Threads,
             \/ Reconcile(t) \/ Dispatch(t) \/ Sample(t) \/ Callback(t) \/ CloseSub(t)
             \/ NodeCreate(t)
      PROVE  Entered'
  BY <1>2 DEF Reconcile, Dispatch, DispatchEnds, Sample, Callback, CloseSub, NodeCreate
<1>3. ASSUME NEW t \in Threads, NEW n \in Handles,
             \/ LookedUp(t, n) \/ NodeDestroy(t, n) \/ NodeCancel(t, n)
             \/ NodeSpin(t, n) \/ PubCreate(t, n) \/ SubCreate(t, n)
      PROVE  Entered'
  BY <1>0, <1>3 DEF LookedUp, NodeDestroy, NodeCancel, NodeSpin, PubCreate, SubCreate
<1>4. ASSUME NEW t \in Threads, NEW n \in Handles, NEW h \in Handles,
             SubDestroy(t, n, h) \/ PubDestroy(t, h) \/ PubPublish(t, h, n)
      PROVE  Entered'
  BY <1>0, <1>4 DEF SubDestroy, PubDestroy, PubPublish
<1>5. CASE UNCHANGED ffiVars
  BY <1>5 DEF ffiVars
<1> QED BY <1>1, <1>2, <1>3, <1>4, <1>5, Steps

\* Every step keeps what lives in a node in that node.
LEMMA OwnedStep ==
    ASSUME RegistryTypeOK, Entered, Owned, [RegistryStep]_ffiVars
    PROVE  Owned'
<1> USE DEF RegistryTypeOK, Held
<1>1. ASSUME g_next_handle' >= g_next_handle, g_next_handle' \in Nat,
             g_registry' \subseteq g_registry,
             \A n \in Handles : Held(n)' \subseteq Held(n)
      PROVE  Owned'
  <2>1. \A n \in Handles : \A h \in Held(n)' : h \in Held(n) /\ h \in Nat
    <3>1. \A n \in Handles : Held(n) \subseteq Handles
      OBVIOUS
    <3>2. Handles \subseteq Nat
      BY DEF Handles
    <3> HIDE DEF Held
    <3> QED BY <1>1, <3>1, <3>2
  <2>2. \A n \in Handles : \A h \in Held(n)' : h < g_next_handle' /\ n < g_next_handle'
    <3>1. Handles \subseteq Nat
      BY DEF Handles
    <3> HIDE DEF Held
    <3> QED BY <1>1, <2>1, <3>1 DEF Owned
  <2>3. \A h \in g_registry' : h < g_next_handle'
    BY <1>1 DEF Owned, Handles
  <2> HIDE DEF Held
  <2> QED BY <2>1, <2>2, <2>3 DEF Owned
<1>2. CASE ReturnStep
  <2> PICK t \in Threads, ents \in [Handles -> SUBSET Handles],
           guards \in SUBSET Handles : Left(t, ents, guards)
    BY <1>2 DEF ReturnStep
  <2>1. UNCHANGED <<g_next_handle, g_registry>>
    BY DEF Left, Return
  <2>2. \A n \in Handles : Held(n)' \subseteq Held(n)
    BY ReturnEffect DEF Left
  <2> QED BY <1>1, <2>1, <2>2
<1>3. ASSUME NEW t \in Threads, Reconcile(t) PROVE Owned'
  <2>1. \A n \in Handles : Held(n)' \subseteq Held(n)
    BY <1>3 DEF Reconcile
  <2> QED BY <1>1, <1>3, <2>1 DEF Reconcile
<1>4. ASSUME NEW t \in Threads, NodeCreate(t) PROVE Owned'
  BY <1>4 DEF NodeCreate, NewHandle, Owned, Handles
<1>5. ASSUME NEW t \in Threads, NEW n \in Handles, SubCreate(t, n) PROVE Owned'
  <2>1. /\ g_next_handle' = g_next_handle + 1 /\ g_registry' = g_registry
        /\ Held(n)' = Held(n) \cup {g_next_handle}
        /\ \A m \in Handles : m # n => Held(m)' = Held(m)
    BY <1>5 DEF SubCreate, NewHandle
  <2>2. \A m \in Handles : \A h \in Held(m) : h < g_next_handle /\ m < g_next_handle
    BY DEF Owned
  <2>3. \A m \in Handles : g_next_handle \notin Held(m)
    BY <2>2
  <2>4. \A m \in Handles : \A h \in Held(m)' : h < g_next_handle' /\ m < g_next_handle'
    <3>1. Handles \subseteq Nat
      BY FfiAssumption DEF Handles
    <3>2. \A m \in Handles : \A h \in Held(m) : h \in Nat
      BY <3>1
    <3>3. n < g_next_handle
      BY <1>5 DEF SubCreate, Owned
    <3> HIDE DEF Held
    <3> QED BY <2>1, <2>2, <3>1, <3>2, <3>3
  <2>5. \A l, m \in Handles : l # m => Held(l)' \cap Held(m)' = {}
    <3> HIDE DEF Held
    <3> QED BY <2>1, <2>3 DEF Owned
  <2>6. \A h \in g_registry' : h < g_next_handle'
    BY <2>1 DEF Owned, Handles
  <2> QED BY <2>4, <2>5, <2>6 DEF Owned
<1>6. ASSUME NEW t \in Threads, NEW n \in Handles, NEW h \in Handles, SubDestroy(t, n, h)
      PROVE  Owned'
  <2>1. \A m \in Handles : Held(m)' \subseteq Held(m)
    BY <1>6 DEF SubDestroy
  <2> QED BY <1>1, <1>6, <2>1 DEF SubDestroy
<1>7. ASSUME NEW t \in Threads, NEW n \in Handles, NodeDestroy(t, n) \/ PubCreate(t, n)
      PROVE  Owned'
  BY <1>1, <1>7 DEF NodeDestroy, PubCreate, NewHandle
<1>8. ASSUME UNCHANGED <<g_next_handle, g_registry, subs, entities, attached>>
      PROVE  Owned'
  BY <1>1, <1>8
<1> QED
  BY <1>2, <1>3, <1>4, <1>5, <1>6, <1>7, <1>8, Steps
     DEF Dispatch, DispatchEnds, Sample, Callback, CloseSub, LookedUp, NodeCancel, NodeSpin, PubDestroy,
         PubPublish, ffiVars

\* Every step keeps the spinners of a node to one: the contract of spin, and a spinning
\* thread stays with its node.
LEMMA OneSpinnerStep ==
    ASSUME RegistryTypeOK, Entered, OneSpinner, [RegistryStep]_ffiVars
    PROVE  OneSpinner'
<1> USE DEF Goto, OneSpinner, RegistryTypeOK, InSpin
<1>1. CASE ReturnStep
  BY <1>1, ReturnEffect DEF ReturnStep, Left
<1>2. ASSUME NEW t \in Threads, pc[t] \in InSpin \/ pc'[t] \notin InSpin,
             node'[t] = node[t] \/ pc'[t] \notin InSpin,
             \A u \in Threads : u # t => pc'[u] = pc[u] /\ node'[u] = node[u]
      PROVE  OneSpinner'
  BY <1>2
<1>3. ASSUME NEW t \in Threads,
             Reconcile(t) \/ Dispatch(t) \/ Sample(t) \/ Callback(t) \/ CloseSub(t)
      PROVE  OneSpinner'
  BY <1>2, <1>3 DEF Reconcile, Dispatch, DispatchEnds, Sample, Callback, CloseSub
<1>4. ASSUME NEW t \in Threads, NEW n \in Handles,
             \/ LookedUp(t, n) \/ NodeDestroy(t, n) \/ NodeCancel(t, n)
             \/ \E h \in Handles : SubDestroy(t, n, h)
      PROVE  OneSpinner'
  BY <1>2, <1>4 DEF LookedUp, NodeDestroy, NodeCancel, SubDestroy
<1>5. ASSUME NEW t \in Threads, NEW n \in Handles, NodeSpin(t, n) PROVE OneSpinner'
  BY <1>5 DEF NodeSpin, Spinning
<1>6. ASSUME UNCHANGED <<pc, node>> PROVE OneSpinner'
  BY <1>6
<1> QED
  BY <1>1, <1>3, <1>4, <1>5, <1>6, Steps
     DEF NodeCreate, PubCreate, SubCreate, PubDestroy, PubPublish, ffiVars

\* Every step leaves a dispatching thread what it dispatches: only the spinner of a node
\* changes what its executor has attached.
LEMMA HoldsAttachedStep ==
    ASSUME RegistryTypeOK, Entered, OneSpinner, HoldsAttached, [RegistryStep]_ffiVars
    PROVE  HoldsAttached'
<1> USE DEF Goto, HoldsAttached, RegistryTypeOK, Holding
<1>1. CASE ReturnStep
  <2> PICK t \in Threads, ents \in [Handles -> SUBSET Handles],
           guards \in SUBSET Handles : Left(t, ents, guards)
    BY <1>1 DEF ReturnStep
  <2> SUFFICES ASSUME NEW u \in Threads, pc'[u] \in Holding
               PROVE  sub'[u] \in attached'[node'[u]]
    OBVIOUS
  <2>1. u # t /\ pc'[u] = pc[u] /\ node'[u] = node[u] /\ sub'[u] = sub[u]
    BY ReturnEffect DEF Left
  <2>2. node[u] \in Handles /\ pc[u] \notin InSubDestroy
    BY <2>1 DEF Entered, InSubDestroy
  <2>3. attached'[node[u]] = attached[node[u]]
    BY <2>1, <2>2, ReturnEffect DEF Left
  <2> QED BY <2>1, <2>3
<1>2. ASSUME NEW t \in Threads, Reconcile(t) PROVE HoldsAttached'
  BY <1>2 DEF Reconcile, OneSpinner, InSpin
<1>3. ASSUME NEW t \in Threads, Dispatch(t) \/ Sample(t) \/ Callback(t) \/ CloseSub(t)
      PROVE  HoldsAttached'
  BY <1>3 DEF Dispatch, DispatchEnds, Sample, Callback, CloseSub
<1>4. ASSUME NEW t \in Threads, NEW n \in Handles,
             \/ LookedUp(t, n) \/ NodeDestroy(t, n) \/ NodeCancel(t, n) \/ NodeSpin(t, n)
             \/ \E h \in Handles : SubDestroy(t, n, h)
      PROVE  HoldsAttached'
  BY <1>4 DEF LookedUp, NodeDestroy, NodeCancel, NodeSpin, SubDestroy
<1>5. ASSUME UNCHANGED <<pc, node, sub, attached>> PROVE HoldsAttached'
  BY <1>5
<1> QED
  BY <1>1, <1>2, <1>3, <1>4, <1>5, Steps
     DEF NodeCreate, PubCreate, SubCreate, PubDestroy, PubPublish, ffiVars

\* Every step keeps a subscription with the one thread that destroys it: it left the
\* registry when that thread found it.
LEMMA OneDestroyerStep ==
    ASSUME RegistryTypeOK, Entered, Owned, EntitiesAreKnown, OneDestroyer,
           [RegistryStep]_ffiVars
    PROVE  OneDestroyer'
<1> USE DEF Goto, OneDestroyer, RegistryTypeOK, InSubDestroy
<1>1. CASE ReturnStep
  <2> PICK t \in Threads, ents \in [Handles -> SUBSET Handles],
           guards \in SUBSET Handles : Left(t, ents, guards)
    BY <1>1 DEF ReturnStep
  <2> SUFFICES ASSUME NEW u \in Threads, pc'[u] \in InSubDestroy
               PROVE  /\ sub'[u] \in entities'[node'[u]] /\ sub'[u] \notin subs'[node'[u]]
                      /\ \A v \in Threads :
                           pc'[v] \in InSubDestroy /\ node'[v] = node'[u]
                             /\ sub'[v] = sub'[u] => v = u
    OBVIOUS
  <2>1. u # t /\ pc'[u] = pc[u] /\ node'[u] = node[u] /\ sub'[u] = sub[u]
    BY ReturnEffect DEF Left
  <2>2. node[u] \in Handles
    BY <2>1 DEF Entered
  <2>3. subs'[node[u]] \subseteq subs[node[u]] /\ entities'[node[u]] = ents[node[u]]
    BY <2>1, <2>2, ReturnEffect DEF Left
  <2>4. \A v \in Threads : v # t => pc'[v] = pc[v] /\ node'[v] = node[v] /\ sub'[v] = sub[v]
    BY ReturnEffect DEF Left
  <2>5. pc'[t] = "idle"
    BY ReturnEffect DEF Left
  <2>6. sub[u] \in ents[node[u]]
    BY <2>1, <2>2 DEF Left
  <2> QED BY <2>1, <2>3, <2>4, <2>5, <2>6
<1>2. ASSUME NEW t \in Threads,
             \/ Reconcile(t) \/ Dispatch(t) \/ Sample(t) \/ Callback(t) \/ CloseSub(t)
      PROVE  OneDestroyer'
  BY <1>2 DEF Reconcile, Dispatch, DispatchEnds, Sample, Callback, CloseSub
<1>3. ASSUME NEW t \in Threads, NEW n \in Handles,
             \/ LookedUp(t, n) \/ NodeDestroy(t, n) \/ NodeCancel(t, n) \/ NodeSpin(t, n)
      PROVE  OneDestroyer'
  BY <1>3 DEF LookedUp, NodeDestroy, NodeCancel, NodeSpin
<1>4. ASSUME NEW t \in Threads, NEW n \in Handles, SubCreate(t, n) PROVE OneDestroyer'
  <2>1. \A u \in Threads : pc[u] \in InSubDestroy =>
          node[u] \in Handles /\ sub[u] # g_next_handle
    BY DEF Entered, Owned, Held
  <2> QED BY <1>4, <2>1 DEF SubCreate
<1>5. ASSUME NEW t \in Threads, NEW n \in Handles, NEW h \in Handles, SubDestroy(t, n, h)
      PROVE  OneDestroyer'
  <2>1. \A u \in Threads : pc[u] \in InSubDestroy /\ node[u] = n => sub[u] # h
    BY <1>5 DEF SubDestroy
  <2>2. h \in entities[n]
    BY <1>5 DEF SubDestroy, EntitiesAreKnown, HasEntry
  <2> QED BY <1>5, <2>1, <2>2 DEF SubDestroy
<1>6. ASSUME UNCHANGED <<pc, node, sub, entities, subs>> PROVE OneDestroyer'
  BY <1>6
<1> QED
  BY <1>1, <1>2, <1>3, <1>4, <1>5, <1>6, Steps
     DEF NodeCreate, PubCreate, PubDestroy, PubPublish, ffiVars

\* What the registry and the nodes say of entities goes together through every step: a
\* node that loses its entry is held by a thread in sub_destroy, or gone.
LEMMA KnownStep ==
    ASSUME RegistryTypeOK, Entered, Owned, OneDestroyer, OneDestroyer', EntitiesAreKnown,
           [RegistryStep]_ffiVars
    PROVE  EntitiesAreKnown'
<1> USE DEF Goto, RegistryTypeOK
<1>0. 0 \notin Handles
  BY FfiAssumption DEF Handles
<1>1. \A n \in Handles : Going(n) \subseteq entities[n]
  BY DEF Going, OneDestroyer
<1>2. \A n \in Handles : Going(n)' \subseteq entities'[n]
  BY DEF Going, OneDestroyer
<1>3. ASSUME NEW n \in Handles
      PROVE  /\ HasEntry(n) => entities[n] = subs[n] \cup Going(n)
             /\ ~HasEntry(n) => subs[n] = {} /\ (entities[n] # {} => Going(n) # {})
  BY DEF EntitiesAreKnown
<1>4. SUFFICES ASSUME NEW n \in Handles
               PROVE  /\ HasEntry(n)' => entities'[n] = subs'[n] \cup Going(n)'
                      /\ ~HasEntry(n)' => subs'[n] = {} /\ (entities'[n] # {} => Going(n)' # {})
  BY <1>2 DEF EntitiesAreKnown
<1> DEFINE Goal == /\ HasEntry(n)' => entities'[n] = subs'[n] \cup Going(n)'
                   /\ ~HasEntry(n)' => subs'[n] = {} /\ (entities'[n] # {} => Going(n)' # {})
<1>5. CASE ReturnStep
  <2> PICK t \in Threads, ents \in [Handles -> SUBSET Handles],
           guards \in SUBSET Handles : Left(t, ents, guards)
    BY <1>5 DEF ReturnStep
  <2>1. /\ \A u \in Threads : u # t => pc'[u] = pc[u] /\ node'[u] = node[u] /\ sub'[u] = sub[u]
        /\ pc'[t] = "idle" /\ node'[t] = 0 /\ g_registry' = g_registry
    BY ReturnEffect DEF Left
  <2>2. HasEntry(n)' <=> n \in EntriesKept(t)
    BY <1>0, <2>1 DEF HasEntry, EntriesKept
  <2>3. Going(n)' = {sub[u] : u \in {v \in Threads \ {t} : pc[v] \in InSubDestroy /\ node[v] = n}}
    BY <2>1 DEF Going, InSubDestroy
  <2>4. CASE n \in EntriesKept(t)
    <3>1. subs'[n] = subs[n] /\ entities'[n] = ents[n]
      BY <2>4, ReturnEffect DEF Left
    <3>2. HasEntry(n)
      BY <2>4 DEF HasEntry, EntriesKept
    <3>3. CASE pc[t] = "remove" /\ node[t] = n
      <4>1. ents[n] = entities[n] \ {sub[t]}
        BY <3>3 DEF Left
      <4>2. sub[t] \notin subs[n]
        BY <3>3 DEF OneDestroyer, InSubDestroy
      <4>3. sub[t] \notin Going(n)'
        BY <2>3, <3>3 DEF OneDestroyer, InSubDestroy
      <4>4. Going(n) = Going(n)' \cup {sub[t]}
        BY <2>3, <3>3 DEF Going, InSubDestroy
      <4> QED BY <1>3, <2>2, <2>4, <3>1, <3>2, <4>1, <4>2, <4>3, <4>4
    <3>4. CASE ~(pc[t] = "remove" /\ node[t] = n)
      <4>1. ents[n] = entities[n]
        BY <3>4 DEF Left
      <4>2. ~(pc[t] \in InSubDestroy /\ node[t] = n)
        BY <3>4 DEF Left, InSubDestroy
      <4>3. Going(n)' = Going(n)
        BY <2>3, <4>2 DEF Going
      <4> QED BY <1>3, <2>2, <2>4, <3>1, <3>2, <4>1, <4>3
    <3> QED BY <3>3, <3>4
  <2>5. CASE n \notin EntriesKept(t)
    <3>1. subs'[n] = {}
      BY <2>5, ReturnEffect DEF Left
    <3>2. ASSUME entities'[n] # {} PROVE Going(n)' # {}
      <4>1. n \in NodesKept(t)
        BY <3>2, ReturnEffect DEF Left
      <4>2. PICK u \in Threads : u # t /\ node[u] = n /\ pc[u] \in InSubDestroy
        BY <2>5, <4>1 DEF NodesKept, EntriesKept
      <4>3. sub[u] \in Going(n)'
        BY <2>3, <4>2
      <4> QED BY <4>3
    <3> QED BY <2>2, <2>5, <3>1, <3>2
  <2> QED BY <2>4, <2>5
<1>6. ASSUME HasEntry(n)' <=> HasEntry(n), Going(n)' = Going(n), UNCHANGED <<entities, subs>>
      PROVE  Goal
  BY <1>3, <1>6
<1>7. ASSUME NEW t \in Threads, pc[t] \in InSubDestroy <=> pc'[t] \in InSubDestroy,
             pc[t] # "idle" => sub'[t] = sub[t] \/ pc[t] \notin InSubDestroy,
             pc[t] # "idle" => node'[t] = node[t],
             pc[t] = "idle" => node'[t] \in g_registry,
             \/ g_registry' = g_registry
             \/ pc[t] = "idle" /\ g_registry' = g_registry \ {node'[t]},
             \A u \in Threads : u # t => pc'[u] = pc[u] /\ node'[u] = node[u] /\ sub'[u] = sub[u],
             UNCHANGED <<entities, subs>>
      PROVE  Goal
  <2>1. Going(n)' = Going(n)
    BY <1>7 DEF Going, InSubDestroy
  <2>2. HasEntry(n)' <=> HasEntry(n)
    BY <1>0, <1>7 DEF HasEntry, Entered, InSubDestroy
  <2> QED BY <1>6, <1>7, <2>1, <2>2
<1>8. ASSUME NEW t \in Threads,
             \/ Reconcile(t) \/ Dispatch(t) \/ Sample(t) \/ Callback(t) \/ CloseSub(t)
      PROVE  Goal
  BY <1>7, <1>8 DEF Reconcile, Dispatch, DispatchEnds, Sample, Callback, CloseSub, InSubDestroy
<1>9. ASSUME NEW t \in Threads, NEW m \in Handles,
             \/ LookedUp(t, m) \/ NodeDestroy(t, m) \/ NodeCancel(t, m) \/ NodeSpin(t, m)
      PROVE  Goal
  BY <1>7, <1>9 DEF LookedUp, NodeDestroy, NodeCancel, NodeSpin, InSubDestroy
<1>10. ASSUME NEW t \in Threads, NodeCreate(t) PROVE Goal
  <2>1. /\ g_registry' = g_registry \cup {g_next_handle}
        /\ UNCHANGED <<entities, subs, pc, node, sub>>
    BY <1>10 DEF NodeCreate
  <2>2. Going(n)' = Going(n)
    BY <2>1 DEF Going
  <2>3. CASE n # g_next_handle
    BY <1>6, <2>1, <2>2, <2>3 DEF HasEntry
  <2>4. CASE n = g_next_handle
    <3>1. \A h : h \notin Held(n)
      BY <2>4 DEF Owned
    <3>2. entities[n] = {} /\ subs[n] = {}
      BY <3>1 DEF Held
    <3> QED BY <1>1, <2>1, <2>2, <2>4, <3>2 DEF HasEntry
  <2> QED BY <2>3, <2>4
<1>11. ASSUME NEW t \in Threads, NEW m \in Handles, SubCreate(t, m) PROVE Goal
  <2>1. Going(n)' = Going(n) /\ (HasEntry(n)' <=> HasEntry(n))
    BY <1>11 DEF SubCreate, Going, HasEntry
  <2>2. HasEntry(m)
    BY <1>11 DEF SubCreate, HasEntry
  <2> QED BY <1>3, <1>11, <2>1, <2>2 DEF SubCreate
<1>12. ASSUME NEW t \in Threads, NEW m \in Handles, NEW h \in Handles, SubDestroy(t, m, h)
       PROVE  Goal
  <2>1. /\ h \in subs[m] /\ subs' = [subs EXCEPT ![m] = @ \ {h}] /\ UNCHANGED <<entities, g_registry>>
        /\ m \in g_registry /\ pc[t] = "idle"
        /\ pc' = [pc EXCEPT ![t] = "close"] /\ node' = [node EXCEPT ![t] = m]
        /\ sub' = [sub EXCEPT ![t] = h]
    BY <1>12 DEF SubDestroy
  <2>2. HasEntry(m) /\ (HasEntry(n)' <=> HasEntry(n))
    BY <1>0, <2>1 DEF HasEntry, Entered, InSubDestroy
  <2>3. CASE n = m
    <3>1. Going(n)' = Going(n) \cup {h}
      BY <2>1, <2>3 DEF Going, InSubDestroy
    <3> QED BY <1>3, <2>1, <2>2, <2>3, <3>1
  <2>4. CASE n # m
    <3>1. Going(n)' = Going(n)
      BY <2>1, <2>4 DEF Going, InSubDestroy
    <3> QED BY <1>3, <2>1, <2>2, <2>4, <3>1
  <2> QED BY <2>3, <2>4
<1>13. ASSUME UNCHANGED <<pc, node, sub, entities, subs, g_registry>> PROVE Goal
  BY <1>6, <1>13 DEF Going, HasEntry
<1> QED
  BY <1>5, <1>8, <1>9, <1>10, <1>11, <1>12, <1>13, Steps
     DEF PubCreate, PubDestroy, PubPublish, ffiVars

\* A callback that began late is the only one: after closed was set no sample passes the
\* check, and the spinner is the only thread that may have passed it before.
LEMMA LateStep ==
    ASSUME RegistryTypeOK, Entered, Owned, OneSpinner, HoldsAttached, LateOnce,
           [RegistryStep]_ffiVars
    PROVE  LateOnce'
<1> USE DEF Goto, RegistryTypeOK
<1>1. CASE ReturnStep
  <2> PICK t \in Threads, ents \in [Handles -> SUBSET Handles],
           guards \in SUBSET Handles : Left(t, ents, guards)
    BY <1>1 DEF ReturnStep
  <2>1. /\ \A u \in Threads : pc'[u] = "callback" => pc[u] = "callback" /\ sub'[u] = sub[u]
        /\ \A s \in Handles : s \in closed /\ s \notin closed' => late'[s] = 0
        /\ \A s \in Handles : late'[s] = late[s] \/ late'[s] = 0
    BY ReturnEffect DEF Left
  <2>2. \A u \in Threads : pc[u] = "callback" => sub[u] \in Handles
    BY DEF Entered, Holding
  <2> QED BY <2>1, <2>2 DEF LateOnce
<1>2. ASSUME UNCHANGED late, closed \subseteq closed',
             \A t \in Threads : pc'[t] = "callback" => sub'[t] \in Handles /\
                (sub'[t] \notin closed \/ (pc[t] = "callback" /\ sub'[t] = sub[t]))
      PROVE  LateOnce'
  BY <1>2 DEF LateOnce
<1>3. ASSUME NEW t \in Threads,
             Reconcile(t) \/ Dispatch(t) \/ Sample(t) \/ CloseSub(t)
      PROVE  LateOnce'
  BY <1>2, <1>3 DEF Reconcile, Dispatch, DispatchEnds, Sample, CloseSub, Deliverable, Entered, Holding
<1>4. ASSUME NEW t \in Threads, Callback(t) PROVE LateOnce'
  <2>1. /\ sub[t] \in Handles /\ late[sub[t]] = 0 /\ pc'[t] = "sample"
        /\ \A u \in Threads : pc[u] = "callback" => sub[u] \in Handles
    BY <1>4 DEF Callback, Entered, Holding, LateOnce
  <2>2. \A u \in Threads : pc[u] = "callback" /\ sub[u] = sub[t] => u = t
    <3> SUFFICES ASSUME NEW u \in Threads, pc[u] = "callback", sub[u] = sub[t]
                 PROVE  u = t
      OBVIOUS
    <3>1. /\ sub[t] \in attached[node[t]] /\ sub[t] \in attached[node[u]]
          /\ node[t] \in Handles /\ node[u] \in Handles
      BY <1>4 DEF HoldsAttached, Holding, Entered, Callback
    <3>2. node[t] = node[u]
      BY <3>1 DEF Owned, Held
    <3> QED BY <1>4, <3>2 DEF OneSpinner, InSpin, Callback
  <2>3. \A u \in Threads : pc'[u] = "callback" =>
           pc[u] = "callback" /\ sub'[u] = sub[u] /\ sub[u] # sub[t]
    BY <1>4, <2>1, <2>2 DEF Callback
  <2>4. /\ closed' = closed /\ late'[sub[t]] \in {0, 1}
        /\ sub[t] \notin closed => late'[sub[t]] = 0
        /\ \A s \in Handles : s # sub[t] => late'[s] = late[s]
    BY <1>4, <2>1 DEF Callback
  <2> QED BY <2>1, <2>3, <2>4 DEF LateOnce
<1>5. ASSUME NEW t \in Threads, NEW n \in Handles,
             \/ LookedUp(t, n) \/ NodeDestroy(t, n) \/ NodeCancel(t, n) \/ NodeSpin(t, n)
             \/ \E h \in Handles : SubDestroy(t, n, h)
      PROVE  LateOnce'
  BY <1>2, <1>5
     DEF LookedUp, NodeDestroy, NodeCancel, NodeSpin, SubDestroy, Entered, Holding
<1>6. ASSUME UNCHANGED <<pc, sub, late, closed>> PROVE LateOnce'
  BY <1>6 DEF LateOnce
<1> QED
  BY <1>1, <1>3, <1>4, <1>5, <1>6, Steps
     DEF NodeCreate, PubCreate, SubCreate, PubDestroy, PubPublish, ffiVars

\* Every step leaves what lives in a node that is not registered to a thread that will
\* free it.
LEMMA BackedStep ==
    ASSUME RegistryTypeOK, Entered, Backed, [RegistryStep]_ffiVars
    PROVE  Backed'
<1> USE DEF Goto, RegistryTypeOK
<1>1. CASE ReturnStep
  <2> PICK t \in Threads, ents \in [Handles -> SUBSET Handles],
           guards \in SUBSET Handles : Left(t, ents, guards)
    BY <1>1 DEF ReturnStep
  <2> SUFFICES ASSUME NEW n \in Handles, n \notin g_registry', Held(n)' # {}
               PROVE  \E u \in Threads : pc'[u] # "idle" /\ node'[u] = n
    BY DEF Backed
  <2>1. n \in NodesKept(t) /\ n \notin g_registry
    BY ReturnEffect DEF Left, Held
  <2>2. PICK v \in Threads : v # t /\ node[v] = n
    BY <2>1 DEF NodesKept
  <2>3. 0 \notin Handles
    BY FfiAssumption DEF Handles
  <2>4. pc[v] # "idle"
    BY <2>2, <2>3 DEF Entered
  <2> QED BY <2>2, <2>4, ReturnEffect DEF Left
<1>2. ASSUME g_registry \subseteq g_registry',
             \A n \in Handles : n \notin g_registry /\ Held(n)' # {} =>
                Held(n) # {} \/ \E t \in Threads : pc[t] # "idle" /\ node[t] = n,
             \A t \in Threads : pc[t] # "idle" => pc'[t] # "idle" /\ node'[t] = node[t]
      PROVE  Backed'
  <2> HIDE DEF Held
  <2> QED BY <1>2 DEF Backed
<1>3. ASSUME NEW t \in Threads,
             \/ Reconcile(t) \/ Dispatch(t) \/ Sample(t) \/ Callback(t) \/ CloseSub(t)
             \/ NodeCreate(t)
      PROVE  Backed'
  BY <1>2, <1>3 DEF Reconcile, Dispatch, DispatchEnds, Sample, Callback, CloseSub, NodeCreate, Held
<1>4. ASSUME NEW t \in Threads, NEW n \in Handles,
             \/ LookedUp(t, n) \/ NodeCancel(t, n) \/ NodeSpin(t, n)
             \/ PubCreate(t, n) \/ SubCreate(t, n)
      PROVE  Backed'
  BY <1>2, <1>4 DEF LookedUp, NodeCancel, NodeSpin, PubCreate, SubCreate, Held
<1>5. ASSUME NEW t \in Threads, NEW n \in Handles, NodeDestroy(t, n) PROVE Backed'
  <2>1. \A m \in Handles : Held(m)' = Held(m)
    BY <1>5 DEF NodeDestroy, Held
  <2> HIDE DEF Held
  <2> QED BY <1>5, <2>1 DEF NodeDestroy, Backed
<1>6. ASSUME NEW t \in Threads, NEW n \in Handles, NEW h \in Handles,
             SubDestroy(t, n, h) \/ PubDestroy(t, h) \/ PubPublish(t, h, n)
      PROVE  Backed'
  BY <1>2, <1>6 DEF SubDestroy, PubDestroy, PubPublish, Held
<1>7. CASE UNCHANGED ffiVars
  BY <1>2, <1>7 DEF ffiVars, Held
<1> QED
  BY <1>1, <1>3, <1>4, <1>5, <1>6, <1>7, Steps

\* A spin of a node that was destroyed has its cancel guard, or is about to: only the
\* spin itself takes the guard, and returns.
LEMMA DestroyStep ==
    ASSUME RegistryTypeOK, Entered, OneSpinner, DestroyEndsSpin, [RegistryStep]_ffiVars
    PROVE  DestroyEndsSpin'
<1> USE DEF Goto, RegistryTypeOK
<1>1. CASE ReturnStep
  <2> PICK t \in Threads, ents \in [Handles -> SUBSET Handles],
           guards \in SUBSET Handles : Left(t, ents, guards)
    BY <1>1 DEF ReturnStep
  <2> SUFFICES ASSUME NEW n \in Handles, n \notin g_registry',
                      NEW u \in Threads, pc'[u] \in InSpin, node'[u] = n
               PROVE  n \in guard' \/ \E v \in Threads : pc'[v] = "cancel" /\ node'[v] = n
    BY DEF DestroyEndsSpin, Spinning
  <2>1. /\ u # t /\ pc[u] \in InSpin /\ node[u] = n /\ n \in EntriesKept(t)
        /\ guard' = guards \cap EntriesKept(t)
    BY ReturnEffect DEF Left, InSpin, InSubDestroy
  <2>2. n \notin g_registry
    BY DEF Left, Return
  <2>3. n \in guard \/ \E v \in Threads : pc[v] = "cancel" /\ node[v] = n
    BY <2>1, <2>2 DEF DestroyEndsSpin, Spinning
  <2>4. CASE n \in guard
    <3>1. ~(n = node[t] /\ pc[t] = "spin")
      BY <2>1 DEF OneSpinner, InSpin
    <3> QED BY <2>1, <2>4, <3>1 DEF Left
  <2>5. ASSUME NEW v \in Threads, pc[v] = "cancel", node[v] = n
        PROVE  n \in guard' \/ \E w \in Threads : pc'[w] = "cancel" /\ node'[w] = n
    <3>1. CASE v = t
      BY <2>1, <2>5, <3>1 DEF Left
    <3>2. CASE v # t
      BY <2>5, <3>2, ReturnEffect DEF Left
    <3> QED BY <3>1, <3>2
  <2> QED BY <2>3, <2>4, <2>5
<1>2. ASSUME g_registry \subseteq g_registry', guard \subseteq guard',
             \A t \in Threads : pc'[t] \in InSpin /\ node'[t] \notin g_registry =>
                pc[t] \in InSpin /\ node'[t] = node[t],
             \A t \in Threads : pc[t] = "cancel" => pc'[t] = "cancel" /\ node'[t] = node[t]
      PROVE  DestroyEndsSpin'
  BY <1>2 DEF DestroyEndsSpin, Spinning
<1>3. ASSUME NEW t \in Threads,
             \/ Reconcile(t) \/ Dispatch(t) \/ Sample(t) \/ Callback(t) \/ CloseSub(t)
             \/ NodeCreate(t)
      PROVE  DestroyEndsSpin'
  BY <1>2, <1>3 DEF Reconcile, Dispatch, DispatchEnds, Sample, Callback, CloseSub, NodeCreate, InSpin
<1>4. ASSUME NEW t \in Threads, NEW n \in Handles,
             \/ LookedUp(t, n) \/ NodeCancel(t, n) \/ NodeSpin(t, n)
             \/ PubCreate(t, n) \/ SubCreate(t, n)
      PROVE  DestroyEndsSpin'
  BY <1>2, <1>4 DEF LookedUp, NodeCancel, NodeSpin, PubCreate, SubCreate, InSpin
<1>5. ASSUME NEW t \in Threads, NEW n \in Handles, NodeDestroy(t, n)
      PROVE  DestroyEndsSpin'
  BY <1>5 DEF NodeDestroy, DestroyEndsSpin, Spinning, InSpin
<1>6. ASSUME NEW t \in Threads, NEW n \in Handles, NEW h \in Handles,
             SubDestroy(t, n, h) \/ PubDestroy(t, h) \/ PubPublish(t, h, n)
      PROVE  DestroyEndsSpin'
  BY <1>2, <1>6 DEF SubDestroy, PubDestroy, PubPublish, InSpin
<1>7. CASE UNCHANGED ffiVars
  BY <1>2, <1>7 DEF ffiVars
<1> QED
  BY <1>1, <1>3, <1>4, <1>5, <1>6, <1>7, Steps

\* The registry's invariant holds of the empty registry.
LEMMA RegistryInvInit == RegistryInit => RegistryInv
<1> SUFFICES ASSUME RegistryInit PROVE RegistryInv
  OBVIOUS
<1>1. RegistryTypeOK
  <2>1. once \in [Threads -> BOOLEAN]
    BY Zenon DEF RegistryInit
  <2> QED BY <2>1 DEF RegistryInit, RegistryTypeOK, Labels
<1>2. Entered /\ Owned /\ OneSpinner /\ HoldsAttached /\ OneDestroyer
  BY DEF RegistryInit, Entered, Owned, Held, OneSpinner, HoldsAttached, OneDestroyer,
         InSpin, Holding, InSubDestroy
<1>3. EntitiesAreKnown /\ LateOnce /\ Backed /\ DestroyEndsSpin
  BY DEF RegistryInit, EntitiesAreKnown, Going, InSubDestroy, LateOnce, Backed, Held,
         DestroyEndsSpin, Spinning, InSpin
<1> QED BY <1>1, <1>2, <1>3 DEF RegistryInv

\* ... and is kept by every step of the registry.
LEMMA RegistryInvStep ==
    ASSUME RegistryInv, [RegistryStep]_ffiVars PROVE RegistryInv'
<1>1. OneDestroyer'
  BY OneDestroyerStep DEF RegistryInv
<1>2. EntitiesAreKnown'
  BY <1>1, KnownStep DEF RegistryInv
<1> QED
  BY <1>1, <1>2, TypeStep, EnteredStep, OwnedStep, OneSpinnerStep, HoldsAttachedStep,
     LateStep, BackedStep, DestroyStep DEF RegistryInv

\* A step of the process is a step of the registry or leaves it alone.
LEMMA NextRegistry ==
    ASSUME PythonTypeOK, [Next]_vars PROVE [RegistryStep]_ffiVars
<1> USE BindingsAssumption, FfiAssumption
<1>0. \A o \in tracked \cup todo : o.node \in Handles /\ o.handle \in Handles
  BY DEF PythonTypeOK, Objects
<1>1. ASSUME NEW t \in Threads, FfiStep(t) \/ OnceReturns(t) PROVE RegistryStep
  BY <1>1 DEF FfiStep, OnceReturns, RegistryStep
<1>2. ASSUME NEW t \in Users, UserStep(t) \/ Configure(t) \/ BeginCreate(t)
      PROVE  UNCHANGED ffiVars
  BY <1>2 DEF UserStep, ContextStep, Track, Untrack, Configure, BeginCreate
<1>3. ASSUME NEW t \in Users, Create(t) PROVE RegistryStep
  BY <1>3 DEF Create, RegistryStep
<1>4. ASSUME NEW t \in Users, NEW n \in Handles, CreateEndpoint(t, n) PROVE RegistryStep
  BY <1>4 DEF CreateEndpoint, RegistryStep
<1>5. ASSUME NEW t \in Users, NEW o \in tracked, DestroyObject(t, o)
      PROVE  RegistryStep \/ UNCHANGED ffiVars
  BY <1>0, <1>5 DEF DestroyObject, DestroyNode, DestroyEndpoint, RegistryStep
<1>6. ASSUME NEW t \in Users, NEW o \in tracked, Method(t, o) PROVE RegistryStep
  BY <1>0, <1>6 DEF Method, RegistryStep
<1>7. ASSUME NEW t \in Spinners, NEW n \in Handles, Spin(t, n) PROVE RegistryStep
  BY <1>7 DEF Spin, RegistryStep
<1>8. ASSUME Exit \/ NodesListed \/ ListEndpoints \/ EndpointsListed \/ Finalize
      PROVE  UNCHANGED ffiVars
  BY <1>8 DEF Exit, NodesListed, ListEndpoints, EndpointsListed, Finalize, List, Listed
<1>9. ASSUME NEW o \in todo, ExitNode(o) \/ ExitEndpoint(o)
      PROVE  RegistryStep \/ UNCHANGED ffiVars
  BY <1>5, <1>9 DEF ExitNode, ExitEndpoint, Handle
<1> QED
  BY <1>1, <1>2, <1>3, <1>4, <1>5, <1>6, <1>7, <1>8, <1>9 DEF Next, Destroy, vars

-----------------------------------------------------------------------------
(* The context's invariant.                                                *)

\* A configuration is put together with a domain.
LEMMA ContextDomain ==
    ASSUME NEW cfg, cfg.domain_id \in Int
    PROVE  ContextOf(cfg).domain_id >= 0
  BY ContextAssumption DEF ContextOf, env_domain_id

\* The arguments of init_dds make a configuration.
LEMMA OverridesType ==
    ASSUME NEW c \in InitCalls
    PROVE  LET o == Overrides(c) IN
           /\ o.domain_id \in Int
           /\ o.config_xml = << >> \/ o.config_xml = <<o.config_xml[1]>>
  BY ContextAssumption DEF Overrides

\* The context's invariant holds before any thread has asked for the context.
LEMMA ContextInvInit == ContextInit /\ participant = {} => ContextInv
  BY DEF ContextInit, NoConfig, NoContext, ContextInv, ContextTypeOK, OneConstructor,
         Current, FromContext, InInstance

\* Every step of the process keeps it.
LEMMA ContextInvStep ==
    ASSUME ContextInv, [Next]_vars PROVE ContextInv'
<1> USE DEF ContextInv, ContextTypeOK, InInstance
<1>1. ASSUME NEW t \in Users, Configure(t) PROVE ContextInv'
  <2> PICK c \in InitCalls : InitDds(t, c)
    BY <1>1 DEF Configure
  <2>1. participant' = participant /\ UNCHANGED <<g_ctx, g_ctx_once, built, at>>
    BY <1>1 DEF Configure, InitDds
  <2>2. g_ctx_once # "done"
    BY DEF InitDds, Configurable, NoContext, OneConstructor
  <2>3. ContextTypeOK'
    BY <2>1, OverridesType DEF InitDds
  <2>4. OneConstructor' /\ FromContext'
    BY <2>1, <2>2 DEF OneConstructor, FromContext
  <2>5. Current'
    BY <2>1, <2>2 DEF InitDds, Current
  <2> QED BY <2>3, <2>4, <2>5
<1>2. ASSUME NEW t \in Users, BeginCreate(t) PROVE ContextInv'
  <2>1. /\ at[t] = "out" /\ at' = [at EXCEPT ![t] = "construct"]
        /\ g_ctx_once = "unset" /\ g_ctx_once' = "running"
        /\ UNCHANGED <<g_cfg, g_ctx, built, unseen, participant>>
    BY <1>2 DEF BeginCreate, BeginInstance
  <2>2. \A u \in Users : at[u] = "out"
    BY <2>1 DEF OneConstructor
  <2> QED BY <2>1, <2>2 DEF OneConstructor, Current, FromContext
<1>3. ASSUME NEW t \in Users, Construct(t), UNCHANGED participant PROVE ContextInv'
  <2>1. /\ at[t] = "construct" /\ at' = [at EXCEPT ![t] = "assign"]
        /\ built' = ContextOf(g_cfg) /\ UNCHANGED <<g_cfg, g_ctx, g_ctx_once, unseen>>
    BY <1>3 DEF Construct
  <2>2. built'.domain_id >= 0
    BY <2>1, ContextDomain
  <2>3. Current'
    BY <2>1, <2>2 DEF Current
  <2> QED BY <1>3, <2>1, <2>3 DEF OneConstructor, FromContext, Participant, DomainConfig
<1>4. ASSUME NEW t \in Users, Assign(t), UNCHANGED participant PROVE ContextInv'
  <2>1. /\ at[t] = "assign" /\ at' = [at EXCEPT ![t] = "out"]
        /\ g_ctx' = built /\ g_ctx_once' = "done" /\ UNCHANGED <<g_cfg, built, unseen>>
    BY <1>4 DEF Assign
  <2>2. participant = {} /\ \A u \in Users : u # t => at[u] = "out"
    BY <2>1 DEF OneConstructor
  <2> QED BY <1>4, <2>1, <2>2 DEF OneConstructor, Current, FromContext
<1>5. ASSUME NEW t \in Users, Create(t) PROVE ContextInv'
  <2>1. /\ UNCHANGED contextVars /\ g_ctx_once = "done"
        /\ participant' = participant \cup {Participant}
    BY <1>5 DEF Create, HasInstance
  <2>2. Participant' = Participant
    BY <2>1 DEF contextVars, Participant, DomainConfig
  <2>3. FromContext'
    BY <2>1, <2>2 DEF FromContext
  <2> QED BY <2>1, <2>3 DEF contextVars, OneConstructor, Current
<1>6. ASSUME UNCHANGED <<contextVars, participant>> PROVE ContextInv'
  BY <1>6 DEF contextVars, OneConstructor, Current, FromContext, Participant, DomainConfig
<1>7. ASSUME NEW t \in Users, UserStep(t) PROVE ContextInv'
  BY <1>3, <1>4, <1>6, <1>7 DEF UserStep, ContextStep, Track, Untrack
<1>8. ASSUME NEW t, NEW o, DestroyObject(t, o) \/ Method(t, o) PROVE ContextInv'
  BY <1>6, <1>8 DEF DestroyObject, DestroyNode, DestroyEndpoint, Method
<1>9. ASSUME NEW t, NEW n, CreateEndpoint(t, n) \/ Spin(t, n) \/ FfiStep(t) \/ OnceReturns(t)
      PROVE  ContextInv'
  BY <1>6, <1>9 DEF CreateEndpoint, Spin, FfiStep, OnceReturns
<1>10. ASSUME Exit \/ NodesListed \/ ListEndpoints \/ EndpointsListed \/ Finalize
       PROVE  ContextInv'
  BY <1>6, <1>10 DEF Exit, NodesListed, ListEndpoints, EndpointsListed, Finalize, List, Listed
<1>11. ASSUME NEW o, ExitNode(o) \/ ExitEndpoint(o) PROVE ContextInv'
  BY <1>6, <1>8, <1>11 DEF ExitNode, ExitEndpoint, Handle
<1> QED
  BY <1>1, <1>2, <1>5, <1>6, <1>7, <1>8, <1>9, <1>10, <1>11 DEF Next, Destroy, vars

-----------------------------------------------------------------------------
(* The invariant of the Python objects.                                    *)

\* Handles only grow, and only a new one is ever added to the registry or to an entry.
LEMMA HandlesGrow ==
    ASSUME RegistryTypeOK, Entered, [RegistryStep]_ffiVars
    PROVE  /\ g_next_handle' \in Nat /\ g_next_handle' >= g_next_handle
           /\ \A n \in g_registry' : n \in g_registry \/ n = g_next_handle
           /\ \A n \in Handles : subs'[n] \subseteq subs[n] \cup {g_next_handle}
<1> USE DEF RegistryTypeOK
<1> DEFINE Goal == /\ g_next_handle' \in Nat /\ g_next_handle' >= g_next_handle
                   /\ \A n \in g_registry' : n \in g_registry \/ n = g_next_handle
                   /\ \A n \in Handles : subs'[n] \subseteq subs[n] \cup {g_next_handle}
<1>1. ASSUME ReturnStep PROVE Goal
  <2> PICK t \in Threads, ents \in [Handles -> SUBSET Handles],
           guards \in SUBSET Handles : Left(t, ents, guards)
    BY <1>1 DEF ReturnStep
  <2>1. UNCHANGED <<g_next_handle, g_registry>>
    BY DEF Left, Return
  <2>2. \A n \in Handles : subs'[n] \subseteq subs[n]
    BY ReturnEffect DEF Left
  <2> QED BY <2>1, <2>2
<1>2. ASSUME UNCHANGED <<g_next_handle, subs>>, g_registry' \subseteq g_registry PROVE Goal
  BY <1>2
<1>3. ASSUME NEW t \in Threads, NodeCreate(t) PROVE Goal
  BY <1>3 DEF NodeCreate, NewHandle
<1>4. ASSUME NEW t \in Threads, NEW n \in Handles, PubCreate(t, n) \/ SubCreate(t, n)
      PROVE  Goal
  BY <1>4 DEF PubCreate, SubCreate, NewHandle
<1>5. ASSUME NEW t \in Threads, NEW n \in Handles, NEW h \in Handles, SubDestroy(t, n, h)
      PROVE  Goal
  BY <1>5 DEF SubDestroy
<1>6. ASSUME NEW t \in Threads,
             Reconcile(t) \/ Dispatch(t) \/ Sample(t) \/ Callback(t) \/ CloseSub(t)
      PROVE  Goal
  BY <1>2, <1>6 DEF Reconcile, Dispatch, DispatchEnds, Sample, Callback, CloseSub
<1>7. ASSUME NEW t \in Threads, NEW n \in Handles,
             \/ LookedUp(t, n) \/ NodeDestroy(t, n) \/ NodeCancel(t, n) \/ NodeSpin(t, n)
             \/ \E h \in Handles : PubDestroy(t, h) \/ PubPublish(t, h, n)
      PROVE  Goal
  BY <1>2, <1>7 DEF LookedUp, NodeDestroy, NodeCancel, NodeSpin, PubDestroy, PubPublish
<1>8. ASSUME UNCHANGED ffiVars PROVE Goal
  BY <1>2, <1>8 DEF ffiVars
<1> HIDE DEF Goal
<1>9. Goal
  BY <1>1, <1>3, <1>4, <1>5, <1>6, <1>7, <1>8, Steps
<1> QED BY <1>9 DEF Goal

\* The objects' invariant holds of a process without objects.
LEMMA PythonInvInit == Init => PythonInv
  BY DEF Init, RegistryInit, Done, PythonInv, PythonTypeOK, Named, Untracked, Handled

\* Every step of the process keeps it: an entry leaves the registry before its object
\* loses the handle, and comes back under no handle.
LEMMA PythonInvStep ==
    ASSUME RegistryInv, PythonInv, [Next]_vars PROVE PythonInv'
<1> USE DEF PythonInv
<1>0. Main \in Users /\ g_next_handle \in Nat
  BY BindingsAssumption DEF RegistryInv, RegistryTypeOK
<1>1. /\ g_next_handle' \in Nat /\ g_next_handle' >= g_next_handle
      /\ \A n \in g_registry' : n \in g_registry \/ n = g_next_handle
      /\ \A n \in Handles : subs'[n] \subseteq subs[n] \cup {g_next_handle}
  BY NextRegistry, HandlesGrow DEF RegistryInv
<1>2. \A o \in Objects : GivenOut(o) => GivenOut(o)' /\ (Cleared(o) => Cleared(o)')
  <2> SUFFICES ASSUME NEW o \in Objects, GivenOut(o)
               PROVE  GivenOut(o)' /\ (Cleared(o) => Cleared(o)')
    OBVIOUS
  <2>1. o.node \in Handles /\ o.handle \in Handles /\ o.node \in Nat /\ o.handle \in Nat
    BY FfiAssumption DEF Objects, Handles
  <2>2. GivenOut(o)'
    BY <1>0, <1>1, <2>1 DEF GivenOut
  <2>3. o.node # g_next_handle /\ o.handle # g_next_handle
    BY <1>0, <2>1 DEF GivenOut
  <2> QED BY <1>1, <2>1, <2>2, <2>3 DEF Cleared
<1>3. \A o \in tracked \cup listed \cup todo : o \in Objects /\ GivenOut(o)
  BY DEF PythonTypeOK, Named
<1>4. \A t \in Users : py[t].do # "nothing" => py[t].object \in Objects /\ GivenOut(py[t].object)
  BY DEF Named
<1> HIDE DEF Objects, GivenOut, Cleared
\* What a step has to show that does not exit.
<1>5. ASSUME UNCHANGED <<phase, listed>>, phase # "finalizing", PythonTypeOK', Named',
             \A o \in todo' : o \in todo \/ o \in tracked' \/ Cleared(o)',
             \A o \in todo \ todo' : phase \in {"nodes", "endpoints"} => Cleared(o)',
             \A o \in tracked \ tracked' : Cleared(o)',
             \A t \in Users : py'[t].do = "untrack" =>
                py'[t] = py[t] \/ Cleared(py[t].object)'
      PROVE  PythonInv'
  <2>1. Untracked'
    <3>1. ASSUME NEW t \in Users, py'[t].do = "untrack"
          PROVE  Cleared(py[t].object)'
      <4>1. CASE py'[t] = py[t]
        <5>1. PICK o \in Objects : o = py[t].object /\ GivenOut(o) /\ Cleared(o)
          BY <1>4, <3>1, <4>1 DEF Untracked
        <5>2. Cleared(o)' /\ o = py'[t].object
          BY <1>2, <4>1, <5>1
        <5> QED BY <5>2 DEF Cleared
      <4> QED BY <1>5, <3>1, <4>1
    <3>2. \A o \in listed' \cup todo' : o \in tracked' \/ Cleared(o)'
      BY <1>2, <1>3, <1>5 DEF Untracked
    <3> QED BY <3>1, <3>2 DEF Untracked
  <2>2. Handled'
    BY <1>2, <1>3, <1>5 DEF Handled
  <2> QED BY <1>5, <2>1, <2>2
<1>6. ASSUME UNCHANGED pythonVars, phase # "finalizing" PROVE PythonInv'
  <2>1. UNCHANGED <<tracked, py, phase, listed, todo>>
    BY <1>6 DEF pythonVars, exitVars
  <2>2. PythonTypeOK'
    BY <2>1 DEF PythonTypeOK
  <2>3. Named'
    BY <1>2, <1>3, <1>4, <2>1 DEF Named
  <2> QED BY <1>5, <1>6, <2>1, <2>2, <2>3
\* A step of a method that leaves the thread with what object to do.
<1>7. ASSUME NEW t \in Users, NEW what \in {"nothing", "track", "untrack"}, NEW o,
             Then(t, what, o),
             \/ what = "nothing" /\ o = Object(0, 0)
             \/ what # "nothing" /\ o \in Objects /\ GivenOut(o)'
      PROVE  /\ py' \in [Users -> [do : {"nothing", "track", "untrack"},
                                   object : Objects \cup {Object(0, 0)}]]
             /\ \A u \in Users : py'[u].do # "nothing" =>
                  py'[u].object \in Objects /\ GivenOut(py[u].object)'
             /\ \A u \in Users : u # t => py'[u] = py[u]
             /\ py'[t].do = what /\ py'[t].object = o
  <2>1. py' = [py EXCEPT ![t] = [do |-> what, object |-> o]]
    BY <1>7 DEF Then
  <2> HIDE DEF Object
  <2>2. py' \in [Users -> [do : {"nothing", "track", "untrack"},
                           object : Objects \cup {Object(0, 0)}]]
    BY <1>7, <2>1 DEF PythonTypeOK
  <2>3. /\ \A u \in Users : u # t => py'[u] = py[u]
        /\ py'[t].do = what /\ py'[t].object = o
    BY <2>1 DEF PythonTypeOK
  <2>4. ASSUME NEW u \in Users, py'[u].do # "nothing"
        PROVE  py'[u].object \in Objects /\ GivenOut(py[u].object)'
    <3>1. PICK p : p = py'[u].object
      OBVIOUS
    <3>2. p \in Objects /\ GivenOut(p)'
      BY <1>2, <1>4, <1>7, <2>3, <2>4, <3>1
    <3> QED BY <3>1, <3>2 DEF GivenOut
  <2> QED BY <2>2, <2>3, <2>4
<1>8. ASSUME NEW t \in Users, phase # "finalizing",
             Create(t) \/ \E n \in Handles : CreateEndpoint(t, n)
      PROVE  PythonInv'
  <2>1. /\ g_next_handle \in Handles /\ g_next_handle' = g_next_handle + 1
        /\ UNCHANGED <<tracked, phase, listed, todo>>
    BY <1>8 DEF Create, CreateEndpoint, NodeCreate, PubCreate, SubCreate, NewHandle, exitVars
  <2>2. PICK o \in Objects : Then(t, "track", o) /\ GivenOut(o)'
    <3>1. g_next_handle < g_next_handle'
      BY <1>0, <2>1
    <3>2. CASE Create(t)
      <4>1. Object(g_next_handle, g_next_handle) \in Objects
        BY <2>1 DEF Object, Objects
      <4>2. Then(t, "track", Object(g_next_handle, g_next_handle))
        BY <3>2 DEF Create
      <4> QED BY <3>1, <4>1, <4>2 DEF Object, GivenOut
    <3>3. ASSUME NEW n \in Handles, CreateEndpoint(t, n)
          PROVE  \E o \in Objects : Then(t, "track", o) /\ GivenOut(o)'
      <4>1. Object(n, g_next_handle) \in Objects
        BY <2>1 DEF Object, Objects
      <4>2. Then(t, "track", Object(n, g_next_handle)) /\ Object(n, n) \in tracked
        BY <3>3 DEF CreateEndpoint
      <4>3. n < g_next_handle'
        BY <1>2, <1>3, <4>2 DEF Object, GivenOut
      <4> QED BY <3>1, <4>1, <4>2, <4>3 DEF Object, GivenOut
    <3> QED BY <1>8, <3>2, <3>3
  <2>3. PythonTypeOK' /\ Named' /\ \A u \in Users : py'[u].do = "untrack" => py'[u] = py[u]
    BY <1>2, <1>3, <1>7, <2>1, <2>2 DEF PythonTypeOK, Named
  <2> QED BY <1>5, <1>8, <2>1, <2>3
<1>9. ASSUME NEW t \in Users, phase # "finalizing", Track(t) PROVE PythonInv'
  <2> PICK o : o = py[t].object
    OBVIOUS
  <2>1. /\ py[t].do = "track" /\ Then(t, "nothing", Object(0, 0))
        /\ tracked' = tracked \cup {o} /\ (todo' = todo \cup {o} \/ todo' = todo)
        /\ UNCHANGED <<phase, listed>>
    BY <1>9 DEF Track
  <2>2. o \in Objects /\ GivenOut(o)'
    BY <1>2, <1>4, <2>1
  <2>3. PythonTypeOK' /\ Named' /\ \A u \in Users : py'[u].do = "untrack" => py'[u] = py[u]
    BY <1>2, <1>3, <1>7, <2>1, <2>2 DEF PythonTypeOK, Named
  <2> QED BY <1>5, <1>9, <2>1, <2>3
<1>10. ASSUME NEW t \in Users, phase # "finalizing", Untrack(t) PROVE PythonInv'
  <2> PICK o : o = py[t].object
    OBVIOUS
  <2>1. /\ py[t].do = "untrack" /\ Then(t, "nothing", Object(0, 0))
        /\ tracked' = tracked \ {p \in tracked : p = o \/ (IsNode(o) /\ p.node = o.node)}
        /\ UNCHANGED <<ffiVars, phase, listed, todo>>
    BY <1>10 DEF Untrack
  <2>2. o \in Objects /\ Cleared(o) /\ UNCHANGED <<g_registry, subs>>
    BY <1>4, <2>1 DEF Untracked, ffiVars
  <2>3. \A p \in tracked \ tracked' : Cleared(p)'
    BY <2>1, <2>2 DEF Cleared
  <2>4. PythonTypeOK' /\ Named' /\ \A u \in Users : py'[u].do = "untrack" => py'[u] = py[u]
    BY <1>2, <1>3, <1>7, <2>1 DEF PythonTypeOK, Named
  <2> QED BY <1>5, <1>10, <2>1, <2>3, <2>4
<1>11. ASSUME NEW t \in Users, phase # "finalizing", NEW o \in tracked, DestroyObject(t, o),
              todo' = todo \/ todo' = todo \ {o}
       PROVE  PythonInv'
  <2>1. Then(t, "untrack", o) /\ UNCHANGED <<tracked, phase, listed>>
    BY <1>11 DEF DestroyObject, DestroyNode, DestroyEndpoint
  <2>2. o \in Objects /\ o.node \in Handles /\ GivenOut(o)'
    BY <1>2, <1>3 DEF Objects
  <2>3. Cleared(o)'
    <3>1. CASE IsNode(o)
      BY <1>11, <3>1
         DEF DestroyObject, DestroyNode, NodeDestroy, Cleared, IsNode, ffiVars
    <3>2. CASE ~IsNode(o)
      <4>1. \/ SubDestroy(t, o.node, o.handle)
            \/ Cleared(o) /\ (PubDestroy(t, o.handle) \/ UNCHANGED ffiVars)
        BY <1>11, <3>2 DEF DestroyObject, DestroyEndpoint, Cleared
      <4>2. CASE SubDestroy(t, o.node, o.handle)
        BY <2>2, <3>2, <4>2 DEF SubDestroy, Cleared, IsNode, RegistryInv, RegistryTypeOK
      <4>3. CASE Cleared(o) /\ (PubDestroy(t, o.handle) \/ UNCHANGED ffiVars)
        BY <1>2, <1>3, <4>3
      <4> QED BY <4>1, <4>2, <4>3
    <3> QED BY <3>1, <3>2
  <2>4. /\ PythonTypeOK' /\ Named'
        /\ \A u \in Users : py'[u] = py[u] \/ py'[u].object = o
    BY <1>2, <1>3, <1>7, <1>11, <2>1, <2>2 DEF PythonTypeOK, Named
  <2> QED BY <1>5, <1>11, <2>1, <2>3, <2>4
\* The steps of the exit handlers that leave registry and objects alone.
<1>12. ASSUME UNCHANGED <<ffiVars, tracked, py>>, listed' \cup todo' \subseteq listed \cup todo \cup tracked,
              phase' \in {"running", "list nodes", "nodes", "list endpoints", "endpoints",
                          "finalizing"},
              Handled'
       PROVE  PythonInv'
  <2>1. UNCHANGED <<g_next_handle, g_registry, subs, pc, tracked, py>>
    BY <1>12 DEF ffiVars
  <2>2. PythonTypeOK'
    BY <1>12, <2>1 DEF PythonTypeOK
  <2>3. Named' /\ Untracked'
    BY <1>12, <2>1 DEF Named, Untracked, GivenOut, Cleared
  <2> QED BY <1>12, <2>2, <2>3
<1>13. CASE Exit \/ ListEndpoints
  <2>1. /\ UNCHANGED <<ffiVars, tracked, py, listed>> /\ todo = {} /\ todo' \subseteq tracked
        /\ \/ phase = "running" /\ phase' = "list nodes"
           \/ phase = "nodes" /\ phase' = "list endpoints"
    BY <1>13 DEF Exit, ListEndpoints, List
  <2>2. UNCHANGED <<g_registry, subs>>
    BY <2>1 DEF ffiVars
  <2>3. Handled'
    BY <2>1, <2>2 DEF Handled, Cleared
  <2> QED BY <1>12, <2>1, <2>3
<1>14. CASE NodesListed \/ EndpointsListed
  <2>1. /\ UNCHANGED <<ffiVars, tracked, py>>
        /\ \/ todo' = todo /\ listed' = listed \cup todo
           \/ todo' \subseteq todo /\ listed' = listed
        /\ \/ phase = "list nodes" /\ phase' = "nodes"
           \/ phase = "list endpoints" /\ phase' = "endpoints"
    <3>1. todo' \in Found /\ listed' = IF changed THEN listed ELSE listed \cup todo
      BY <1>14 DEF NodesListed, EndpointsListed, Listed
    <3>2. \/ todo' = todo /\ listed' = listed \cup todo
          \/ todo' \subseteq todo /\ listed' = listed
      BY <3>1 DEF Found
    <3> QED BY <1>14, <3>2 DEF NodesListed, EndpointsListed, Listed
  <2>2. UNCHANGED <<g_registry, subs>>
    BY <2>1 DEF ffiVars
  <2>3. Handled'
    BY <2>1, <2>2 DEF Handled, Cleared
  <2> QED BY <1>12, <2>1, <2>3
<1>15. CASE Finalize
  <2>1. /\ UNCHANGED <<ffiVars, tracked, py, listed, todo>> /\ todo = {}
        /\ phase = "endpoints" /\ phase' = "finalizing" /\ pc[Main] = "idle"
    BY <1>15 DEF Finalize, Free
  <2>2. UNCHANGED <<g_registry, subs, pc>>
    BY <2>1 DEF ffiVars
  <2>3. Handled'
    BY <2>1, <2>2 DEF Handled, Cleared
  <2> QED BY <1>12, <2>1, <2>3
<1>16. ASSUME NEW o \in todo, ExitNode(o) \/ ExitEndpoint(o) PROVE PythonInv'
  <2>1. phase \in {"nodes", "endpoints"} /\ todo' = todo \ {o}
    BY <1>16 DEF ExitNode, ExitEndpoint, Handle
  <2>2. CASE o \in tracked
    BY <1>0, <1>11, <1>16, <2>1, <2>2 DEF ExitNode, ExitEndpoint, Handle
  <2>3. CASE o \notin tracked
    <3>1. UNCHANGED <<ffiVars, tracked, py, phase, listed>>
      BY <1>16, <2>3 DEF ExitNode, ExitEndpoint, Handle
    <3>2. UNCHANGED <<g_registry, subs>> /\ Cleared(o)
      BY <2>3, <3>1 DEF ffiVars, Untracked
    <3>3. Handled'
      BY <2>1, <3>1, <3>2 DEF Handled, Cleared
    <3> QED BY <1>12, <2>1, <3>1, <3>3 DEF PythonTypeOK
  <2> QED BY <2>2, <2>3
<1>17. CASE UNCHANGED vars
  <2>1. UNCHANGED <<ffiVars, tracked, py, phase, listed, todo>>
    BY <1>17 DEF vars, pythonVars, exitVars
  <2>2. Handled'
    BY <2>1 DEF ffiVars, registryVars, threadVars, Handled, Cleared
  <2> QED BY <1>12, <2>1, <2>2 DEF PythonTypeOK
<1>18. ASSUME NEW t \in Users, phase # "finalizing",
              ContextStep(t) \/ Configure(t) \/ BeginCreate(t)
       PROVE  PythonInv'
  BY <1>6, <1>18 DEF ContextStep, Configure, BeginCreate
<1>19. ASSUME NEW t, NEW n, Method(t, n) \/ Spin(t, n) \/ FfiStep(t) \/ OnceReturns(t),
              phase # "finalizing"
       PROVE  PythonInv'
  BY <1>6, <1>19 DEF Method, Spin, FfiStep, OnceReturns
<1> HIDE DEF PythonInv
<1> QED
  BY <1>8, <1>9, <1>10, <1>11, <1>13, <1>14, <1>15, <1>16, <1>17, <1>18, <1>19
     DEF Next, UserStep, Destroy

-----------------------------------------------------------------------------
(* Theorems.                                                               *)

\* The inductive invariant is an invariant of a process that uses the bindings.
THEOREM Invariance == Spec => []IInv
<1>1. Init => IInv
  BY RegistryInvInit, ContextInvInit, PythonInvInit DEF Init, IInv
<1>2. IInv /\ [Next]_vars => IInv'
  <2>1. ASSUME IInv, [Next]_vars PROVE RegistryInv'
    <3>1. [RegistryStep]_ffiVars
      BY <2>1, NextRegistry DEF IInv, PythonInv
    <3> QED BY <2>1, <3>1, RegistryInvStep DEF IInv
  <2> QED BY <2>1, ContextInvStep, PythonInvStep DEF IInv
<1> QED BY <1>1, <1>2, PTL DEF Spec

\* The variables have their types, the handles a thread works on included.
THEOREM TypeCorrect == Spec => [](RegistryTypeOK /\ ContextTypeOK /\ PythonTypeOK)
<1>1. IInv => RegistryTypeOK /\ ContextTypeOK /\ PythonTypeOK
  BY DEF IInv, RegistryInv, ContextInv, PythonInv
<1> QED BY Invariance, <1>1, PTL

\* After sub_destroy has set closed at most one more callback begins.
THEOREM AtMostOneLate == Spec => []OneLateCallback
<1>1. IInv => OneLateCallback
  BY DEF IInv, RegistryInv, LateOnce, OneLateCallback
<1> QED BY Invariance, <1>1, PTL

\* The registry and the nodes agree about the entities.
THEOREM RegistryAgrees == Spec => []EntitiesAreKnown
<1>1. IInv => EntitiesAreKnown
  BY DEF IInv, RegistryInv
<1> QED BY Invariance, <1>1, PTL

\* A spin of a destroyed node has been told to end, or is about to be.
THEOREM DestroyReachesSpin == Spec => []DestroyEndsSpin
<1>1. IInv => DestroyEndsSpin
  BY DEF IInv, RegistryInv
<1> QED BY Invariance, <1>1, PTL

\* Participants are made as the last init_dds asked for, unless it came while another
\* thread was constructing the context.
THEOREM OverridesUsed == Spec => []OverridesAreUsed
<1>1. ContextInv => OverridesAreUsed
  <2> SUFFICES ASSUME ContextInv, ~unseen, NEW p \in participant
               PROVE
        /\ p.domain_id = IF g_cfg.domain_id >= 0 THEN g_cfg.domain_id ELSE env_domain_id
        /\ p.config # << >> =>
             p.config[Len(p.config)] = IF Uri THEN "uri"
                                       ELSE IF g_cfg.config_xml # << >> THEN g_cfg.config_xml[1]
                                       ELSE "localhost"
        /\ g_cfg.config_xml # << >> \/ Uri \/ LocalhostOnly => p.config # << >>
    BY DEF OverridesAreUsed
  <2>1. g_ctx = ContextOf(g_cfg) /\ p = Participant
    BY DEF ContextInv, OneConstructor, Current, FromContext, ContextTypeOK
  <2> DEFINE x == g_cfg.config_xml[1]
             own == IF Uri THEN <<"uri">> ELSE << >>
  <2>2. p.domain_id = IF g_cfg.domain_id >= 0 THEN g_cfg.domain_id ELSE env_domain_id
    BY <2>1 DEF Participant, ContextOf
  <2>3. p.config = default_config_xml \o g_cfg.config_xml \o own
    BY <2>1 DEF Participant, DomainConfig, ContextOf
  <2>4. default_config_xml = IF LocalhostOnly /\ ~Uri THEN <<"localhost">> ELSE << >>
    BY DEF default_config_xml
  <2>5. CASE g_cfg.config_xml = << >>
    BY <2>2, <2>3, <2>4, <2>5
  <2>6. CASE g_cfg.config_xml = <<x>>
    <3>1. g_cfg.config_xml # << >>
      BY <2>6
    <3> HIDE DEF x
    <3>2. CASE Uri
      BY <2>2, <2>3, <2>4, <2>6, <3>1, <3>2
    <3>3. CASE ~Uri
      <4>1. p.config = IF LocalhostOnly THEN <<"localhost", x>> ELSE <<x>>
        BY <2>3, <2>4, <2>6, <3>3
      <4>2. p.config # << >> /\ p.config[Len(p.config)] = x
        BY <4>1
      <4> QED BY <2>2, <3>1, <3>3, <4>2 DEF x
    <3> QED BY <3>2, <3>3
  <2> QED BY <2>5, <2>6 DEF ContextInv, ContextTypeOK
<1> QED BY Invariance, <1>1, PTL DEF IInv

\* When the exit handlers are through, what is left of a node or a subscription that
\* they could list undisturbed is held by another thread.
THEOREM NoCallbackLeft == Spec => []CallbacksGone
<1>1. RegistryInv /\ PythonInv => CallbacksGone
  <2> SUFFICES ASSUME RegistryInv, PythonInv, phase = "finalizing", NEW o \in listed
               PROVE
        LET n == o.node
            held == \E t \in Threads \ {Main} : node[t] = n
        IN  IF IsNode(o) THEN subs[n] \cup entities[n] \cup attached[n] # {} => held
            ELSE o.handle \in subs[n] \cup entities[n] =>
                 \/ n \notin g_registry /\ held
                 \/ \E t \in Threads \ {Main} : pc[t] \in InSubDestroy /\ sub[t] = o.handle
    BY DEF CallbacksGone
  <2> DEFINE n == o.node
  <2>1. n \in Handles /\ Cleared(o) /\ pc[Main] = "idle"
    BY DEF PythonInv, PythonTypeOK, Handled, Objects
  <2> HIDE DEF n
  <2>2. ASSUME n \notin g_registry, Held(n) # {}
        PROVE  \E t \in Threads \ {Main} : node[t] = n
    <3>1. PICK t \in Threads : pc[t] # "idle" /\ node[t] = n
      BY <2>1, <2>2 DEF RegistryInv, Backed
    <3> QED BY <2>1, <3>1
  <2>3. CASE n \notin g_registry
    <3>1. o.handle \in subs[n] \cup entities[n] => Held(n) # {}
      BY DEF Held
    <3>2. subs[n] \cup entities[n] \cup attached[n] = Held(n)
      BY DEF Held
    <3> QED BY <2>2, <2>3, <3>1, <3>2 DEF n
  <2>4. CASE n \in g_registry
    <3>1. ~IsNode(o) /\ o.handle \notin subs[n]
      BY <2>1, <2>4 DEF Cleared, n
    <3>2. entities[n] = subs[n] \cup Going(n)
      BY <2>1, <2>4 DEF RegistryInv, EntitiesAreKnown, HasEntry
    <3>3. ASSUME o.handle \in entities[n]
          PROVE  \E t \in Threads \ {Main} : pc[t] \in InSubDestroy /\ sub[t] = o.handle
      <4>1. o.handle \in Going(n)
        BY <3>1, <3>2, <3>3
      <4> QED BY <2>1, <4>1 DEF Going, InSubDestroy
    <3> QED BY <3>1, <3>3 DEF n
  <2> QED BY <2>3, <2>4
<1> QED BY Invariance, <1>1, PTL DEF IInv
===============================================================================

------------------------------- MODULE Executor -------------------------------
(***************************************************************************)
(* rcl::Executor (executor.cpp) together with the part of rcl::Node it     *)
(* depends on (node.cpp: the entity list, its epoch and the change guard). *)
(*                                                                         *)
(* One thread, the spinner, runs spin(), spin_once() or spin_some().  The  *)
(* user threads call add_node, remove_node, add_entity, remove_entity and  *)
(* cancel; a call made inside a callback is a user call made while the     *)
(* spinner is dispatching.  A step is what happens between two points at   *)
(* which another thread can be seen: a critical section of entities_mtx_   *)
(* is one step, a critical section of nodes_mtx_ is several, because       *)
(* reconcile_locked takes entities_mtx_ twice per node inside it.          *)
(*                                                                         *)
(* A node stands for the condition of its change guard and an entity for   *)
(* its read condition; both are level triggered, as DDS conditions are.    *)
(***************************************************************************)
EXTENDS Integers, FiniteSets

CONSTANTS
    Nodes,        \* rcl::Node objects
    Entities,     \* subscriptions, services and clients
    Owner,        \* the node each entity was created on
    Users,        \* threads calling the API
    MaxTriggers,  \* MAX_TRIGGERS, 64 in the code
    Batch,        \* samples one dds_takecdr call returns, 16 in the code
    MaxFailures,  \* bound: DDS calls that return an error
    Serial,       \* the API (but cancel) is called on the spinner's thread only
    MaxCalls,     \* bound: API calls made by the users
    MaxData       \* bound: unread samples of an entity

Spinner == "spinner"
NoThread == "none"
CancelGuard == "cancel_guard"
WakeGuard == "wake_guard"
Conds == Nodes \cup Entities
Nothing == "nothing"
NoEpoch == -1     \* node_epochs_ has no entry

ASSUME ConstantsAssumption ==
    /\ Owner \in [Entities -> Nodes]
    /\ Nodes \cap Entities = {}
    /\ {Nothing, CancelGuard, WakeGuard} \cap Conds = {}
    /\ {Spinner, NoThread} \cap Users = {}
    /\ MaxTriggers \in Nat \ {0}
    /\ Batch \in Nat \ {0}
    /\ MaxFailures \in Nat
    /\ Serial \in BOOLEAN
    /\ MaxCalls \in Nat
    /\ MaxData \in Nat

VARIABLES
    entities,   \* [Nodes -> SUBSET Entities], Node::entities_
    epoch,      \* [Nodes -> Nat], Node::entity_epoch_
    guard,      \* [Nodes -> BOOLEAN], Node::change_guard_
    data,       \* [Entities -> Nat], unread samples in the entity's reader
    nodes,      \* nodes_
    known,      \* node_epochs_
    attached,   \* attached_, which mirrors the waitset: {[id, cond]}
    nextId,     \* next_attach_id_
    cancelGuard, wakeGuard, cancelRequested,
    lock,       \* the thread holding nodes_mtx_
    rpc,        \* progress of reconcile_locked in the thread holding the lock
    todo,       \* nodes reconcile_locked, or the final absorb loop, has left
    desired,    \* desired; from the attach loop on, what it still has to attach
    snapped,    \* the node whose entities() were read but not yet its epoch
    spc,        \* where the spinner is
    mode,       \* which spin function it runs
    triggered,  \* triggered[i..n), with the condition that fired (a ghost)
    cur,        \* the local `entity`
    didWork,
    upc, uarg,  \* where each user is, and the node it works on
    calls,      \* number of API calls made
    fails,      \* number of DDS calls that failed
    cancels, ends, \* ghosts: calls of cancel(), returns of spin()
    owed        \* ghost: entities ready when spin_some() was called

nodeVars == <<entities, epoch, guard, data>>
attachVars == <<nodes, known, attached, nextId>>
guardVars == <<cancelGuard, wakeGuard, cancelRequested>>
reconVars == <<lock, rpc, todo, desired, snapped>>
spinVars == <<spc, mode, triggered, cur, didWork>>
userVars == <<upc, uarg, calls>>
ghosts == <<fails, cancels, ends, owed>>
vars == <<nodeVars, attachVars, guardVars, reconVars, spinVars, userVars, ghosts>>

AttachedConds == {a.cond : a \in attached}
NodeOf(c) == IF c \in Nodes THEN c ELSE Owner[c]

\* A new executor.  Nodes may have entities already, which left their change guards
\* triggered; epochs count from here, since they are only compared for equality.
Init ==
    /\ entities \in [Nodes -> SUBSET Entities] /\ epoch = [n \in Nodes |-> 0]
    /\ \A n \in Nodes : \A e \in entities[n] : Owner[e] = n
    /\ guard = [n \in Nodes |-> entities[n] # {}] /\ data = [e \in Entities |-> 0]
    /\ nodes = {} /\ known = [n \in Nodes |-> NoEpoch]
    /\ attached = {} /\ nextId = 2
    /\ cancelGuard = FALSE /\ wakeGuard = FALSE /\ cancelRequested = FALSE
    /\ lock = NoThread /\ rpc = "none" /\ todo = {} /\ desired = {}
    /\ snapped = Nothing
    /\ spc = "idle" /\ mode = "none" /\ triggered = {} /\ cur = Nothing
    /\ didWork = FALSE
    /\ upc = [u \in Users |-> "idle"] /\ uarg = [u \in Users |-> Nothing]
    /\ calls = 0 /\ fails = 0 /\ cancels = 0 /\ ends = 0 /\ owed = {}

\* A DDS call returns an error.
Fail == fails < MaxFailures /\ fails' = fails + 1

-----------------------------------------------------------------------------
(* Calls of the users.                                                     *)

InCall == \E u \in Users : upc[u] \notin {"idle", "cancel"}

Call(u, pc) ==
    /\ upc[u] = "idle" /\ upc' = [upc EXCEPT ![u] = pc]
    /\ calls < MaxCalls /\ calls' = calls + 1

Return(u) == upc' = [upc EXCEPT ![u] = "idle"] /\ UNCHANGED calls

\* With Serial set, calls nest in the spinner's own control flow.
OnAllowedThread == Serial => spc \in {"idle", "dispatch"} /\ ~InCall

\* Node::add_entity and Node::remove_entity up to the unlock.
ChangeEntities(u, n, es) ==
    /\ Call(u, "trigger") /\ OnAllowedThread
    /\ entities' = [entities EXCEPT ![n] = es]
    /\ epoch' = [epoch EXCEPT ![n] = @ + 1]
    /\ uarg' = [uarg EXCEPT ![u] = n]
    /\ UNCHANGED <<guard, data, attachVars, guardVars, reconVars, spinVars, ghosts>>

AddEntity(u, e) ==
    /\ e \notin entities[Owner[e]]
    /\ ChangeEntities(u, Owner[e], entities[Owner[e]] \cup {e})

RemoveEntity(u, e) == ChangeEntities(u, Owner[e], entities[Owner[e]] \ {e})

\* change_guard_->trigger(), the second half of both.
TriggerChange(u) ==
    /\ upc[u] = "trigger" /\ Return(u)
    /\ guard' = [guard EXCEPT ![uarg[u]] = TRUE]
    /\ uarg' = [uarg EXCEPT ![u] = Nothing]
    /\ UNCHANGED <<entities, epoch, data, attachVars, guardVars, reconVars,
                   spinVars, ghosts>>

StartReconcile(t, ns) ==
    /\ lock = NoThread /\ lock' = t
    /\ rpc' = "entities" /\ todo' = ns /\ desired' = {}
    /\ UNCHANGED snapped

AddNode(u, n) ==
    /\ Call(u, "adding") /\ OnAllowedThread
    /\ nodes' = nodes \cup {n}
    /\ known' = IF n \in nodes THEN known ELSE [known EXCEPT ![n] = NoEpoch]
    /\ StartReconcile(u, nodes \cup {n})
    /\ UNCHANGED <<nodeVars, attached, nextId, guardVars, spinVars, uarg, ghosts>>

RemoveNode(u, n) ==
    /\ Call(u, "removing") /\ OnAllowedThread
    /\ nodes' = nodes \ {n}
    /\ known' = [known EXCEPT ![n] = NoEpoch]
    /\ StartReconcile(u, nodes \ {n})
    /\ UNCHANGED <<nodeVars, attached, nextId, guardVars, spinVars, uarg, ghosts>>

\* wake_guard_.trigger() of add_node, after the unlock.
TriggerWake(u) ==
    /\ upc[u] = "wake" /\ Return(u)
    /\ wakeGuard' = TRUE
    /\ UNCHANGED <<nodeVars, attachVars, cancelGuard, cancelRequested, reconVars,
                   spinVars, uarg, ghosts>>

Cancel(u) ==
    /\ Call(u, "cancel")
    /\ cancelRequested' = TRUE
    /\ cancels' = cancels + 1
    /\ UNCHANGED <<nodeVars, attachVars, cancelGuard, wakeGuard, reconVars,
                   spinVars, uarg, fails, ends, owed>>

TriggerCancelMutant(u) ==
    /\ upc[u] = "cancel" /\ Return(u)
    /\ UNCHANGED <<nodeVars, attachVars, guardVars, reconVars, spinVars, uarg,
                   ghosts>>

TriggerCancel(u) ==
    /\ upc[u] = "cancel" /\ Return(u)
    /\ cancelGuard' = TRUE
    /\ UNCHANGED <<nodeVars, attachVars, wakeGuard, cancelRequested, reconVars,
                   spinVars, uarg, ghosts>>

-----------------------------------------------------------------------------
(* reconcile_locked, run by whichever thread holds nodes_mtx_.             *)

\* node->entities(): one critical section of entities_mtx_.
SnapEntities(n) ==
    /\ rpc = "entities" /\ rpc' = "epoch"
    /\ n \in todo
    /\ desired' = desired \cup {n} \cup entities[n]
    /\ snapped' = n
    /\ UNCHANGED <<nodeVars, attachVars, guardVars, lock, todo, spinVars, userVars,
                   ghosts>>

\* node->entity_epoch(): another one.
SnapEpoch ==
    /\ rpc = "epoch" /\ rpc' = "entities"
    /\ known' = [known EXCEPT ![snapped] = epoch[snapped]]
    /\ todo' = todo \ {snapped}
    /\ snapped' = Nothing
    /\ UNCHANGED <<nodeVars, nodes, attached, nextId, guardVars, lock, desired,
                   spinVars, userVars, ghosts>>

\* The attachments reconcile_locked leaves alone, and the conditions it attaches.
KeptMutant == attached
Kept == {a \in attached : a.cond \in desired}
ToAttach == desired \ AttachedConds

\* Nothing can be seen of the waitset between two detaches: a wait that
\* returns meanwhile looks its ids up only after the lock is released.
DetachStale ==
    /\ rpc = "entities" /\ rpc' = "attach"
    /\ todo = {}
    /\ attached' = Kept
    /\ desired' = ToAttach
    /\ owed' = {e \in owed : e \in AttachedConds => e \in desired}
    /\ UNCHANGED <<nodeVars, nodes, known, nextId, guardVars, lock, todo, snapped,
                   spinVars, userVars, fails, cancels, ends>>

\* ++next_attach_id_: 1 and 2 are the executor's own guards.
FreshIdMutant == CHOOSE i \in 3..nextId + 1 : \A a \in attached : a.id # i
FreshId == nextId + 1

\* dds_waitset_attach succeeds, or fails and the condition is skipped; the id
\* is used up either way.
AttachOne(c) ==
    /\ rpc = "attach"
    /\ c \in desired /\ desired' = desired \ {c}
    /\ nextId' = FreshId
    /\ \/ /\ attached' = attached \cup {[id |-> FreshId, cond |-> c]}
          /\ UNCHANGED fails
       \/ Fail /\ UNCHANGED attached
    /\ UNCHANGED <<nodeVars, nodes, known, guardVars, lock, rpc, todo, snapped,
                   spinVars, userVars, cancels, ends, owed>>

\* Return of reconcile_locked and what its caller does under the lock.
FinishReconcile ==
    /\ rpc = "attach" /\ rpc' = "none"
    /\ desired = {}
    /\ lock' = NoThread
    /\ \/ lock = Spinner /\ spc' = "wait" /\ UNCHANGED <<upc, wakeGuard>>
       \/ /\ lock \in Users /\ upc[lock] = "adding"
          /\ upc' = [upc EXCEPT ![lock] = "wake"]
          /\ UNCHANGED <<spc, wakeGuard>>
       \/ /\ lock \in Users /\ upc[lock] = "removing"
          /\ upc' = [upc EXCEPT ![lock] = "idle"]
          /\ wakeGuard' = TRUE
          /\ UNCHANGED spc
    /\ UNCHANGED <<nodeVars, attachVars, cancelGuard, cancelRequested, todo,
                   desired, snapped, mode, triggered, cur, didWork, uarg, calls,
                   ghosts>>

-----------------------------------------------------------------------------
(* The spinner.                                                            *)

SpinnerAt(pc) == spc = pc /\ (Serial => ~InCall)

SpinReturns == spc' = "idle" /\ mode' = "none"

SpinStart ==
    /\ SpinnerAt("idle") /\ spc' = "loop" /\ mode' = "spin"
    /\ cancelRequested' = FALSE
    /\ UNCHANGED <<nodeVars, attachVars, cancelGuard, wakeGuard, reconVars,
                   triggered, cur, didWork, userVars, ghosts>>

\* spin_once(timeout) with a negative ("once") or another ("timed") timeout.
SpinOnce ==
    /\ SpinnerAt("idle") /\ spc' = "check" /\ mode' \in {"once", "timed"}
    /\ UNCHANGED <<nodeVars, attachVars, guardVars, reconVars, triggered, cur,
                   didWork, userVars, ghosts>>

SpinSome ==
    /\ SpinnerAt("idle") /\ spc' = "check" /\ mode' = "some"
    /\ owed' = {e \in Entities : e \in AttachedConds /\ data[e] > 0}
    /\ UNCHANGED <<nodeVars, attachVars, guardVars, reconVars, triggered, cur,
                   didWork, userVars, fails, cancels, ends>>

\* while (!cancel_requested_.load())
SpinLoop ==
    /\ SpinnerAt("loop")
    /\ \/ cancelRequested /\ SpinReturns /\ ends' = ends + 1
       \/ ~cancelRequested /\ spc' = "check" /\ UNCHANGED <<mode, ends>>
    /\ UNCHANGED <<nodeVars, attachVars, guardVars, reconVars, triggered, cur,
                   didWork, userVars, fails, cancels, owed>>

\* The first critical section of wait_and_process.  Epochs only grow, so
\* reading them one by one finds them all current only if they were when the
\* first was read: the comparison is one step.
ChangedMutant == attached = {} /\ nodes # {}
Changed ==
    \/ attached = {} /\ nodes # {}
    \/ \E n \in nodes : known[n] # epoch[n]

CheckEpochs ==
    /\ SpinnerAt("check")
    /\ lock = NoThread
    /\ \/ Changed /\ StartReconcile(Spinner, nodes) /\ spc' = "reconcile"
       \/ ~Changed /\ spc' = "wait" /\ UNCHANGED reconVars
    /\ UNCHANGED <<nodeVars, attachVars, guardVars, mode, triggered, cur, didWork,
                   userVars, ghosts>>

Ready ==
    {a \in attached : IF a.cond \in Nodes THEN guard[a.cond] ELSE data[a.cond] > 0}
    \cup {t \in {[id |-> 1, cond |-> CancelGuard]} : cancelGuard}
    \cup {t \in {[id |-> 2, cond |-> WakeGuard]} : wakeGuard}

TriggerLimitMutant == 1
TriggerLimit == MaxTriggers

\* dds_waitset_wait reports up to MAX_TRIGGERS of the ready conditions.
WaitReturns ==
    /\ SpinnerAt("wait") /\ spc' = "process"
    /\ Ready # {}
    /\ triggered' \in SUBSET Ready
    /\ IF Cardinality(Ready) <= TriggerLimit
         THEN triggered' = Ready
         ELSE Cardinality(triggered') = TriggerLimit
    /\ UNCHANGED <<nodeVars, attachVars, guardVars, reconVars, mode, cur, didWork,
                   userVars, ghosts>>

\* Nothing ready at the deadline (n == 0), or the wait fails and throws.
WaitGivesUp ==
    /\ SpinnerAt("wait") /\ SpinReturns
    /\ \/ Ready = {} /\ mode \in {"timed", "some"} /\ UNCHANGED fails
       \/ Fail
    /\ owed' = {}
    /\ UNCHANGED <<nodeVars, attachVars, guardVars, reconVars, triggered, cur,
                   didWork, userVars, cancels, ends>>

TakeCancelKeepingGuard(t) ==
    /\ SpinnerAt("process")
    /\ t.id = 1 /\ triggered' = triggered \ {t}
    /\ cancelRequested' = TRUE
    /\ UNCHANGED <<nodeVars, attachVars, cancelGuard, wakeGuard, reconVars, spc,
                   mode, cur, didWork, userVars, ghosts>>

TakeCancel(t) ==
    /\ SpinnerAt("process")
    /\ t.id = 1 /\ triggered' = triggered \ {t}
    /\ cancelGuard' = FALSE
    /\ cancelRequested' = TRUE
    /\ UNCHANGED <<nodeVars, attachVars, wakeGuard, reconVars, spc, mode, cur,
                   didWork, userVars, ghosts>>

TakeWake(t) ==
    /\ SpinnerAt("process")
    /\ t.id = 2 /\ triggered' = triggered \ {t}
    /\ wakeGuard' = FALSE
    /\ UNCHANGED <<nodeVars, attachVars, cancelGuard, cancelRequested, reconVars,
                   spc, mode, cur, didWork, userVars, ghosts>>

\* attached_.find(id): the attachment of an entity to dispatch, if any.  A change
\* guard has none (entity is null), nor has an attachment that is gone.
FoundUnchecked(t) == {a \in {t} : a.cond \in Entities}
FoundShifted(t) == {a \in attached : a.id = t.id + 1 /\ a.cond \in Entities}
Found(t) == {a \in attached : a.id = t.id /\ a.cond \in Entities}

Lookup(t) ==
    /\ SpinnerAt("process")
    /\ lock = NoThread
    /\ t.id > 2 /\ triggered' = triggered \ {t}
    /\ \/ \E a \in Found(t) : cur' = a.cond /\ spc' = "dispatch"
       \/ Found(t) = {} /\ UNCHANGED <<cur, spc>>
    /\ UNCHANGED <<nodeVars, attachVars, guardVars, reconVars, mode, didWork,
                   userVars, ghosts>>

\* What one dds_takecdr leaves in a reader holding n samples.
Left(n) == IF n > Batch THEN n - Batch ELSE 0

\* One round of Reader::take's loop in entity->dispatch(): a full batch goes
\* round again.  An exception ends the dispatch and is caught.
Dispatch ==
    /\ SpinnerAt("dispatch")
    /\ \/ /\ data' = [data EXCEPT ![cur] = Left(@)]
          /\ IF data[cur] >= Batch THEN UNCHANGED <<spc, cur>>
                                   ELSE spc' = "process" /\ cur' = Nothing
          /\ UNCHANGED fails
       \/ Fail /\ spc' = "process" /\ cur' = Nothing /\ UNCHANGED data
    /\ owed' = IF spc' = "process" THEN owed \ {cur} ELSE owed
    /\ didWork' = TRUE
    /\ UNCHANGED <<entities, epoch, guard, attachVars, guardVars, reconVars, mode,
                   triggered, userVars, cancels, ends>>

\* Absorb node change guards: take() them one by one under the lock.
StartAbsorb ==
    /\ SpinnerAt("process") /\ spc' = "absorb"
    /\ triggered = {}
    /\ lock = NoThread /\ lock' = Spinner
    /\ todo' = nodes
    /\ UNCHANGED <<nodeVars, attachVars, guardVars, rpc, desired, snapped, mode,
                   triggered, cur, didWork, userVars, ghosts>>

Absorb(n) ==
    /\ SpinnerAt("absorb")
    /\ n \in todo /\ todo' = todo \ {n}
    /\ guard' = [guard EXCEPT ![n] = FALSE]
    /\ UNCHANGED <<entities, epoch, data, attachVars, guardVars, lock, rpc, desired,
                   snapped, spinVars, userVars, ghosts>>

\* Return of wait_and_process to spin, spin_once or spin_some.
FinishAbsorb ==
    /\ SpinnerAt("absorb")
    /\ todo = {}
    /\ lock' = NoThread
    /\ \/ mode = "spin" /\ spc' = "loop" /\ UNCHANGED <<mode, owed>>
       \/ mode = "some" /\ didWork /\ spc' = "check" /\ UNCHANGED <<mode, owed>>
       \/ mode = "some" /\ ~didWork /\ SpinReturns /\ owed' = {}
       \/ mode \in {"once", "timed"} /\ SpinReturns /\ UNCHANGED owed
    /\ didWork' = FALSE
    /\ UNCHANGED <<nodeVars, attachVars, guardVars, rpc, todo, desired, snapped,
                   triggered, cur, userVars, fails, cancels, ends>>

\* A sample reaches the entity's reader.
Arrive(e) ==
    /\ data[e] < MaxData
    /\ data' = [data EXCEPT ![e] = @ + 1]
    /\ UNCHANGED <<entities, epoch, guard, attachVars, guardVars, reconVars,
                   spinVars, userVars, ghosts>>

-----------------------------------------------------------------------------
Reconcile ==
    \/ \E n \in Nodes : SnapEntities(n)
    \/ SnapEpoch
    \/ DetachStale
    \/ \E c \in Conds : AttachOne(c)
    \/ FinishReconcile

WaitAndProcess ==
    \/ CheckEpochs \/ WaitReturns \/ WaitGivesUp
    \/ \E t \in triggered : TakeCancel(t) \/ TakeWake(t) \/ Lookup(t)
    \/ Dispatch
    \/ StartAbsorb \/ \E n \in Nodes : Absorb(n)
    \/ FinishAbsorb

NewCall(u) ==
    \/ \E e \in Entities : AddEntity(u, e) \/ RemoveEntity(u, e)
    \/ \E n \in Nodes : AddNode(u, n) \/ RemoveNode(u, n)
    \/ Cancel(u)

Completion(u) == TriggerChange(u) \/ TriggerWake(u) \/ TriggerCancel(u)

Next ==
    \/ \E u \in Users : NewCall(u) \/ Completion(u)
    \/ Reconcile
    \/ SpinStart \/ SpinOnce \/ SpinSome
    \/ SpinLoop
    \/ WaitAndProcess
    \/ \E e \in Entities : Arrive(e)

Spec == Init /\ [][Next]_vars

\* Threads that are inside a function of the library keep running.  Nothing
\* is assumed of callers: no call need ever be made.
FairSpec ==
    /\ Spec
    /\ WF_vars(Reconcile)
    /\ WF_vars(SpinLoop \/ WaitAndProcess)
    /\ \A u \in Users : WF_vars(Completion(u))

-----------------------------------------------------------------------------
(* Properties.                                                             *)

\* Every variable stays in the set its declaration names.
TypeOK ==
    /\ entities \in [Nodes -> SUBSET Entities]
    /\ epoch \in [Nodes -> Nat]
    /\ guard \in [Nodes -> BOOLEAN]
    /\ data \in [Entities -> Nat]
    /\ nodes \in SUBSET Nodes
    /\ known \in [Nodes -> Nat \cup {NoEpoch}]
    /\ attached \in SUBSET [id : Nat, cond : Conds]
    /\ nextId \in Nat
    /\ cancelGuard \in BOOLEAN /\ wakeGuard \in BOOLEAN
    /\ cancelRequested \in BOOLEAN
    /\ lock \in Users \cup {Spinner, NoThread}
    /\ rpc \in {"none", "entities", "epoch", "attach"}
    /\ todo \in SUBSET Nodes
    /\ desired \in SUBSET Conds
    /\ snapped \in Nodes \cup {Nothing}
    /\ spc \in {"idle", "loop", "check", "reconcile", "wait", "process",
                "dispatch", "absorb"}
    /\ mode \in {"none", "spin", "once", "timed", "some"}
    /\ triggered \in SUBSET [id : Nat, cond : Conds \cup {CancelGuard, WakeGuard}]
    /\ cur \in Entities \cup {Nothing}
    /\ didWork \in BOOLEAN
    /\ upc \in [Users -> {"idle", "trigger", "adding", "removing", "wake", "cancel"}]
    /\ uarg \in [Users -> Nodes \cup {Nothing}]
    /\ calls \in Nat /\ fails \in Nat /\ cancels \in Nat /\ ends \in Nat
    /\ owed \in SUBSET Entities

\* An id the waitset reported still names the condition that fired, or nothing:
\* between the wait and attached_.find(id) other threads may detach and attach,
\* but they never hand the id to something else (the ids of reconcile_locked).
StaleIdsAreDead ==
    \A t \in triggered, a \in attached : a.id = t.id => a.cond = t.cond

\* reconcile_locked attaches a condition under one id only, so a ready entity
\* is reported, and dispatched, once per wait.
AttachedOnce ==
    \A a, b \in attached : a.cond = b.cond \/ a.id = b.id => a = b

\* A spinner blocked in dds_waitset_wait has not missed an entity change: the
\* node's change guard is up and attached, or the thread that made the change is
\* about to raise it, or a reconcile under way has yet to read the epoch.  This
\* is why add_entity bumps the epoch before the trigger and wait_and_process
\* takes the guards before it compares epochs.
ChangeIsNoticed ==
    spc = "wait" /\ fails = 0 =>
        \A n \in nodes : known[n] # epoch[n] =>
            \/ guard[n] /\ (lock = NoThread => n \in AttachedConds)
            \/ \E u \in Users : upc[u] = "trigger" /\ uarg[u] = n
            \/ lock # NoThread /\ n \in todo

\* While no reconcile is under way, only entities and guards of nodes in nodes_
\* are attached: once remove_node has returned the node is out of the waitset.
AttachedAreOfNodes ==
    lock = NoThread => \A a \in attached : NodeOf(a.cond) \in nodes

\* wait_and_process never starts dispatching an entity of a node that was
\* removed, even when the wait reported it before remove_node ran.
RemovedNodesStaySilent ==
    [][spc # "dispatch" /\ spc' = "dispatch" => Owner[cur'] \in nodes]_vars

\* spin() never blocks on a cancel(): when the flag is up and the spinner waits,
\* the cancel guard is up too or about to be.
CancelIsNotLost ==
    mode = "spin" /\ spc = "wait" /\ cancelRequested =>
        cancelGuard \/ \E u \in Users : upc[u] = "cancel"

\* One cancel() makes at most two calls of spin() return: the flag ends one,
\* the guard it left raised may end the next.
CancelEndsAtMostTwo == ends <= 2 * cancels

\* "the attachment set is reconciled": a spinner that waits with nothing ready,
\* while nobody is inside the library, waits on exactly the entities of its nodes.
QuiescentIsCurrent ==
    spc = "wait" /\ fails = 0 /\ Ready = {} /\ (\A u \in Users : upc[u] = "idle") =>
        \A e \in Entities :
            Owner[e] \in nodes => (e \in AttachedConds <=> e \in entities[Owner[e]])

\* "Process everything currently ready without waiting": an entity that was
\* attached and ready when spin_some() was called has been dispatched, or was
\* detached meanwhile, when spin_some() returns (no DDS call failing).
SpinSomeDrains ==
    [][mode = "some" /\ mode' = "none" /\ fails' = 0 => owed = {}]_vars

\* Every dispatch ends: no writer refills a reader for ever as fast as
\* Reader::take empties it.  Without it the loop on full batches keeps the thread.
DispatchEnds == []<>(spc # "dispatch")

\* cancel() stops a running spin(): one that has seen the flag rise, and one that
\* cleared the flag when it started but finds the guard raised.
CancelStopsSpin ==
    DispatchEnds =>
        (mode = "spin" /\ (cancelRequested \/ cancelGuard) ~> mode = "none")

\* While spin() runs, data on an attached entity is taken, full batches and more
\* ready conditions than a wait reports included.
DataIsHandled ==
    DispatchEnds =>
        \A e \in Entities :
            mode = "spin" /\ e \in AttachedConds /\ data[e] > 0
                ~> mode # "spin" \/ e \notin AttachedConds \/ data[e] = 0

\* While spin() runs, an entity created on one of its nodes gets attached.
EntityIsAttached ==
    DispatchEnds =>
        \A e \in Entities :
            mode = "spin" /\ Owner[e] \in nodes /\ e \in entities[Owner[e]]
                ~> \/ mode # "spin" \/ e \in AttachedConds
                   \/ Owner[e] \notin nodes \/ e \notin entities[Owner[e]]
===============================================================================

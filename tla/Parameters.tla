----------------------------- MODULE Parameters -----------------------------
(***************************************************************************)
(* The parameters of one node (parameter.cpp, Node::params).               *)
(*                                                                         *)
(* Application threads call declare, set and get; executor threads run the *)
(* callbacks of the six parameter services for remote requests.  The core  *)
(* (ParameterCore::Impl) is created by the first application call, under   *)
(* params_mtx_, and registers its services one after the other: a request  *)
(* may be served before the core is complete.  Cores are numbered in the   *)
(* order of their creation; a service's callback captures its core.        *)
(*                                                                         *)
(* Values are stored and their event published under mtx_, but             *)
(* set_parameters and set_parameters_atomically take mtx_ once for each    *)
(* parameter.  publish() throws when the write fails; the value stays.     *)
(***************************************************************************)
EXTENDS Naturals, Sequences, FiniteSets

CONSTANTS
    Names, EmptyName, Values, NotSet, Undeclared,
    Users,          \* application threads
    Handlers,       \* executor threads dispatching the node's services
    NoThread,       \* the owner of a free mutex
    Requests,       \* parameter lists of remote set requests
    MaxCalls,       \* bound: calls and requests
    MaxFailures,    \* bound: publish() calls that throw
    MaxBroken,      \* bound: constructions of a core that throw
    Droppable       \* whether the last reference to the node may be dropped

ASSUME StoreAssumption == NotSet \notin Values /\ Undeclared \notin Values \cup {NotSet}
ASSUME ThreadAssumption ==
    Users \cap Handlers = {} /\ NoThread \notin Users \cup Handlers
Settable == Values \cup {NotSet}
Assignments == [name : Names, value : Settable]
ASSUME RequestAssumption == Requests \subseteq Seq(Assignments)
ASSUME BoundAssumption ==
    /\ MaxCalls \in Nat /\ MaxFailures \in Nat /\ MaxBroken \in Nat
    /\ Droppable \in BOOLEAN

Threads == Users \cup Handlers
Services == <<"describe_parameters", "get_parameter_types", "get_parameters",
              "list_parameters", "set_parameters", "set_parameters_atomically">>
Kinds == {Services[i] : i \in DOMAIN Services}
UserOps == {"declare", "set", "get"}

VARIABLES
    values,         \* values_
    events,         \* samples written to /parameter_events
    mtx,            \* owner of ParameterCore::Impl::mtx_
    paramsMtx,      \* owner of Node::params_mtx_
    params,         \* Node::params_: the number of the core, or 0
    cores,          \* cores created so far
    services,       \* registered services: [kind, core]
    pc,             \* where each thread is
    job,            \* what it is doing
    calls,          \* calls and requests so far
    failures,       \* publish() calls that threw so far
    broken,         \* core constructions that threw so far
    dropped         \* the node is gone

storeVars == <<values, events, mtx>>
coreVars == <<paramsMtx, params, cores, services, broken, dropped>>
vars == <<storeVars, coreVars, pc, job, calls, failures>>

(* A job: the operation, the assignments left, the core it works on, what  *)
(* set() returned for each assignment made, the last assignment with the   *)
(* value it replaced, and, for set_parameters_atomically, whether all the  *)
(* names were found declared.                                              *)
NoLast == [name |-> EmptyName, value |-> NotSet, old |-> Undeclared]
Job(op, todo, core) ==
    [op |-> op, todo |-> todo, core |-> core, results |-> << >>,
     last |-> NoLast, accepted |-> FALSE]
NoJob == Job("get", << >>, 0)

Init ==
    /\ values = [n \in Names |-> Undeclared]
    /\ events = << >>
    /\ mtx = NoThread /\ paramsMtx = NoThread
    /\ params = 0 /\ cores = 0 /\ services = {}
    /\ pc = [t \in Threads |-> "idle"]
    /\ job = [t \in Threads |-> NoJob]
    /\ calls = 0 /\ failures = 0 /\ broken = 0 /\ dropped = FALSE

Goto(t, label) == pc' = [pc EXCEPT ![t] = label]

-----------------------------------------------------------------------------
(* Node::params(): find or create the core.                                *)

\* An application thread calls one of Node's parameter operations.
Call(u, op, a) ==
    /\ pc[u] = "idle" /\ ~dropped /\ Goto(u, "params")
    /\ calls < MaxCalls /\ calls' = calls + 1
    /\ job' = [job EXCEPT ![u] = Job(op, <<a>>, 0)]
    /\ UNCHANGED <<storeVars, coreVars, failures>>

\* params_ is already set.
FindCore(u) ==
    /\ pc[u] = "params" /\ Goto(u, "enter")
    /\ paramsMtx = NoThread /\ params # 0
    /\ job' = [job EXCEPT ![u].core = params]
    /\ UNCHANGED <<storeVars, coreVars, calls, failures>>

\* A core is made once: params_ is checked under params_mtx_.
CanCreate == paramsMtx = NoThread /\ params = 0

\* Start a core: the events publisher is made first.
CreateCore(u) ==
    /\ pc[u] = "params" /\ Goto(u, "build")
    /\ CanCreate
    /\ paramsMtx' = u
    /\ cores' = cores + 1
    /\ job' = [job EXCEPT ![u].core = cores + 1]
    /\ UNCHANGED <<storeVars, params, services, broken, dropped, calls, failures>>

Built(u) == Cardinality({s \in services : s.core = job[u].core})

\* node.add_entity(...) for the next service.
Register(u) ==
    /\ pc[u] = "build"
    /\ Built(u) < Len(Services)
    /\ services' = services \cup
           {[kind |-> Services[Built(u) + 1], core |-> job[u].core]}
    /\ UNCHANGED <<storeVars, paramsMtx, params, cores, broken, dropped, pc, job, calls,
                   failures>>

\* The node keeps the complete core in params_, so that it outlives this call.
KeptCoreMutant(u) == params
KeptCore(u) == job[u].core

\* params_ = the complete core.
Publicise(u) ==
    /\ pc[u] = "build" /\ Goto(u, "enter")
    /\ Built(u) = Len(Services)
    /\ params' = KeptCore(u)
    /\ paramsMtx' = NoThread
    /\ UNCHANGED <<storeVars, cores, services, broken, dropped, job, calls, failures>>

\* The publisher or a service cannot be made: the core is destroyed and the call
\* throws.  Services registered before stay with the node.
CreateFails(u) ==
    /\ pc[u] = "build" /\ Goto(u, "idle")
    /\ broken < MaxBroken /\ broken' = broken + 1
    /\ Built(u) < Len(Services)
    /\ paramsMtx' = NoThread
    /\ job' = [job EXCEPT ![u] = NoJob]
    /\ UNCHANGED <<storeVars, params, cores, services, dropped, calls, failures>>

\* The last reference to the node goes: no application thread is inside it.
DropNode ==
    /\ Droppable /\ params # 0
    /\ \A u \in Users : pc[u] = "idle"
    /\ params' = 0 /\ services' = {} /\ dropped' = TRUE
    /\ UNCHANGED <<storeVars, paramsMtx, cores, broken, pc, job, calls, failures>>

-----------------------------------------------------------------------------
(* Operations under mtx_.                                                  *)

Now(t) == Head(job[t].todo)

\* lock_guard: a thread enters when the mutex is free.
LocksMutant(t) == TRUE
Locks(t) == mtx = NoThread

Declarable(n) == n # EmptyName /\ values[n] = Undeclared

\* An application thread's call ends with its one assignment; a service callback
\* goes on to the next.
Back(t) == IF t \in Users THEN "idle" ELSE "enter"
Settled(t, j) == IF t \in Users THEN NoJob ELSE j

\* The job after assignment a: what set() returned for it and what it replaced.
Assigned(t, a, result) ==
    [job[t] EXCEPT !.todo = Tail(@), !.results = Append(@, result),
                   !.last = [name |-> a.name, value |-> a.value,
                             old |-> values[a.name]]]

\* The value kept for an assignment.
Kept(a) == a.value

\* Every value but NotSet is announced.
Announced(a) == a.value # NotSet

\* values_[name] = value; the mutex is kept for the event, if there is one.
Store(t, a) ==
    /\ values' = [values EXCEPT ![a.name] = Kept(a)]
    /\ IF Announced(a)
       THEN /\ mtx' = t /\ Goto(t, "publish")
            /\ job' = [job EXCEPT ![t] = Assigned(t, a, TRUE)]
       ELSE /\ mtx' = mtx /\ Goto(t, Back(t))
            /\ job' = [job EXCEPT ![t] = Settled(t, Assigned(t, a, TRUE))]

\* declare() of a new name.
Declare(u) ==
    /\ pc[u] = "enter" /\ job[u].op = "declare"
    /\ Locks(u)
    /\ Declarable(Now(u).name)
    /\ Store(u, Now(u))
    /\ UNCHANGED <<events, coreVars, calls, failures>>

\* An empty name, or a name declared before: throw.
DeclareThrows(u) ==
    /\ pc[u] = "enter" /\ job[u].op = "declare" /\ Goto(u, "idle")
    /\ Now(u).name = EmptyName \/ (Locks(u) /\ ~Declarable(Now(u).name))
    /\ job' = [job EXCEPT ![u] = NoJob]
    /\ UNCHANGED <<storeVars, coreVars, calls, failures>>

\* get() and get_or(): a value, or an exception or an empty optional.
Get(u) ==
    /\ pc[u] = "enter" /\ job[u].op = "get" /\ Goto(u, "idle")
    /\ Locks(u)
    /\ job' = [job EXCEPT ![u] = NoJob]
    /\ UNCHANGED <<storeVars, coreVars, calls, failures>>

SetOps == {"set", "set_parameters", "set_parameters_atomically"}

\* The next assignment of set(), handle_set() or an accepted
\* handle_set_atomically() may start.
MaySet(t) ==
    /\ pc[t] = "enter" /\ job[t].op \in SetOps
    /\ job[t].op = "set_parameters_atomically" => job[t].accepted
    /\ job[t].todo # << >>
    /\ Locks(t)

\* set() of a declared parameter.
Set(t) ==
    /\ MaySet(t)
    /\ values[Now(t).name] # Undeclared
    /\ Store(t, Now(t))
    /\ UNCHANGED <<events, coreVars, calls, failures>>

\* set() of an undeclared one returns false.
SetRejects(t) ==
    /\ MaySet(t)
    /\ values[Now(t).name] = Undeclared
    /\ Goto(t, Back(t))
    /\ job' = [job EXCEPT ![t] = Settled(t, Assigned(t, Now(t), FALSE))]
    /\ UNCHANGED <<storeVars, coreVars, calls, failures>>

\* A parameter is new to the observers if it had no value.
IsNewMutant(old) == old = Undeclared
IsNew(old) == old \notin Values

Event(l) == [name |-> l.name, value |-> l.value, new |-> IsNew(l.old)]

\* publish_event_locked() and the release of mtx_.
Publish(t) ==
    /\ pc[t] = "publish" /\ Goto(t, Back(t))
    /\ events' = Append(events, Event(job[t].last))
    /\ mtx' = NoThread
    /\ job' = [job EXCEPT ![t] = Settled(t, job[t])]
    /\ UNCHANGED <<values, coreVars, calls, failures>>

\* publish() throws: out of the call, or out of the service callback, whose
\* exception Service::dispatch catches without replying.
PublishFails(t) ==
    /\ pc[t] = "publish" /\ Goto(t, "idle")
    /\ failures < MaxFailures /\ failures' = failures + 1
    /\ mtx' = NoThread
    /\ job' = [job EXCEPT ![t] = NoJob]
    /\ UNCHANGED <<values, events, coreVars, calls>>

-----------------------------------------------------------------------------
(* The service callbacks, called by Service::dispatch.                     *)

\* A request reaches one of the set services.
Serve(h, s, todo) ==
    /\ pc[h] = "idle" /\ Goto(h, "enter")
    /\ s.kind \in SetOps
    /\ calls < MaxCalls /\ calls' = calls + 1
    /\ job' = [job EXCEPT ![h] = Job(s.kind, todo, s.core)]
    /\ UNCHANGED <<storeVars, coreVars, failures>>

\* handle_describe, handle_get_types, handle_get, handle_list: one look at
\* values_ under mtx_, then the reply.
ServeRead(h, s) ==
    /\ pc[h] = "idle" /\ Goto(h, "enter")
    /\ s.kind \notin SetOps
    /\ calls < MaxCalls /\ calls' = calls + 1
    /\ Locks(h)
    /\ job' = [job EXCEPT ![h] = Job(s.kind, << >>, s.core)]
    /\ UNCHANGED <<storeVars, coreVars, failures>>

AllDeclaredMutant(todo) == values[todo[1].name] # Undeclared
AllDeclared(todo) == \A i \in DOMAIN todo : values[todo[i].name] # Undeclared

Checking(h) ==
    /\ pc[h] = "enter" /\ job[h].op = "set_parameters_atomically"
    /\ ~job[h].accepted /\ job[h].results = << >>
    /\ Locks(h)

\* handle_set_atomically looks all names up under mtx_ and releases it.
Accept(h) ==
    /\ Checking(h) /\ AllDeclared(job[h].todo)
    /\ job' = [job EXCEPT ![h].accepted = TRUE]
    /\ UNCHANGED <<storeVars, coreVars, pc, calls, failures>>

\* ... or replies that some are not declared.
Refuse(h) ==
    /\ Checking(h) /\ ~AllDeclared(job[h].todo) /\ Goto(h, "idle")
    /\ job' = [job EXCEPT ![h] = NoJob]
    /\ UNCHANGED <<storeVars, coreVars, calls, failures>>

\* All assignments made: the reply.
Reply(h) ==
    /\ pc[h] = "enter" /\ job[h].todo = << >> /\ Goto(h, "idle")
    /\ job[h].op = "set_parameters_atomically" => job[h].accepted
    /\ job' = [job EXCEPT ![h] = NoJob]
    /\ UNCHANGED <<storeVars, coreVars, calls, failures>>

-----------------------------------------------------------------------------
UserStep(u) ==
    \/ \E op \in UserOps, a \in Assignments : Call(u, op, a)
    \/ FindCore(u) \/ CreateCore(u) \/ Register(u) \/ Publicise(u) \/ CreateFails(u)
    \/ Declare(u) \/ DeclareThrows(u) \/ Get(u)

HandlerStep(h) ==
    \/ \E s \in services : ServeRead(h, s) \/ \E r \in Requests : Serve(h, s, r)
    \/ Accept(h) \/ Refuse(h) \/ Reply(h)

Next ==
    \/ \E u \in Users : UserStep(u)
    \/ \E h \in Handlers : HandlerStep(h)
    \/ \E t \in Threads : Set(t) \/ SetRejects(t) \/ Publish(t) \/ PublishFails(t)
    \/ DropNode

Spec == Init /\ [][Next]_vars

-----------------------------------------------------------------------------
(* Types.                                                                  *)

Labels == {"idle", "params", "build", "enter", "publish"}
Jobs ==
    [op : UserOps \cup Kinds, todo : Seq(Assignments),
     core : Nat, results : Seq(BOOLEAN), accepted : BOOLEAN,
     last : [name : Names \cup {EmptyName}, value : Settable,
             old : Settable \cup {Undeclared}]]

\* The variables have their types, and there is an assignment to make, or an
\* event to publish, wherever the code goes on to make or publish one.
TypeOK ==
    /\ values \in [Names -> Settable \cup {Undeclared}]
    /\ events \in Seq([name : Names, value : Values, new : BOOLEAN])
    /\ mtx \in Threads \cup {NoThread} /\ paramsMtx \in Users \cup {NoThread}
    /\ params \in Nat /\ cores \in Nat
    /\ services \subseteq [kind : Kinds, core : Nat]
    /\ pc \in [Threads -> Labels]
    /\ job \in [Threads -> Jobs]
    /\ calls \in Nat /\ failures \in Nat /\ broken \in Nat /\ dropped \in BOOLEAN

-----------------------------------------------------------------------------
(* Properties.                                                             *)

\* What a replay of /parameter_events shows for name n.
Shown(n, v) ==
    \E i \in DOMAIN events :
        /\ events[i].name = n /\ events[i].value = v
        /\ \A j \in DOMAIN events : j > i => events[j].name # n

\* The last event of a parameter that has a value carries that value: concurrent
\* set() calls store and publish in the same order (set, publish_event_locked).
EventsFollowValues ==
    mtx = NoThread /\ failures = 0 =>
        \A n \in Names : values[n] \in Values => Shown(n, values[n])

\* A declared parameter stays declared, so that handle_set_atomically may check
\* all names first and set them later without holding mtx_.
DeclaredStays ==
    [][\A n \in Names : values[n] # Undeclared => values'[n] # Undeclared]_vars

\* No set() of an accepted handle_set_atomically() fails: its reply, which does not
\* look at what they return, is true.
AcceptedMeansSet ==
    \A h \in Handlers :
        job[h].accepted => \A i \in DOMAIN job[h].results : job[h].results[i]

\* The core numbered c exists.
Alive(c) == c = params \/ \E u \in Users : pc[u] = "build" /\ job[u].core = c

\* A service callback works on a core that exists (it captures a plain pointer), also
\* when several threads use parameters for the first time together, as long as no
\* construction failed and the node is there.
HandlersHaveCore ==
    broken = 0 /\ ~dropped =>
        \A h \in Handlers : pc[h] # "idle" => Alive(job[h].core)

\* "an executor mid-dispatch stays safe": the same without the proviso.
DispatchStaysSafe == \A h \in Handlers : pc[h] # "idle" => Alive(job[h].core)

-----------------------------------------------------------------------------
(* Refinement.                                                             *)

\* Until its event is out, an assignment has not happened.
ValuesBefore ==
    [n \in Names |->
        IF \E t \in Threads : pc[t] = "publish" /\ job[t].last.name = n
        THEN job[mtx].last.old
        ELSE values[n]]

Promise == INSTANCE ParameterStore WITH values <- ValuesBefore

\* declare() and set(), two steps under mtx_, are each one step of the store.
ImplementsStore == Promise!Spec
=============================================================================

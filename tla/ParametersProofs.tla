--------------------------- MODULE ParametersProofs ---------------------------
(***************************************************************************)
(* Theorems about Parameters, for any names, values, threads and requests: *)
(* it implements ParameterStore, declared parameters stay declared, an     *)
(* accepted set_parameters_atomically makes all its assignments, the last  *)
(* event of a parameter carries its value, and service callbacks find      *)
(* their core.                                                             *)
(***************************************************************************)
EXTENDS Parameters, FiniteSetTheorems, TLAPS

USE DEF storeVars, coreVars

-----------------------------------------------------------------------------
(* Jobs.                                                                   *)

\* The six services.
LEMMA ServicesAre ==
    /\ Len(Services) = 6 /\ DOMAIN Services = 1..6
    /\ \A i \in 1..6 : Services[i] \in Kinds
  BY DEF Services, Kinds

\* A new job is a job.
LEMMA JobType ==
    ASSUME NEW op \in UserOps \cup Kinds, NEW todo \in Seq(Assignments),
           NEW core \in Nat
    PROVE  /\ Job(op, todo, core) \in Jobs
           /\ Job(op, todo, core).todo = todo /\ ~Job(op, todo, core).accepted
  BY DEF Job, Jobs, NoLast, Settable

\* A thread without a job has accepted nothing.
LEMMA NoJobType == NoJob \in Jobs /\ ~NoJob.accepted
<1>1. "get" \in UserOps /\ << >> \in Seq(Assignments)
  BY DEF UserOps
<1> QED BY <1>1, JobType DEF NoJob

\* What an assignment makes of a thread's job.
LEMMA AssignedType ==
    ASSUME TypeOK, NEW t \in Threads, job[t].todo # << >>, NEW r \in BOOLEAN
    PROVE  LET a == Now(t)
               j == Assigned(t, a, r)
           IN  /\ a \in Assignments /\ j \in Jobs
               /\ j.todo = Tail(job[t].todo) /\ j.results = Append(job[t].results, r)
               /\ j.last = [name |-> a.name, value |-> a.value, old |-> values[a.name]]
               /\ j.accepted = job[t].accepted /\ j.op = job[t].op
<1> DEFINE a == Now(t)
<1>1. job[t] \in Jobs
  BY DEF TypeOK
<1>2. job[t].todo \in Seq(Assignments) /\ job[t].results \in Seq(BOOLEAN)
  BY <1>1 DEF Jobs
<1>3. a \in Assignments /\ Tail(job[t].todo) \in Seq(Assignments)
  BY <1>2 DEF Now
<1>4. /\ a.name \in Names /\ a.value \in Settable
      /\ values[a.name] \in Settable \cup {Undeclared}
  BY <1>3 DEF Assignments, TypeOK
<1>5. Append(job[t].results, r) \in Seq(BOOLEAN)
  BY <1>2
<1> QED BY <1>1, <1>3, <1>4, <1>5 DEF Assigned, Jobs

-----------------------------------------------------------------------------
(* The inductive invariant.                                                *)

\* A thread that has a call to make has its assignment.
Work ==
    \A u \in Users : pc[u] \in {"params", "build", "enter"} => job[u].todo # << >>

\* mtx_ is held between two steps exactly while an event is published.
Locked ==
    /\ mtx # NoThread => pc[mtx] = "publish"
    /\ \A t \in Threads : pc[t] = "publish" => mtx = t

\* The event to be published is that of the value just stored, which was declared
\* before or is being declared.
Pending ==
    \A t \in Threads : pc[t] = "publish" =>
        LET l == job[t].last IN
        /\ l.name \in Names /\ l.value \in Values /\ values[l.name] = l.value
        /\ l.old \in Settable \cup {Undeclared}
        /\ l.old = Undeclared => l.name # EmptyName

\* The assignments of an accepted request are to declared parameters, and none has
\* been refused.
Checked ==
    \A h \in Handlers : job[h].accepted =>
        /\ \A i \in DOMAIN job[h].todo : values[job[h].todo[i].name] # Undeclared
        /\ \A i \in DOMAIN job[h].results : job[h].results[i]

\* While no write failed, the last event of a parameter carries its value, unless that
\* event is about to be published.
Quiet(n) == \A t \in Threads : pc[t] = "publish" => job[t].last.name # n
Told ==
    failures = 0 =>
        \A n \in Names : values[n] \in Values /\ Quiet(n) => Shown(n, values[n])

\* One thread builds a core, under params_mtx_ and only while there is none; services and
\* the handlers they started have their core while nothing failed and the node is there.
OneBuilder ==
    \A u \in Users : pc[u] = "build" => paramsMtx = u /\ params = 0 /\ job[u].core # 0
Served ==
    broken = 0 /\ ~dropped =>
        /\ \A s \in services : s.core # 0 /\ Alive(s.core)
        /\ \A h \in Handlers : pc[h] # "idle" => job[h].core # 0 /\ Alive(job[h].core)

IInv ==
    /\ TypeOK /\ IsFiniteSet(services) /\ Work /\ Locked /\ Pending /\ Checked
    /\ Told /\ OneBuilder /\ Served

\* The inductive invariant holds of a new node.
LEMMA IInvInit == Init => IInv
<1> SUFFICES ASSUME Init PROVE IInv
  OBVIOUS
<1> USE NoJobType
<1>1. TypeOK
  <2>1. dropped \in BOOLEAN
    BY Zenon DEF Init
  <2>2. events \in Seq([name : Names, value : Values, new : BOOLEAN])
    BY DEF Init
  <2> QED BY <2>1, <2>2 DEF Init, TypeOK, Labels, Settable
<1>2. IsFiniteSet(services)
  BY FS_EmptySet DEF Init
<1>3. Work /\ Locked /\ Pending /\ Checked
  BY DEF Init, Work, Locked, Pending, Checked, Threads
<1>4. Told /\ OneBuilder /\ Served
  BY StoreAssumption DEF Init, Told, OneBuilder, Served, Threads
<1> QED BY <1>1, <1>2, <1>3, <1>4 DEF IInv

-----------------------------------------------------------------------------
(* Storing a value.                                                        *)

\* Store keeps the types; the thread is left with the event to publish, or done.
LEMMA StoreType ==
    ASSUME TypeOK, NEW t \in Threads, job[t].todo # << >>, Store(t, Now(t))
    PROVE  /\ values' \in [Names -> Settable \cup {Undeclared}]
           /\ mtx' \in Threads \cup {NoThread}
           /\ pc' \in [Threads -> Labels] /\ job' \in [Threads -> Jobs]
<1> DEFINE a == Now(t)
<1>1. a \in Assignments /\ Assigned(t, a, TRUE) \in Jobs
  BY AssignedType
<1>2. values' \in [Names -> Settable \cup {Undeclared}]
  BY <1>1 DEF Store, Kept, Assignments, TypeOK
<1>3. Settled(t, Assigned(t, a, TRUE)) \in Jobs
  BY <1>1, NoJobType DEF Settled
<1>4. Back(t) \in Labels /\ "publish" \in Labels
  BY DEF Back, Labels
<1>5. CASE Announced(a)
  BY <1>1, <1>2, <1>4, <1>5 DEF Store, Goto, TypeOK
<1>6. CASE ~Announced(a)
  BY <1>2, <1>3, <1>4, <1>6 DEF Store, Goto, TypeOK
<1> QED BY <1>5, <1>6

\* Every step keeps the types.
LEMMA TypeNext ==
    TypeOK /\ IsFiniteSet(services) /\ Work /\ Pending /\ [Next]_vars
        => TypeOK' /\ IsFiniteSet(services')
<1> SUFFICES ASSUME TypeOK, IsFiniteSet(services), Work, Pending, [Next]_vars
             PROVE  TypeOK' /\ IsFiniteSet(services')
  OBVIOUS
<1> DEFINE Typed == TypeOK' /\ IsFiniteSet(services')
<1> USE NoJobType
<1>1. ASSUME NEW u \in Users, NEW op \in UserOps, NEW a \in Assignments, Call(u, op, a)
      PROVE  Typed
  <2>1. <<a>> \in Seq(Assignments) /\ 0 \in Nat
    OBVIOUS
  <2>2. Job(op, <<a>>, 0) \in Jobs
    BY <2>1, JobType
  <2> QED BY <1>1, <2>2 DEF Call, Goto, TypeOK, Labels, Threads
<1>2. ASSUME NEW u \in Users, FindCore(u) PROVE Typed
  <2>1. [job[u] EXCEPT !.core = params] \in Jobs
    BY DEF TypeOK, Threads, Jobs
  <2> QED BY <1>2, <2>1 DEF FindCore, Goto, TypeOK, Labels, Threads
<1>3. ASSUME NEW u \in Users, CreateCore(u) PROVE Typed
  <2>1. job[u] \in Jobs /\ cores + 1 \in Nat
    BY DEF TypeOK, Threads
  <2>2. [job[u] EXCEPT !.core = cores + 1] \in Jobs
    BY <2>1 DEF Jobs
  <2> QED BY <1>3, <2>1, <2>2 DEF CreateCore, Goto, TypeOK, Labels, Threads
<1>4. ASSUME NEW u \in Users, Register(u) PROVE Typed
  <2>1. Built(u) \in Nat
    <3>1. IsFiniteSet({s \in services : s.core = job[u].core})
      BY FS_Subset
    <3> QED BY <3>1, FS_CardinalityType DEF Built
  <2>2. Built(u) + 1 \in 1..6
    BY <1>4, <2>1, ServicesAre DEF Register
  <2>3. Services[Built(u) + 1] \in Kinds
    BY <2>2, ServicesAre
  <2>4. job[u].core \in Nat
    BY DEF TypeOK, Threads, Jobs
  <2>5. services' \subseteq [kind : Kinds, core : Nat]
    BY <1>4, <2>3, <2>4 DEF Register, TypeOK
  <2>6. IsFiniteSet(services')
    BY <1>4, FS_AddElement DEF Register
  <2> QED BY <1>4, <2>5, <2>6 DEF Register, TypeOK
<1>5. ASSUME NEW u \in Users, Publicise(u) PROVE Typed
  <2>1. job[u].core \in Nat
    BY DEF TypeOK, Threads, Jobs
  <2> QED BY <1>5, <2>1 DEF Publicise, KeptCore, Goto, TypeOK, Labels, Threads
<1>6. ASSUME NEW u \in Users, CreateFails(u) PROVE Typed
  BY <1>6 DEF CreateFails, Goto, TypeOK, Labels, Threads
<1>7. ASSUME NEW u \in Users, Declare(u) PROVE Typed
  <2>1. job[u].todo # << >> /\ u \in Threads
    BY <1>7 DEF Declare, Work, Threads
  <2> QED BY <1>7, <2>1, StoreType DEF Declare, TypeOK
<1>8. ASSUME NEW u \in Users, DeclareThrows(u) \/ Get(u) PROVE Typed
  BY <1>8 DEF DeclareThrows, Get, Goto, TypeOK, Labels, Threads
<1>9. ASSUME NEW h \in Handlers, NEW s \in services, ServeRead(h, s) PROVE Typed
  <2>1. s.kind \in Kinds /\ s.core \in Nat
    BY DEF TypeOK
  <2>2. << >> \in Seq(Assignments)
    OBVIOUS
  <2>3. Job(s.kind, << >>, s.core) \in Jobs
    BY <2>1, <2>2, JobType
  <2> QED BY <1>9, <2>3 DEF ServeRead, Goto, TypeOK, Labels, Threads
<1>10. ASSUME NEW h \in Handlers, NEW s \in services, NEW r \in Requests, Serve(h, s, r)
       PROVE  Typed
  <2>1. s.kind \in Kinds /\ s.core \in Nat
    BY DEF TypeOK
  <2>2. Job(s.kind, r, s.core) \in Jobs
    BY <2>1, JobType, RequestAssumption
  <2> QED BY <1>10, <2>2 DEF Serve, Goto, TypeOK, Labels, Threads
<1>11. ASSUME NEW h \in Handlers, Accept(h) PROVE Typed
  <2>1. [job[h] EXCEPT !.accepted = TRUE] \in Jobs
    BY DEF TypeOK, Threads, Jobs
  <2> QED BY <1>11, <2>1 DEF Accept, TypeOK, Threads
<1>12. ASSUME NEW h \in Handlers, Refuse(h) \/ Reply(h) PROVE Typed
  BY <1>12 DEF Refuse, Reply, Goto, TypeOK, Labels, Threads
<1>13. ASSUME NEW t \in Threads, Set(t) PROVE Typed
  <2>1. job[t].todo # << >>
    BY <1>13 DEF Set, MaySet
  <2> QED BY <1>13, <2>1, StoreType DEF Set, TypeOK
<1>14. ASSUME NEW t \in Threads, SetRejects(t) PROVE Typed
  <2>1. job[t].todo # << >>
    BY <1>14 DEF SetRejects, MaySet
  <2>2. Settled(t, Assigned(t, Now(t), FALSE)) \in Jobs
    BY <2>1, AssignedType DEF Settled
  <2> QED BY <1>14, <2>2 DEF SetRejects, Goto, Back, TypeOK, Labels
<1>15. ASSUME NEW t \in Threads, Publish(t) PROVE Typed
  <2>1. Settled(t, job[t]) \in Jobs
    BY DEF Settled, TypeOK
  <2>2. Event(job[t].last) \in [name : Names, value : Values, new : BOOLEAN]
    BY <1>15 DEF Publish, Pending, Event, IsNew
  <2> QED BY <1>15, <2>1, <2>2 DEF Publish, Goto, Back, TypeOK, Labels
<1>16. ASSUME NEW t \in Threads, PublishFails(t) PROVE Typed
  BY <1>16 DEF PublishFails, Goto, TypeOK, Labels
<1>17. CASE DropNode
  <2>1. dropped' \in BOOLEAN
    BY <1>17, Zenon DEF DropNode
  <2> QED BY <1>17, <2>1, FS_EmptySet DEF DropNode, TypeOK
<1>18. CASE UNCHANGED vars
  BY <1>18 DEF vars, TypeOK
<1> QED
  BY <1>1, <1>2, <1>3, <1>4, <1>5, <1>6, <1>7, <1>8, <1>9, <1>10, <1>11, <1>12, <1>13,
     <1>14, <1>15, <1>16, <1>17, <1>18
     DEF Next, UserStep, HandlerStep

-----------------------------------------------------------------------------
(* The other parts of the invariant.                                       *)

\* Every step leaves a thread with a call to make its assignment.
LEMMA WorkNext == TypeOK /\ Work /\ [Next]_vars => Work'
<1> SUFFICES ASSUME TypeOK, Work, [Next]_vars PROVE Work'
  OBVIOUS
<1> USE DEF TypeOK, Work, Threads, Goto
<1>1. ASSUME NEW u \in Users, NEW op \in UserOps, NEW a \in Assignments, Call(u, op, a)
      PROVE  Work'
  <2>1. Job(op, <<a>>, 0).todo # << >>
    BY DEF Job
  <2> QED BY <1>1, <2>1 DEF Call
<1>2. ASSUME NEW u \in Users, FindCore(u) \/ CreateCore(u) PROVE Work'
  <2>1. job'[u].todo = job[u].todo /\ pc[u] = "params"
    BY <1>2 DEF FindCore, CreateCore, Jobs
  <2>2. \A v \in Users : v # u => job'[v] = job[v] /\ pc'[v] = pc[v]
    BY <1>2 DEF FindCore, CreateCore
  <2> QED BY <2>1, <2>2
<1>3. ASSUME NEW u \in Users, Register(u) PROVE Work'
  BY <1>3 DEF Register
<1>4. ASSUME NEW u \in Users, Publicise(u) PROVE Work'
  BY <1>4 DEF Publicise
<1>5. ASSUME NEW u \in Users, CreateFails(u) \/ DeclareThrows(u) \/ Get(u) PROVE Work'
  BY <1>5 DEF CreateFails, DeclareThrows, Get
<1>6. ASSUME NEW t \in Threads, Store(t, Now(t)) PROVE Work'
  <2>1. \A v \in Users : v # t => job'[v] = job[v] /\ pc'[v] = pc[v]
    BY <1>6 DEF Store
  <2>2. t \in Users => pc'[t] \in {"publish", "idle"}
    BY <1>6 DEF Store, Back
  <2> QED BY <2>1, <2>2
<1>7. ASSUME NEW t \in Threads, SetRejects(t) \/ Publish(t) \/ PublishFails(t)
      PROVE  Work'
  <2>1. \A v \in Users : v # t => job'[v] = job[v] /\ pc'[v] = pc[v]
    BY <1>7 DEF SetRejects, Publish, PublishFails
  <2>2. t \in Users => pc'[t] = "idle"
    BY <1>7 DEF SetRejects, Publish, PublishFails, Back
  <2> QED BY <2>1, <2>2
<1>8. ASSUME NEW h \in Handlers, HandlerStep(h) PROVE Work'
  <2>1. \A v \in Users : job'[v] = job[v] /\ pc'[v] = pc[v]
    BY <1>8, ThreadAssumption DEF HandlerStep, ServeRead, Serve, Accept, Refuse, Reply
  <2> QED BY <2>1
<1>9. ASSUME UNCHANGED <<pc, job>> PROVE Work'
  BY <1>9
<1> QED
  BY <1>1, <1>2, <1>3, <1>4, <1>5, <1>6, <1>7, <1>8, <1>9
     DEF Next, UserStep, Declare, Set, DropNode, vars

\* Every step keeps mtx_ with the thread that publishes.
LEMMA LockedNext == TypeOK /\ Locked /\ [Next]_vars => Locked'
<1> SUFFICES ASSUME TypeOK, Locked, [Next]_vars PROVE Locked'
  OBVIOUS
<1> USE ThreadAssumption DEF TypeOK, Locked, Threads, Goto
<1>1. ASSUME NEW t \in Threads, pc[t] # "publish", UNCHANGED mtx,
             \E l \in Labels : l # "publish" /\ pc' = [pc EXCEPT ![t] = l]
      PROVE  Locked'
  BY <1>1
<1>2. ASSUME NEW u \in Users, UserStep(u), ~Declare(u) PROVE Locked'
  <2>1. CASE UNCHANGED <<pc, mtx>>
    BY <2>1
  <2> QED BY <1>1, <1>2, <2>1
          DEF UserStep, Call, FindCore, CreateCore, Register, Publicise, CreateFails,
              DeclareThrows, Get, Labels
<1>3. ASSUME NEW h \in Handlers, HandlerStep(h) PROVE Locked'
  <2>1. CASE UNCHANGED <<pc, mtx>>
    BY <2>1
  <2> QED BY <1>1, <1>3, <2>1
          DEF HandlerStep, ServeRead, Serve, Accept, Refuse, Reply, Checking, Labels
<1>4. ASSUME NEW t \in Threads, Declare(t) \/ Set(t) PROVE Locked'
  <2>1. mtx = NoThread /\ pc[t] = "enter" /\ Store(t, Now(t))
    BY <1>4 DEF Declare, Set, MaySet, Locks
  <2>2. CASE Announced(Now(t))
    <3>1. mtx' = t /\ pc' = [pc EXCEPT ![t] = "publish"]
      BY <2>1, <2>2 DEF Store
    <3> QED BY <2>1, <3>1
  <2>3. CASE ~Announced(Now(t))
    <3>1. mtx' = mtx /\ pc' = [pc EXCEPT ![t] = Back(t)]
      BY <2>1, <2>3 DEF Store
    <3> QED BY <2>1, <3>1 DEF Back
  <2> QED BY <2>2, <2>3
<1>5. ASSUME NEW t \in Threads, SetRejects(t) PROVE Locked'
  BY <1>1, <1>5 DEF SetRejects, MaySet, Back, Labels
<1>6. ASSUME NEW t \in Threads, Publish(t) \/ PublishFails(t) PROVE Locked'
  BY <1>6 DEF Publish, PublishFails, Back
<1>7. ASSUME UNCHANGED <<pc, mtx>> PROVE Locked'
  BY <1>7
<1> QED
  BY <1>2, <1>3, <1>4, <1>5, <1>6, <1>7 DEF Next, DropNode, vars

\* What storing a value under mtx_ does, for Declare and Set alike.
LEMMA StoreStep ==
    ASSUME TypeOK, Work, NEW t \in Threads, (t \in Users /\ Declare(t)) \/ Set(t)
    PROVE  LET a == Now(t) IN
           /\ mtx = NoThread /\ pc[t] = "enter" /\ job[t].todo # << >>
           /\ a \in Assignments /\ values' = [values EXCEPT ![a.name] = a.value]
           /\ events' = events
           /\ values[a.name] = Undeclared => a.name # EmptyName /\ t \in Users
           /\ a.value # NotSet =>
                /\ mtx' = t /\ pc' = [pc EXCEPT ![t] = "publish"]
                /\ job' = [job EXCEPT ![t] = Assigned(t, a, TRUE)]
           /\ a.value = NotSet =>
                /\ mtx' = mtx /\ pc' = [pc EXCEPT ![t] = Back(t)]
                /\ job' = [job EXCEPT ![t] = Settled(t, Assigned(t, a, TRUE))]
<1>1. mtx = NoThread /\ pc[t] = "enter" /\ Store(t, Now(t)) /\ events' = events
  BY DEF Declare, Set, MaySet, Locks
<1>2. job[t].todo # << >>
  BY DEF Declare, Set, MaySet, Work
<1>3. Now(t) \in Assignments
  BY <1>2, AssignedType
<1>4. values[Now(t).name] = Undeclared => Now(t).name # EmptyName /\ t \in Users
  BY DEF Declare, Set, Declarable
<1> QED BY <1>1, <1>2, <1>3, <1>4 DEF Store, Kept, Announced, Goto

\* Every step leaves the stored value and its event together.
LEMMA PendingNext ==
    TypeOK /\ Work /\ Locked /\ Pending /\ [Next]_vars => Pending'
<1> SUFFICES ASSUME TypeOK, Work, Locked, Pending, [Next]_vars PROVE Pending'
  OBVIOUS
<1>1. ASSUME NEW t \in Threads, pc[t] # "publish", pc'[t] # "publish",
             UNCHANGED values,
             \A v \in Threads : v # t => pc'[v] = pc[v] /\ job'[v] = job[v]
      PROVE  Pending'
  BY <1>1 DEF Pending
<1>2. ASSUME NEW u \in Users, UserStep(u), ~Declare(u) PROVE Pending'
  BY <1>1, <1>2
     DEF UserStep, Call, FindCore, CreateCore, Register, Publicise, CreateFails,
         DeclareThrows, Get, Goto, Threads, TypeOK
<1>3. ASSUME NEW h \in Handlers, HandlerStep(h) PROVE Pending'
  BY <1>1, <1>3
     DEF HandlerStep, ServeRead, Serve, Accept, Refuse, Reply, Checking, Goto, Threads,
         TypeOK
<1>4. ASSUME NEW t \in Threads, (t \in Users /\ Declare(t)) \/ Set(t) PROVE Pending'
  <2> DEFINE a == Now(t)
  <2>1. mtx = NoThread /\ \A v \in Threads : pc[v] # "publish"
    BY <1>4, StoreStep, ThreadAssumption DEF Locked, Threads
  <2>2. \A v \in Threads : v # t => pc'[v] # "publish"
    BY <1>4, <2>1, StoreStep DEF TypeOK
  <2>3. CASE a.value = NotSet
    BY <1>4, <2>2, <2>3, StoreStep DEF Pending, Back, TypeOK
  <2>4. CASE a.value # NotSet
    <3>1. a \in Assignments /\ job[t].todo # << >>
      BY <1>4, StoreStep
    <3>2. job'[t].last = [name |-> a.name, value |-> a.value, old |-> values[a.name]]
      BY <1>4, <2>4, <3>1, StoreStep, AssignedType DEF TypeOK
    <3>3. a.name \in Names /\ a.value \in Values
      BY <2>4, <3>1 DEF Assignments, Settable
    <3>4. values'[a.name] = a.value
      <4>1. values' = [values EXCEPT ![a.name] = a.value]
        BY <1>4, StoreStep
      <4> QED BY <3>3, <4>1 DEF TypeOK
    <3>5. values[a.name] \in Settable \cup {Undeclared}
      BY <3>3 DEF TypeOK
    <3>6. values[a.name] = Undeclared => a.name # EmptyName
      BY <1>4, StoreStep
    <3> QED BY <2>2, <3>2, <3>3, <3>4, <3>5, <3>6 DEF Pending
  <2> QED BY <2>3, <2>4
<1>5. ASSUME NEW t \in Threads, SetRejects(t) PROVE Pending'
  BY <1>1, <1>5 DEF SetRejects, MaySet, Goto, Back, TypeOK
<1>6. ASSUME NEW t \in Threads, Publish(t) \/ PublishFails(t) PROVE Pending'
  <2>1. \A v \in Threads : pc'[v] # "publish"
    BY <1>6 DEF Publish, PublishFails, Goto, Back, Locked, TypeOK
  <2> QED BY <2>1 DEF Pending
<1>7. ASSUME UNCHANGED <<pc, job, values>> PROVE Pending'
  BY <1>7 DEF Pending
<1> QED
  BY <1>2, <1>3, <1>4, <1>5, <1>6, <1>7 DEF Next, DropNode, vars, Threads

\* No step takes a declaration back.
LEMMA DeclarationsStay ==
    ASSUME TypeOK, Work, [Next]_vars, NEW n \in Names, values[n] # Undeclared
    PROVE  values'[n] # Undeclared
<1>1. ASSUME NEW t \in Threads, (t \in Users /\ Declare(t)) \/ Set(t)
      PROVE  values'[n] # Undeclared
  <2>1. /\ Now(t) \in Assignments
        /\ values' = [values EXCEPT ![Now(t).name] = Now(t).value]
    BY <1>1, StoreStep
  <2>2. Now(t).value # Undeclared
    BY <2>1, StoreAssumption DEF Assignments, Settable
  <2> QED BY <2>1, <2>2 DEF TypeOK
<1>2. ASSUME UNCHANGED values PROVE values'[n] # Undeclared
  BY <1>2
<1> QED
  BY <1>1, <1>2
     DEF Next, UserStep, HandlerStep, Call, FindCore, CreateCore, Register, Publicise,
         CreateFails, DeclareThrows, Get, ServeRead, Serve, Accept, Refuse, Reply,
         SetRejects, Publish, PublishFails, DropNode, vars, Threads

\* Every step keeps what an accepted request relies on.
LEMMA CheckedNext == TypeOK /\ Work /\ Checked /\ [Next]_vars => Checked'
<1> SUFFICES ASSUME TypeOK, Work, Checked, [Next]_vars,
                    NEW h \in Handlers, job'[h].accepted
             PROVE  /\ \A i \in DOMAIN job'[h].todo :
                         values'[job'[h].todo[i].name] # Undeclared
                    /\ \A i \in DOMAIN job'[h].results : job'[h].results[i]
  BY DEF Checked
<1> DEFINE Good == /\ \A i \in DOMAIN job'[h].todo :
                        values'[job'[h].todo[i].name] # Undeclared
                   /\ \A i \in DOMAIN job'[h].results : job'[h].results[i]
<1>0. h \in Threads /\ h \notin Users /\ job[h] \in Jobs
      /\ job[h].todo \in Seq(Assignments) /\ job[h].results \in Seq(BOOLEAN)
  BY ThreadAssumption DEF Threads, TypeOK, Jobs
<1>1. \A i \in DOMAIN job[h].todo : job[h].todo[i].name \in Names
  <2>1. \A i \in DOMAIN job[h].todo : job[h].todo[i] \in Assignments
    BY <1>0
  <2> QED BY <2>1 DEF Assignments
<1>2. ASSUME job'[h] = job[h] PROVE Good
  BY <1>1, <1>2, DeclarationsStay DEF Checked
<1>4. ASSUME NEW u \in Users, UserStep(u) PROVE Good
  <2>1. job'[h] = job[h]
    BY <1>0, <1>4
       DEF UserStep, Call, FindCore, CreateCore, Register, Publicise, CreateFails,
           Declare, Store, DeclareThrows, Get, TypeOK
  <2> QED BY <2>1, <1>2
<1>5. ASSUME NEW g \in Handlers, HandlerStep(g) PROVE Good
  <2>1. CASE g # h
    <3>1. job'[h] = job[h]
      BY <1>0, <1>5, <2>1
         DEF HandlerStep, ServeRead, Serve, Accept, Refuse, Reply, TypeOK
    <3> QED BY <3>1, <1>2
  <2>2. CASE Accept(h)
    <3>1. /\ job'[h].todo = job[h].todo /\ job'[h].results = << >>
          /\ values' = values
      BY <1>0, <2>2 DEF Accept, Checking, TypeOK, Jobs
    <3> QED BY <2>2, <3>1 DEF Accept, AllDeclared
  <2>3. CASE Refuse(h) \/ Reply(h)
    BY <1>0, <2>3, NoJobType DEF Refuse, Reply, TypeOK
  <2>4. ASSUME NEW s \in services, ServeRead(h, s) PROVE Good
    BY <1>0, <2>4 DEF ServeRead, Job, TypeOK
  <2>5. ASSUME NEW s \in services, NEW r \in Requests, Serve(h, s, r) PROVE Good
    BY <1>0, <2>5 DEF Serve, Job, TypeOK
  <2> QED BY <1>5, <2>1, <2>2, <2>3, <2>4, <2>5 DEF HandlerStep
<1>6. ASSUME NEW t \in Threads, Set(t) PROVE Good
  <2>1. CASE t # h
    <3>1. job'[h] = job[h]
      BY <1>0, <1>6, <2>1 DEF Set, Store, TypeOK
    <3> QED BY <3>1, <1>2
  <2>2. CASE t = h
    <3>1. job[h].todo # << >> /\ job'[h] = Assigned(h, Now(h), TRUE)
      BY <1>0, <1>6, <2>2, StoreStep DEF Settled, TypeOK
    <3>2. /\ job'[h].todo = Tail(job[h].todo)
          /\ job'[h].results = Append(job[h].results, TRUE) /\ job[h].accepted
      BY <1>0, <3>1, AssignedType
    <3>3. \A i \in DOMAIN Tail(job[h].todo) :
             i + 1 \in DOMAIN job[h].todo /\ Tail(job[h].todo)[i] = job[h].todo[i + 1]
      BY <1>0, <3>1
    <3>4. \A i \in DOMAIN job'[h].todo : values'[job'[h].todo[i].name] # Undeclared
      <4> SUFFICES ASSUME NEW i \in DOMAIN job'[h].todo
                   PROVE  values'[job'[h].todo[i].name] # Undeclared
        OBVIOUS
      <4>1. i + 1 \in DOMAIN job[h].todo /\ job'[h].todo[i] = job[h].todo[i + 1]
        BY <3>2, <3>3
      <4>2. /\ job[h].todo[i + 1].name \in Names
            /\ values[job[h].todo[i + 1].name] # Undeclared
        BY <1>1, <3>2, <4>1 DEF Checked
      <4> QED BY <4>1, <4>2, DeclarationsStay
    <3>5. \A i \in DOMAIN job[h].results : job[h].results[i]
      BY <3>2 DEF Checked
    <3>6. \A i \in DOMAIN job'[h].results : job'[h].results[i]
      BY <1>0, <3>2, <3>5
    <3> QED BY <3>4, <3>6
  <2> QED BY <2>1, <2>2
<1>7. ASSUME NEW t \in Threads, SetRejects(t) PROVE Good
  <2>1. CASE t # h
    <3>1. job'[h] = job[h]
      BY <1>0, <1>7, <2>1 DEF SetRejects, TypeOK
    <3> QED BY <3>1, <1>2
  <2>2. CASE t = h
    <3>1. job[h].todo # << >> /\ job'[h] = Assigned(h, Now(h), FALSE)
      BY <1>0, <1>7, <2>2 DEF SetRejects, MaySet, Settled, TypeOK
    <3>2. job[h].accepted
      BY <1>0, <3>1, AssignedType
    <3>3. 1 \in DOMAIN job[h].todo /\ Now(h) = job[h].todo[1]
      BY <1>0, <3>1 DEF Now
    <3>4. values[Now(h).name] # Undeclared
      BY <3>2, <3>3 DEF Checked
    <3> QED BY <1>7, <2>2, <3>4 DEF SetRejects
  <2> QED BY <2>1, <2>2
<1>8. ASSUME NEW t \in Threads, Publish(t) \/ PublishFails(t) PROVE Good
  <2>1. job'[h] = job[h] \/ job'[h] = NoJob
    BY <1>0, <1>8 DEF Publish, PublishFails, Settled, TypeOK
  <2> QED BY <2>1, <1>2, NoJobType
<1> QED
  BY <1>2, <1>4, <1>5, <1>6, <1>7, <1>8 DEF Next, DropNode, vars

\* What a replay shows of a parameter changes with its own events only.
LEMMA ShownAppend ==
    ASSUME TypeOK, NEW e \in [name : Names, value : Values, new : BOOLEAN],
           events' = Append(events, e), NEW n \in Names, NEW v \in Values,
           \/ e.name = n /\ e.value = v
           \/ e.name # n /\ Shown(n, v)
    PROVE  Shown(n, v)'
<1> DEFINE k == Len(events) + 1
<1>1. events \in Seq([name : Names, value : Values, new : BOOLEAN])
  BY DEF TypeOK
<1>2. /\ DOMAIN events = 1..Len(events) /\ DOMAIN events' = 1..k /\ Len(events) \in Nat
      /\ events'[k] = e /\ \A i \in DOMAIN events : events'[i] = events[i]
  BY <1>1
<1> HIDE DEF k
<1>3. k \in DOMAIN events' /\ \A j \in DOMAIN events' : j = k \/ (j \in DOMAIN events /\ j < k)
  BY <1>2 DEF k
<1>4. CASE e.name = n /\ e.value = v
  <2>1. \A j \in DOMAIN events' : ~(j > k)
    BY <1>2 DEF k
  <2> QED BY <1>2, <1>3, <1>4, <2>1 DEF Shown
<1>5. CASE e.name # n /\ Shown(n, v)
  <2>1. PICK i \in DOMAIN events :
          /\ events[i].name = n /\ events[i].value = v
          /\ \A j \in DOMAIN events : j > i => events[j].name # n
    BY <1>5 DEF Shown
  <2>2. i \in DOMAIN events' /\ events'[i] = events[i]
    BY <1>2 DEF k
  <2>3. \A j \in DOMAIN events' : j > i => events'[j].name # n
    BY <1>2, <1>3, <1>5, <2>1
  <2> QED BY <2>1, <2>2, <2>3 DEF Shown
<1> QED BY <1>4, <1>5

\* Every step keeps values and events together: a value and its event are stored and
\* published under one lock.
LEMMA ToldNext == TypeOK /\ Work /\ Locked /\ Pending /\ Told /\ [Next]_vars => Told'
<1> SUFFICES ASSUME TypeOK, Work, Locked, Pending, Told, [Next]_vars PROVE Told'
  OBVIOUS
<1>1. ASSUME UNCHANGED <<values, events, failures>>,
             \A t \in Threads : pc[t] = "publish" => pc'[t] = "publish" /\ job'[t] = job[t]
      PROVE  Told'
  BY <1>1 DEF Told, Quiet, Shown
<1>2. ASSUME NEW u \in Users, UserStep(u), ~Declare(u) PROVE Told'
  BY <1>1, <1>2
     DEF UserStep, Call, FindCore, CreateCore, Register, Publicise, CreateFails,
         DeclareThrows, Get, Goto, Threads, TypeOK
<1>3. ASSUME NEW h \in Handlers, HandlerStep(h) PROVE Told'
  BY <1>1, <1>3
     DEF HandlerStep, ServeRead, Serve, Accept, Refuse, Reply, Checking, Goto, Threads,
         TypeOK
<1>4. ASSUME NEW t \in Threads, SetRejects(t) PROVE Told'
  BY <1>1, <1>4 DEF SetRejects, MaySet, Goto, TypeOK
<1>5. ASSUME NEW t \in Threads, (t \in Users /\ Declare(t)) \/ Set(t) PROVE Told'
  <2> DEFINE a == Now(t)
  <2>1. /\ mtx = NoThread /\ a \in Assignments /\ job[t].todo # << >>
        /\ values' = [values EXCEPT ![a.name] = a.value] /\ events' = events
    BY <1>5, StoreStep
  <2>2. a.name \in Names /\ a.value \in Settable /\ failures' = failures
    BY <1>5, <2>1 DEF Assignments, Declare, Set
  <2>3. \A n \in Names : Quiet(n)
    BY <2>1, ThreadAssumption DEF Locked, Quiet, Threads
  <2>4. ASSUME NEW n \in Names, n = a.name, values'[n] \in Values PROVE ~Quiet(n)'
    <3>1. a.value # NotSet
      BY <2>1, <2>2, <2>4, StoreAssumption DEF TypeOK
    <3>2. pc'[t] = "publish" /\ job'[t] = Assigned(t, a, TRUE)
      BY <1>5, <3>1, StoreStep DEF TypeOK
    <3>3. job'[t].last = [name |-> a.name, value |-> a.value, old |-> values[a.name]]
      BY <2>1, <3>2, AssignedType
    <3>4. job'[t].last.name = n
      BY <2>4, <3>3
    <3> QED BY <3>2, <3>4 DEF Quiet
  <2> HIDE DEF a
  <2>5. \A n \in Names : n # a.name => values'[n] = values[n]
    BY <2>1, <2>2 DEF TypeOK
  <2>6. ASSUME NEW n \in Names, failures = 0, values'[n] \in Values, Quiet(n)'
        PROVE  Shown(n, values'[n])
    BY <2>3, <2>4, <2>5, <2>6 DEF Told
  <2> QED BY <2>1, <2>2, <2>6 DEF Told, Shown
<1>6. ASSUME NEW t \in Threads, Publish(t) PROVE Told'
  <2> DEFINE l == job[t].last
  <2> DEFINE e == Event(l)
  <2>1. /\ pc[t] = "publish" /\ mtx = t /\ UNCHANGED <<values, failures>>
        /\ events' = Append(events, e)
    BY <1>6 DEF Publish, Locked
  <2>2. /\ l.name \in Names /\ l.value \in Values /\ values[l.name] = l.value
    BY <2>1 DEF Pending
  <2>3. /\ e \in [name : Names, value : Values, new : BOOLEAN]
        /\ e.name = l.name /\ e.value = l.value
    BY <2>2 DEF Event, IsNew
  <2>4. \A n \in Names : n # l.name => Quiet(n)
    BY <2>1 DEF Locked, Quiet
  <2> HIDE DEF e
  <2>5. ASSUME NEW n \in Names, failures = 0, values[n] \in Values
        PROVE  Shown(n, values[n])'
    <3>1. \/ e.name = n /\ e.value = values[n]
          \/ e.name # n /\ Shown(n, values[n])
      BY <2>2, <2>3, <2>4, <2>5 DEF Told
    <3>2. ASSUME NEW v \in Values, v = values[n] PROVE Shown(n, v)'
      BY <2>1, <2>3, <3>1, <3>2, ShownAppend
    <3> QED BY <2>1, <2>5, <3>2 DEF Shown
  <2> QED BY <2>1, <2>5 DEF Told
<1>7. ASSUME NEW t \in Threads, PublishFails(t) PROVE Told'
  <2>1. failures' # 0
    BY <1>7 DEF PublishFails, TypeOK
  <2> QED BY <2>1 DEF Told
<1>8. ASSUME UNCHANGED <<values, events, failures, pc, job>> PROVE Told'
  BY <1>1, <1>8
<1> QED
  BY <1>2, <1>3, <1>4, <1>5, <1>6, <1>7, <1>8 DEF Next, DropNode, vars, Threads

-----------------------------------------------------------------------------
(* The core.                                                               *)

\* What an operation under mtx_ or in a handler does to threads: nobody starts or stops
\* building, and a thread keeps its core while it is busy.
LEMMA BusyStep ==
    ASSUME TypeOK, NEW t \in Threads,
           \/ t \in Users /\ (Declare(t) \/ DeclareThrows(t) \/ Get(t))
           \/ t \in Handlers /\ (Accept(t) \/ Refuse(t) \/ Reply(t))
           \/ Set(t) \/ SetRejects(t) \/ Publish(t) \/ PublishFails(t)
    PROVE  /\ UNCHANGED coreVars /\ pc[t] \notin {"idle", "build"}
           /\ pc'[t] # "build" /\ (t \in Handlers /\ pc'[t] # "idle" => job'[t].core = job[t].core)
           /\ \A v \in Threads : v # t => pc'[v] = pc[v] /\ job'[v] = job[v]
<1>0. job[t] \in Jobs /\ (t \in Handlers => t \notin Users)
  BY ThreadAssumption DEF TypeOK
<1>1. \A a, r : Assigned(t, a, r).core = job[t].core
  BY <1>0 DEF Assigned, Jobs
<1>2. CASE (t \in Users /\ Declare(t)) \/ Set(t)
  <2>1. Store(t, Now(t)) /\ UNCHANGED coreVars /\ pc[t] = "enter"
    BY <1>2 DEF Declare, Set, MaySet
  <2>2. pc'[t] # "build" /\ \A v \in Threads : v # t => pc'[v] = pc[v] /\ job'[v] = job[v]
    BY <2>1 DEF Store, Goto, Back, TypeOK
  <2>3. t \in Handlers => job'[t] = Assigned(t, Now(t), TRUE)
    BY <1>0, <2>1 DEF Store, Settled, TypeOK
  <2> QED BY <1>1, <2>1, <2>2, <2>3
<1>3. CASE SetRejects(t)
  <2>1. t \in Handlers => job'[t] = Assigned(t, Now(t), FALSE)
    BY <1>0, <1>3 DEF SetRejects, Settled, TypeOK
  <2>2. /\ UNCHANGED coreVars /\ pc[t] = "enter" /\ pc'[t] # "build"
        /\ \A v \in Threads : v # t => pc'[v] = pc[v] /\ job'[v] = job[v]
    BY <1>3 DEF SetRejects, MaySet, Goto, Back, TypeOK
  <2> QED BY <1>1, <2>1, <2>2
<1>4. CASE Publish(t) \/ PublishFails(t)
  BY <1>0, <1>4 DEF Publish, PublishFails, Settled, Goto, Back, TypeOK
<1>5. CASE t \in Users /\ (DeclareThrows(t) \/ Get(t))
  BY <1>0, <1>5 DEF DeclareThrows, Get, Goto, TypeOK
<1>6. CASE t \in Handlers /\ (Accept(t) \/ Refuse(t) \/ Reply(t))
  BY <1>0, <1>6 DEF Accept, Checking, Refuse, Reply, Goto, TypeOK, Jobs
<1> QED BY <1>2, <1>3, <1>4, <1>5, <1>6

\* Every step leaves one builder at most, and services and handlers their core.
LEMMA ServedNext ==
    TypeOK /\ OneBuilder /\ Served /\ [Next]_vars => OneBuilder' /\ Served'
<1> SUFFICES ASSUME TypeOK, OneBuilder, Served, [Next]_vars PROVE OneBuilder' /\ Served'
  OBVIOUS
<1> DEFINE Good == OneBuilder' /\ Served'
<1> USE ThreadAssumption DEF Threads, Goto
<1>1. ASSUME NEW t \in Threads, UNCHANGED coreVars, pc[t] # "build", pc'[t] # "build",
             t \in Handlers /\ pc'[t] # "idle" =>
                 \/ job'[t].core = job[t].core /\ pc[t] # "idle"
                 \/ \E s \in services : job'[t].core = s.core,
             \A v \in Threads : v # t => pc'[v] = pc[v] /\ job'[v] = job[v]
      PROVE  Good
  <2>1. OneBuilder'
    BY <1>1 DEF OneBuilder
  <2>2. \A c : Alive(c)' <=> Alive(c)
    BY <1>1 DEF Alive
  <2>3. Served'
    <3>1. ASSUME NEW h \in Handlers, pc'[h] # "idle", broken = 0, ~dropped
          PROVE  job'[h].core # 0 /\ Alive(job'[h].core)
      <4>1. CASE h = t
        BY <1>1, <3>1, <4>1 DEF Served
      <4>2. CASE h # t
        BY <1>1, <3>1, <4>2 DEF Served
      <4> QED BY <4>1, <4>2
    <3> QED BY <1>1, <2>2, <3>1 DEF Served
  <2> QED BY <2>1, <2>3
<1>2. ASSUME NEW t \in Threads,
             \/ t \in Users /\ (Declare(t) \/ DeclareThrows(t) \/ Get(t))
             \/ t \in Handlers /\ (Accept(t) \/ Refuse(t) \/ Reply(t))
             \/ Set(t) \/ SetRejects(t) \/ Publish(t) \/ PublishFails(t)
      PROVE  Good
  BY <1>1, <1>2, BusyStep
<1>3. ASSUME NEW u \in Users, NEW op \in UserOps, NEW a \in Assignments, Call(u, op, a)
      PROVE  Good
  BY <1>1, <1>3 DEF Call, TypeOK
<1>4. ASSUME NEW u \in Users, FindCore(u) PROVE Good
  BY <1>1, <1>4 DEF FindCore, TypeOK
<1>5. ASSUME NEW h \in Handlers, NEW s \in services, ServeRead(h, s) PROVE Good
  <2>1. job'[h].core = s.core
    BY <1>5 DEF ServeRead, Job, TypeOK
  <2> QED BY <1>1, <1>5, <2>1 DEF ServeRead, TypeOK
<1>6. ASSUME NEW h \in Handlers, NEW s \in services, NEW r \in Requests, Serve(h, s, r)
      PROVE  Good
  <2>1. job'[h].core = s.core
    BY <1>6 DEF Serve, Job, TypeOK
  <2> QED BY <1>1, <1>6, <2>1 DEF Serve, TypeOK
<1>7. ASSUME NEW u \in Users, CreateCore(u) PROVE Good
  <2>1. /\ pc[u] = "params" /\ pc'[u] = "build" /\ paramsMtx = NoThread /\ params = 0
        /\ paramsMtx' = u /\ UNCHANGED <<params, services, broken, dropped>>
        /\ \A v \in Threads : v # u => pc'[v] = pc[v] /\ job'[v] = job[v]
    BY <1>7 DEF CreateCore, CanCreate, TypeOK
  <2>2. job'[u].core # 0
    <3>1. job'[u].core = cores + 1
      BY <1>7 DEF CreateCore, TypeOK, Jobs
    <3> QED BY <3>1 DEF TypeOK
  <2>3. \A v \in Users : pc[v] # "build"
    BY <2>1 DEF OneBuilder
  <2>4. OneBuilder'
    BY <2>1, <2>2, <2>3 DEF OneBuilder
  <2>5. \A c : Alive(c) => Alive(c)'
    BY <2>1, <2>3 DEF Alive
  <2>6. Served'
    BY <2>1, <2>5 DEF Served
  <2> QED BY <2>4, <2>6
<1>8. ASSUME NEW u \in Users, Register(u) PROVE Good
  <2>1. /\ pc[u] = "build" /\ UNCHANGED <<pc, job, params, paramsMtx, broken, dropped>>
        /\ \A s \in services' : s \in services \/ s.core = job[u].core
    BY <1>8 DEF Register
  <2>2. job[u].core # 0 /\ Alive(job[u].core)
    BY <2>1 DEF OneBuilder, Alive
  <2>3. \A c : Alive(c)' <=> Alive(c)
    BY <2>1 DEF Alive
  <2>4. OneBuilder'
    BY <2>1 DEF OneBuilder
  <2>5. Served'
    BY <2>1, <2>2, <2>3 DEF Served
  <2> QED BY <2>4, <2>5
<1>9. ASSUME NEW u \in Users, Publicise(u) PROVE Good
  <2>1. /\ pc[u] = "build" /\ pc'[u] = "enter" /\ params' = job[u].core
        /\ UNCHANGED <<services, job, broken, dropped>>
        /\ \A v \in Threads : v # u => pc'[v] = pc[v]
    BY <1>9 DEF Publicise, KeptCore, TypeOK
  <2>2. params = 0 /\ \A v \in Users : v # u => pc[v] # "build"
    BY <2>1 DEF OneBuilder
  <2>3. OneBuilder'
    BY <2>1, <2>2 DEF OneBuilder
  <2>4. \A c : c # 0 /\ Alive(c) => Alive(c)'
    BY <2>1, <2>2 DEF Alive
  <2>5. Served'
    BY <2>1, <2>4 DEF Served
  <2> QED BY <2>3, <2>5
<1>10. ASSUME NEW u \in Users, CreateFails(u) PROVE Good
  <2>1. /\ pc[u] = "build" /\ pc'[u] = "idle" /\ broken' # 0
        /\ \A v \in Threads : v # u => pc'[v] = pc[v] /\ job'[v] = job[v]
    BY <1>10 DEF CreateFails, TypeOK
  <2>2. OneBuilder'
    BY <2>1 DEF OneBuilder
  <2> QED BY <2>1, <2>2 DEF Served
<1>11. CASE DropNode
  BY <1>11 DEF DropNode, OneBuilder, Served
<1>12. CASE UNCHANGED vars
  BY <1>12 DEF vars, OneBuilder, Served, Alive
<1> QED
  BY <1>2, <1>3, <1>4, <1>5, <1>6, <1>7, <1>8, <1>9, <1>10, <1>11, <1>12
     DEF Next, UserStep, HandlerStep

\* The inductive invariant is an invariant of a node's parameters.
THEOREM Invariance == Spec => []IInv
<1>1. IInv /\ [Next]_vars => IInv'
  BY TypeNext, WorkNext, LockedNext, PendingNext, CheckedNext, ToldNext, ServedNext DEF IInv
<1> QED BY IInvInit, <1>1, PTL DEF Spec

-----------------------------------------------------------------------------
(* Theorems.                                                               *)

\* The variables have their types: no event without a value is published, and no
\* thread takes an assignment from an empty list.
THEOREM TypeCorrect == Spec => []TypeOK
<1>1. IInv => TypeOK
  BY DEF IInv
<1> QED BY Invariance, <1>1, PTL

\* A declared parameter stays declared, whatever is set.
THEOREM DeclaredForGood == Spec => DeclaredStays
<1> DEFINE Stay == \A n \in Names : values[n] # Undeclared => values'[n] # Undeclared
<1>1. IInv /\ [Next]_vars => [Stay]_vars
  BY DeclarationsStay DEF IInv
<1> QED BY Invariance, <1>1, PTL DEF Spec, DeclaredStays

\* A set_parameters_atomically that has been accepted fails in none of its parts.
THEOREM AcceptedIsSet == Spec => []AcceptedMeansSet
<1>1. IInv => AcceptedMeansSet
  BY DEF IInv, Checked, AcceptedMeansSet
<1> QED BY Invariance, <1>1, PTL

\* The last event of a parameter carries its value whenever mtx_ is free, however many
\* set() calls race, as long as no write failed.
THEOREM EventsAreCurrent == Spec => []EventsFollowValues
<1>1. IInv => EventsFollowValues
  BY ThreadAssumption DEF IInv, Locked, Told, Quiet, EventsFollowValues, Threads
<1> QED BY Invariance, <1>1, PTL

\* A service callback finds the core it captured, also when threads race to create the
\* first one, as long as no construction failed and the node is there.
THEOREM CallbacksHaveCore == Spec => []HandlersHaveCore
<1>1. IInv => HandlersHaveCore
  BY DEF IInv, Served, HandlersHaveCore
<1> QED BY Invariance, <1>1, PTL

-----------------------------------------------------------------------------
(* Refinement.                                                             *)

\* While mtx_ is free the store's values are values_.
LEMMA FreeValues == IInv /\ mtx = NoThread => ValuesBefore = values
<1> SUFFICES ASSUME IInv, mtx = NoThread PROVE ValuesBefore = values
  OBVIOUS
<1>1. \A t \in Threads : pc[t] # "publish"
  BY ThreadAssumption DEF IInv, Locked, Threads
<1>2. ValuesBefore = [n \in Names |-> values[n]]
  BY <1>1 DEF ValuesBefore
<1> QED BY <1>2 DEF IInv, TypeOK

\* While an event is being published they are those before its assignment.
LEMMA HeldValues ==
    IInv /\ mtx # NoThread =>
        /\ mtx \in Threads /\ pc[mtx] = "publish" /\ job[mtx].last.name \in Names
        /\ ValuesBefore = [values EXCEPT ![job[mtx].last.name] = job[mtx].last.old]
<1> SUFFICES ASSUME IInv, mtx # NoThread
             PROVE  /\ mtx \in Threads /\ pc[mtx] = "publish"
                    /\ job[mtx].last.name \in Names
                    /\ ValuesBefore =
                         [values EXCEPT ![job[mtx].last.name] = job[mtx].last.old]
  OBVIOUS
<1>1. mtx \in Threads /\ pc[mtx] = "publish" /\ job[mtx].last.name \in Names
  BY DEF IInv, TypeOK, Locked, Pending
<1>2. \A n \in Names : (\E t \in Threads : pc[t] = "publish" /\ job[t].last.name = n)
                           <=> n = job[mtx].last.name
  BY <1>1 DEF IInv, Locked
<1>3. ValuesBefore = [n \in Names |-> IF n = job[mtx].last.name
                                      THEN job[mtx].last.old ELSE values[n]]
  BY <1>2 DEF ValuesBefore
<1>4. values \in [Names -> Settable \cup {Undeclared}]
  BY DEF IInv, TypeOK
<1> QED BY <1>1, <1>3, <1>4

\* A step that leaves values_, the events and the publishing thread alone is no step
\* of the store.
LEMMA Stutters ==
    ASSUME IInv, IInv', UNCHANGED <<values, events, mtx>>,
           mtx # NoThread => job'[mtx] = job[mtx]
    PROVE  UNCHANGED Promise!vars
<1>1. (IInv /\ mtx = NoThread)' => (ValuesBefore = values)'
  BY FreeValues, PTL
<1>2. (IInv /\ mtx # NoThread)' =>
        (ValuesBefore = [values EXCEPT ![job[mtx].last.name] = job[mtx].last.old])'
  BY HeldValues, PTL
<1>3. CASE mtx = NoThread
  BY <1>1, <1>3, FreeValues DEF Promise!vars
<1>4. CASE mtx # NoThread
  BY <1>2, <1>4, HeldValues DEF Promise!vars
<1> QED BY <1>3, <1>4

\* An assignment, with its event or without, is a step of the store.
LEMMA AssignmentStep ==
    ASSUME NEW n \in Names, NEW v \in Settable,
           ValuesBefore' = [ValuesBefore EXCEPT ![n] = v],
           ValuesBefore[n] = Undeclared => n # EmptyName,
           \/ /\ v # NotSet
              /\ events' = Append(events, [name |-> n, value |-> v,
                                           new |-> ValuesBefore[n] \notin Values])
           \/ events' = events
    PROVE  Promise!Next
<1>1. Promise!Announced(n, v, ValuesBefore[n])
  BY DEF Promise!Announced, Promise!Event
<1>2. CASE ValuesBefore[n] = Undeclared
  <2>1. Promise!Announced(n, v, Undeclared)
    BY <1>1, <1>2
  <2>2. Promise!Declare(n, v)
    BY <1>2, <2>1 DEF Promise!Declare
  <2> QED BY <2>2 DEF Promise!Next, Promise!Settable, Settable
<1>3. CASE ValuesBefore[n] # Undeclared
  <2>1. Promise!Set(n, v)
    BY <1>1, <1>3 DEF Promise!Set
  <2> QED BY <2>1 DEF Promise!Next, Promise!Settable, Settable
<1> QED BY <1>2, <1>3

\* Every step of the parameters is a step of the store or none.
LEMMA StepRefines ==
    ASSUME IInv, IInv', [Next]_vars
    PROVE  [Promise!Next]_(Promise!vars)
<1> DEFINE Refines == Promise!Next \/ UNCHANGED Promise!vars
<1>1. (IInv /\ mtx = NoThread)' => (ValuesBefore = values)'
  BY FreeValues, PTL
<1>2. (IInv /\ mtx # NoThread)' =>
        (ValuesBefore = [values EXCEPT ![job[mtx].last.name] = job[mtx].last.old])'
  BY HeldValues, PTL
<1>3. TypeOK /\ Work /\ Locked /\ Pending
  BY DEF IInv
<1>4. ASSUME NEW t \in Threads, pc[t] # "publish", UNCHANGED <<values, events, mtx>>,
             \A v \in Threads : v # t => job'[v] = job[v]
      PROVE  Refines
  <2>1. mtx # NoThread => job'[mtx] = job[mtx]
    BY <1>3, <1>4 DEF Locked, TypeOK
  <2> QED BY <1>4, <2>1, Stutters
<1>5. ASSUME NEW u \in Users, UserStep(u), ~Declare(u) PROVE Refines
  BY <1>3, <1>4, <1>5
     DEF UserStep, Call, FindCore, CreateCore, Register, Publicise, CreateFails,
         DeclareThrows, Get, Goto, Threads, TypeOK
<1>6. ASSUME NEW h \in Handlers, HandlerStep(h) PROVE Refines
  BY <1>3, <1>4, <1>6
     DEF HandlerStep, ServeRead, Serve, Accept, Refuse, Reply, Checking, Threads, TypeOK
<1>7. ASSUME NEW t \in Threads, SetRejects(t) PROVE Refines
  BY <1>3, <1>4, <1>7 DEF SetRejects, MaySet, TypeOK
<1>8. ASSUME NEW t \in Threads, (t \in Users /\ Declare(t)) \/ Set(t) PROVE Refines
  <2> DEFINE a == Now(t)
  <2>1. /\ mtx = NoThread /\ a \in Assignments /\ job[t].todo # << >>
        /\ values' = [values EXCEPT ![a.name] = a.value] /\ events' = events
        /\ values[a.name] = Undeclared => a.name # EmptyName
    BY <1>3, <1>8, StoreStep
  <2>2. a.name \in Names /\ a.value \in Settable
    BY <2>1 DEF Assignments
  <2>3. ValuesBefore = values
    BY <2>1, FreeValues
  <2>4. CASE a.value = NotSet
    <3>1. mtx' = NoThread
      BY <1>3, <1>8, <2>1, <2>4, StoreStep
    <3>2. ValuesBefore' = [ValuesBefore EXCEPT ![a.name] = a.value]
      BY <1>1, <2>1, <2>3, <3>1
    <3> QED BY <2>1, <2>2, <2>3, <3>2, AssignmentStep
  <2>5. CASE a.value # NotSet
    <3>1. mtx' = t /\ job' = [job EXCEPT ![t] = Assigned(t, a, TRUE)]
      BY <1>3, <1>8, <2>5, StoreStep
    <3>2. job'[t].last = [name |-> a.name, value |-> a.value, old |-> values[a.name]]
      BY <1>3, <2>1, <3>1, AssignedType DEF TypeOK
    <3>3. t # NoThread
      BY ThreadAssumption DEF Threads
    <3>4. ValuesBefore' = [values' EXCEPT ![a.name] = values[a.name]]
      <4>1. IInv' /\ mtx' # NoThread
        BY <3>1, <3>3
      <4>2. ValuesBefore' =
              [values' EXCEPT ![job'[mtx'].last.name] = job'[mtx'].last.old]
        BY <1>2, <4>1
      <4> HIDE DEF a
      <4>3. mtx' = t
        BY <3>1
      <4>4. job'[mtx'].last.name = a.name /\ job'[mtx'].last.old = values[a.name]
        BY <3>2, <4>3
      <4> QED BY <4>2, <4>4
    <3>5. ValuesBefore' = values
      BY <1>3, <2>1, <2>2, <3>4 DEF TypeOK
    <3> QED BY <2>1, <2>3, <3>5 DEF Promise!vars
  <2> QED BY <2>4, <2>5
<1>9. ASSUME NEW t \in Threads, Publish(t) \/ PublishFails(t) PROVE Refines
  <2> DEFINE l == job[t].last
  <2>1. pc[t] = "publish" /\ mtx = t /\ mtx' = NoThread /\ values' = values
    BY <1>3, <1>9 DEF Publish, PublishFails, Locked
  <2>2. /\ l.name \in Names /\ l.value \in Values /\ values[l.name] = l.value
        /\ l.old = Undeclared => l.name # EmptyName
    BY <1>3, <2>1 DEF Pending
  <2>3. ValuesBefore = [values EXCEPT ![l.name] = l.old]
    BY <2>1, HeldValues, ThreadAssumption DEF Threads
  <2>4. values \in [Names -> Settable \cup {Undeclared}]
    BY <1>3 DEF TypeOK
  <2>5. ValuesBefore[l.name] = l.old
    BY <2>2, <2>3, <2>4
  <2>6. ValuesBefore' = [ValuesBefore EXCEPT ![l.name] = l.value]
    BY <1>1, <2>1, <2>2, <2>3, <2>4
  <2>7. l.value \in Settable /\ l.value # NotSet
    BY <2>2, StoreAssumption DEF Settable
  <2>8. \/ events' = Append(events, [name |-> l.name, value |-> l.value,
                                      new |-> ValuesBefore[l.name] \notin Values])
        \/ events' = events
    BY <1>9, <2>5 DEF Publish, PublishFails, Event, IsNew
  <2> QED BY <2>2, <2>5, <2>6, <2>7, <2>8, AssignmentStep
<1>10. ASSUME UNCHANGED <<values, events, mtx, job>> PROVE Refines
  BY <1>10, Stutters
<1> QED
  BY <1>5, <1>6, <1>7, <1>8, <1>9, <1>10 DEF Next, DropNode, vars, Threads

\* declare() and set(), with their events, look to everybody like the indivisible
\* operations of ParameterStore, however threads, requests and failures interleave.
THEOREM Implementation == Spec => ImplementsStore
<1>1. Init => Promise!Init
  <2> SUFFICES ASSUME Init PROVE Promise!Init
    OBVIOUS
  <2>1. ValuesBefore = values
    BY IInvInit, FreeValues DEF Init
  <2> QED BY <2>1 DEF Init, Promise!Init
<1>2. IInv /\ IInv' /\ [Next]_vars => [Promise!Next]_(Promise!vars)
  BY StepRefines
<1> QED BY <1>1, <1>2, Invariance, PTL DEF Spec, ImplementsStore, Promise!Spec
===============================================================================

---------------------------- MODULE ExecutorProofs ----------------------------
(***************************************************************************)
(* Theorems about Executor, for any number of nodes, entities and threads  *)
(* and for every bound.  TypeOK and the lock discipline carry the rest.    *)
(***************************************************************************)
EXTENDS Executor, FiniteSetTheorems, TLAPS

USE DEF nodeVars, attachVars, guardVars, reconVars, spinVars, userVars, ghosts

-----------------------------------------------------------------------------
(* Types.                                                                  *)

\* The constructor's state is well typed.
LEMMA TypeInit == Init => TypeOK
<1> SUFFICES ASSUME Init PROVE TypeOK
  OBVIOUS
<1>1. guard \in [Nodes -> BOOLEAN] /\ known \in [Nodes -> Nat \cup {NoEpoch}]
  BY Zenon DEF Init
<1> QED BY <1>1, ConstantsAssumption DEF Init, TypeOK, Nothing, NoThread

\* Every operation keeps the state well typed.
LEMMA TypeNext == TypeOK /\ [Next]_vars => TypeOK'
<1> SUFFICES ASSUME TypeOK, [Next]_vars PROVE TypeOK'
  OBVIOUS
<1> USE ConstantsAssumption DEF TypeOK, NoEpoch, Nothing, NoThread, Spinner, Conds
<1>1. ASSUME NEW u \in Users, NEW e \in Entities, AddEntity(u, e) PROVE TypeOK'
  BY <1>1 DEF AddEntity, ChangeEntities, Call
<1>2. ASSUME NEW u \in Users, NEW e \in Entities, RemoveEntity(u, e) PROVE TypeOK'
  BY <1>2 DEF RemoveEntity, ChangeEntities, Call
<1>3. ASSUME NEW u \in Users, NEW n \in Nodes, AddNode(u, n) PROVE TypeOK'
  BY <1>3 DEF AddNode, StartReconcile, Call
<1>4. ASSUME NEW u \in Users, NEW n \in Nodes, RemoveNode(u, n) PROVE TypeOK'
  BY <1>4 DEF RemoveNode, StartReconcile, Call
<1>5. ASSUME NEW u \in Users, Cancel(u) PROVE TypeOK'
  BY <1>5 DEF Cancel, Call
<1>6. ASSUME NEW u \in Users, Completion(u) PROVE TypeOK'
  <2>1. CASE TriggerChange(u)
    <3>1. guard' \in [Nodes -> BOOLEAN]
      BY <2>1, Zenon DEF TriggerChange
    <3> QED BY <2>1, <3>1 DEF TriggerChange, Return
  <2>2. CASE TriggerWake(u)
    <3>1. wakeGuard' \in BOOLEAN
      BY <2>2, Zenon DEF TriggerWake
    <3> QED BY <2>2, <3>1 DEF TriggerWake, Return
  <2>3. CASE TriggerCancel(u)
    BY <2>3 DEF TriggerCancel, Return
  <2> QED BY <1>6, <2>1, <2>2, <2>3 DEF Completion
<1>7. ASSUME NEW n \in Nodes, SnapEntities(n) PROVE TypeOK'
  BY <1>7 DEF SnapEntities
<1>8. CASE SnapEpoch
  <2>1. known' \in [Nodes -> Nat \cup {NoEpoch}]
    BY <1>8 DEF SnapEpoch
  <2> QED BY <1>8, <2>1 DEF SnapEpoch
<1>9. CASE DetachStale
  BY <1>9 DEF DetachStale, Kept, ToAttach
<1>10. ASSUME NEW c \in Conds, AttachOne(c) PROVE TypeOK'
  BY <1>10 DEF AttachOne, FreshId, Fail
<1>11. CASE FinishReconcile
  <2>1. upc' \in [Users -> {"idle", "trigger", "adding", "removing", "wake",
                            "cancel"}]
    BY <1>11 DEF FinishReconcile
  <2>2. wakeGuard' \in BOOLEAN
    BY <1>11, Zenon DEF FinishReconcile
  <2>3. spc' \in {"idle", "loop", "check", "reconcile", "wait", "process",
                  "dispatch", "absorb"}
    BY <1>11, Zenon DEF FinishReconcile
  <2> QED BY <1>11, <2>1, <2>2, <2>3 DEF FinishReconcile
<1>12. CASE SpinStart \/ SpinOnce \/ SpinSome \/ SpinLoop
  <2>1. CASE SpinStart
    BY <2>1 DEF SpinStart
  <2>2. CASE SpinOnce
    BY <2>2 DEF SpinOnce
  <2>3. CASE SpinSome
    BY <2>3 DEF SpinSome
  <2>4. CASE SpinLoop
    BY <2>4 DEF SpinLoop, SpinReturns
  <2> QED BY <1>12, <2>1, <2>2, <2>3, <2>4
<1>13. CASE CheckEpochs
  BY <1>13 DEF CheckEpochs, StartReconcile
<1>14. CASE WaitReturns
  <2>1. Ready \subseteq [id : Nat, cond : Conds \cup {CancelGuard, WakeGuard}]
    BY DEF Ready
  <2> QED BY <1>14, <2>1 DEF WaitReturns
<1>15. CASE WaitGivesUp
  BY <1>15 DEF WaitGivesUp, SpinReturns, Fail
<1>16. ASSUME NEW t \in triggered, TakeCancel(t) \/ TakeWake(t) PROVE TypeOK'
  <2>1. CASE TakeCancel(t)
    <3>1. cancelGuard' \in BOOLEAN /\ cancelRequested' \in BOOLEAN
      BY <2>1, Zenon DEF TakeCancel
    <3> QED BY <2>1, <3>1 DEF TakeCancel
  <2>2. CASE TakeWake(t)
    <3>1. wakeGuard' \in BOOLEAN
      BY <2>2, Zenon DEF TakeWake
    <3> QED BY <2>2, <3>1 DEF TakeWake
  <2> QED BY <1>16, <2>1, <2>2
<1>17. ASSUME NEW t \in triggered, Lookup(t) PROVE TypeOK'
  BY <1>17 DEF Lookup, Found
<1>18. CASE Dispatch
  <2>1. \A n \in Nat : Left(n) \in Nat
    BY DEF Left
  <2>2. data' \in [Entities -> Nat]
    BY <1>18, <2>1 DEF Dispatch
  <2> QED BY <1>18, <2>2 DEF Dispatch, Fail
<1>19. CASE StartAbsorb \/ FinishAbsorb
  <2>1. CASE StartAbsorb
    BY <2>1 DEF StartAbsorb
  <2>2. CASE FinishAbsorb
    BY <2>2 DEF FinishAbsorb, SpinReturns
  <2> QED BY <1>19, <2>1, <2>2
<1>20. ASSUME NEW n \in Nodes, Absorb(n) PROVE TypeOK'
  BY <1>20 DEF Absorb
<1>21. ASSUME NEW e \in Entities, Arrive(e) PROVE TypeOK'
  BY <1>21 DEF Arrive
<1>22. CASE UNCHANGED vars
  BY <1>22 DEF vars
<1> QED
  BY <1>1, <1>2, <1>3, <1>4, <1>5, <1>6, <1>7, <1>8, <1>9, <1>10, <1>11, <1>12,
     <1>13, <1>14, <1>15, <1>16, <1>17, <1>18, <1>19, <1>20, <1>21, <1>22
     DEF Next, NewCall, Reconcile, WaitAndProcess

\* Type correctness of the executor and its nodes.
THEOREM TypeCorrect == Spec => []TypeOK
  BY TypeInit, TypeNext, PTL DEF Spec

-----------------------------------------------------------------------------
(* The lock discipline.                                                    *)

\* nodes_mtx_ is held by the spinner exactly while it reconciles or absorbs, and
\* by a user exactly while it is inside add_node or remove_node; reconcile_locked
\* runs only under it, on nodes of nodes_.
Discipline ==
    /\ lock = Spinner <=> spc \in {"reconcile", "absorb"}
    /\ \A u \in Users : upc[u] \in {"adding", "removing"} <=> lock = u
    /\ rpc = "none" <=> lock = NoThread \/ spc = "absorb"
    /\ rpc = "epoch" => snapped \in todo
    /\ lock # NoThread => todo \subseteq nodes
    /\ \A u \in Users : upc[u] = "trigger" => uarg[u] \in Nodes

\* Every step respects the lock discipline.
LEMMA DisciplineNext == TypeOK /\ Discipline /\ [Next]_vars => Discipline'
<1> SUFFICES ASSUME TypeOK, Discipline, [Next]_vars PROVE Discipline'
  OBVIOUS
<1> USE ConstantsAssumption DEF TypeOK, Discipline, Spinner, NoThread, SpinnerAt
<1>1. ASSUME NEW u \in Users, NEW e \in Entities, AddEntity(u, e) PROVE Discipline'
  BY <1>1 DEF AddEntity, ChangeEntities, Call
<1>2. ASSUME NEW u \in Users, NEW e \in Entities, RemoveEntity(u, e) PROVE Discipline'
  BY <1>2 DEF RemoveEntity, ChangeEntities, Call
<1>3. ASSUME NEW u \in Users, NEW n \in Nodes, AddNode(u, n) PROVE Discipline'
  BY <1>3 DEF AddNode, StartReconcile, Call
<1>4. ASSUME NEW u \in Users, NEW n \in Nodes, RemoveNode(u, n) PROVE Discipline'
  BY <1>4 DEF RemoveNode, StartReconcile, Call
<1>5. ASSUME NEW u \in Users, Cancel(u) PROVE Discipline'
  BY <1>5 DEF Cancel, Call
<1>6. ASSUME NEW u \in Users, TriggerChange(u) PROVE Discipline'
  BY <1>6 DEF TriggerChange, Return
<1>7. ASSUME NEW u \in Users, TriggerWake(u) PROVE Discipline'
  BY <1>7 DEF TriggerWake, Return
<1>8. ASSUME NEW u \in Users, TriggerCancel(u) PROVE Discipline'
  BY <1>8 DEF TriggerCancel, Return
<1>9. ASSUME NEW n \in Nodes, SnapEntities(n) PROVE Discipline'
  BY <1>9 DEF SnapEntities
<1>10. CASE SnapEpoch
  BY <1>10 DEF SnapEpoch
<1>11. CASE DetachStale
  BY <1>11 DEF DetachStale, Kept, ToAttach
<1>12. CASE FinishReconcile
  BY <1>12 DEF FinishReconcile
<1>13. CASE SpinStart
  BY <1>13 DEF SpinStart
<1>14. CASE SpinOnce
  BY <1>14 DEF SpinOnce
<1>15. CASE SpinSome
  BY <1>15 DEF SpinSome
<1>16. CASE SpinLoop
  BY <1>16 DEF SpinLoop, SpinReturns
<1>17. CASE CheckEpochs
  BY <1>17 DEF CheckEpochs, StartReconcile, Changed
<1>18. CASE WaitReturns
  BY <1>18 DEF WaitReturns
<1>19. CASE WaitGivesUp
  BY <1>19 DEF WaitGivesUp, SpinReturns
<1>20. ASSUME NEW t \in triggered, Lookup(t) PROVE Discipline'
  BY <1>20 DEF Lookup, Found
<1>21. CASE Dispatch
  BY <1>21 DEF Dispatch
<1>22. CASE StartAbsorb
  BY <1>22 DEF StartAbsorb
<1>23. ASSUME NEW n \in Nodes, Absorb(n) PROVE Discipline'
  BY <1>23 DEF Absorb
<1>24. CASE FinishAbsorb
  BY <1>24 DEF FinishAbsorb, SpinReturns
<1>25. ASSUME UNCHANGED <<lock, rpc, todo, nodes, snapped, spc, upc, uarg>>
       PROVE  Discipline'
  BY <1>25
<1> QED
  BY <1>1, <1>2, <1>3, <1>4, <1>5, <1>6, <1>7, <1>8, <1>9, <1>10, <1>11, <1>12,
     <1>13, <1>14, <1>15, <1>16, <1>17, <1>18, <1>19, <1>20, <1>21, <1>22,
     <1>23, <1>24, <1>25
     DEF Next, NewCall, Completion, Reconcile, WaitAndProcess, AttachOne,
         FreshId, Fail, TakeCancel, TakeWake, Arrive, vars

-----------------------------------------------------------------------------
(* Attachment ids.                                                         *)

\* Ids are handed out in increasing order from 3, a reported id is one that was
\* handed out, and the attach loop has only unattached conditions left.
Ids ==
    /\ nextId >= 2
    /\ \A a \in attached : a.id > 2 /\ a.id <= nextId
    /\ \A t \in triggered : t.id <= nextId
    /\ rpc = "attach" => \A a \in attached : a.cond \notin desired
    /\ StaleIdsAreDead
    /\ AttachedOnce

\* Every step keeps reported ids dead or unchanged.
LEMMA IdsNext == TypeOK /\ Ids /\ [Next]_vars => Ids'
<1> SUFFICES ASSUME TypeOK, Ids, [Next]_vars PROVE Ids'
  OBVIOUS
<1> USE ConstantsAssumption DEF TypeOK, Ids, StaleIdsAreDead, AttachedOnce
<1>1. ASSUME NEW u \in Users, NEW n \in Nodes, AddNode(u, n) PROVE Ids'
  BY <1>1 DEF AddNode, StartReconcile, Call
<1>2. ASSUME NEW u \in Users, NEW n \in Nodes, RemoveNode(u, n) PROVE Ids'
  BY <1>2 DEF RemoveNode, StartReconcile, Call
<1>3. ASSUME NEW n \in Nodes, SnapEntities(n) PROVE Ids'
  BY <1>3 DEF SnapEntities
<1>4. CASE SnapEpoch
  BY <1>4 DEF SnapEpoch
<1>5. CASE DetachStale
  BY <1>5 DEF DetachStale, Kept, ToAttach, AttachedConds
<1>6. ASSUME NEW c \in Conds, AttachOne(c) PROVE Ids'
  BY <1>6 DEF AttachOne, FreshId, Fail
<1>7. CASE FinishReconcile
  BY <1>7 DEF FinishReconcile
<1>8. CASE CheckEpochs
  BY <1>8 DEF CheckEpochs, StartReconcile, Changed
<1>9. CASE WaitReturns
  <2>1. \A t \in triggered' : t \in attached \/ t.id \in {1, 2}
    BY <1>9 DEF WaitReturns, Ready
  <2> QED BY <1>9, <2>1 DEF WaitReturns
<1>10. ASSUME NEW t \in triggered, TakeCancel(t) PROVE Ids'
  BY <1>10 DEF TakeCancel
<1>11. ASSUME NEW t \in triggered, TakeWake(t) PROVE Ids'
  BY <1>11 DEF TakeWake
<1>12. ASSUME NEW t \in triggered, Lookup(t) PROVE Ids'
  BY <1>12 DEF Lookup, Found
<1>13. ASSUME UNCHANGED <<attached, triggered, nextId, rpc, desired>> PROVE Ids'
  BY <1>13
<1> QED
  BY <1>1, <1>2, <1>3, <1>4, <1>5, <1>6, <1>7, <1>8, <1>9, <1>10, <1>11, <1>12,
     <1>13
     DEF Next, NewCall, Completion, Reconcile, WaitAndProcess, AddEntity,
         ChangeEntities, Call, RemoveEntity, Cancel, TriggerChange, Return,
         TriggerWake, TriggerCancel, SpinStart, SpinOnce, SpinSome, SpinLoop,
         SpinReturns, WaitGivesUp, Dispatch, StartAbsorb, Absorb, FinishAbsorb,
         Arrive, vars

-----------------------------------------------------------------------------
(* Attachments belong to nodes of the executor.                            *)

\* An entity is listed by its owner only, and what reconcile_locked wants
\* attached, and what it leaves attached, is of nodes in nodes_.
Membership ==
    /\ \A n \in Nodes : \A e \in entities[n] : Owner[e] = n
    /\ rpc # "none" => \A c \in desired : NodeOf(c) \in nodes
    /\ rpc \in {"none", "attach"} => \A a \in attached : NodeOf(a.cond) \in nodes

\* Every step keeps foreign conditions out of the waitset.
LEMMA MembershipNext == TypeOK /\ Discipline /\ Membership /\ [Next]_vars => Membership'
<1> SUFFICES ASSUME TypeOK, Discipline, Membership, [Next]_vars PROVE Membership'
  OBVIOUS
<1> USE ConstantsAssumption DEF TypeOK, Discipline, Membership, NodeOf, Conds
<1>1. ASSUME NEW u \in Users, NEW e \in Entities, AddEntity(u, e) PROVE Membership'
  BY <1>1 DEF AddEntity, ChangeEntities, Call
<1>2. ASSUME NEW u \in Users, NEW e \in Entities, RemoveEntity(u, e) PROVE Membership'
  BY <1>2 DEF RemoveEntity, ChangeEntities, Call
<1>3. ASSUME NEW u \in Users, NEW n \in Nodes, AddNode(u, n) PROVE Membership'
  BY <1>3 DEF AddNode, StartReconcile, Call
<1>4. ASSUME NEW u \in Users, NEW n \in Nodes, RemoveNode(u, n) PROVE Membership'
  BY <1>4 DEF RemoveNode, StartReconcile, Call
<1>5. ASSUME NEW n \in Nodes, SnapEntities(n) PROVE Membership'
  BY <1>5 DEF SnapEntities
<1>6. CASE SnapEpoch
  BY <1>6 DEF SnapEpoch
<1>7. CASE DetachStale
  BY <1>7 DEF DetachStale, Kept, ToAttach
<1>8. ASSUME NEW c \in Conds, AttachOne(c) PROVE Membership'
  BY <1>8 DEF AttachOne, FreshId, Fail
<1>9. CASE FinishReconcile
  BY <1>9 DEF FinishReconcile
<1>10. CASE CheckEpochs
  BY <1>10 DEF CheckEpochs, StartReconcile, Changed
<1>11. ASSUME UNCHANGED <<entities, rpc, desired, attached, nodes>> PROVE Membership'
  BY <1>11
<1> QED
  BY <1>1, <1>2, <1>3, <1>4, <1>5, <1>6, <1>7, <1>8, <1>9, <1>10, <1>11
     DEF Next, NewCall, Completion, Reconcile, WaitAndProcess, Cancel, Call,
         TriggerChange, Return, TriggerWake, TriggerCancel, SpinStart, SpinOnce,
         SpinSome, SpinLoop, SpinReturns, WaitReturns, WaitGivesUp, TakeCancel,
         TakeWake, Lookup, Found, Dispatch, StartAbsorb, Absorb, FinishAbsorb,
         Arrive, vars

-----------------------------------------------------------------------------
(* No lost wakeup.                                                         *)

\* From the epoch comparison on, an unnoticed change has its guard up or about to
\* go up, or its epoch is still to be read; and, as long as no attach failed, the
\* guards of all nodes are attached, or are about to be.
Notice ==
    /\ spc \in {"reconcile", "wait"} =>
         \A n \in nodes : known[n] # epoch[n] =>
             \/ guard[n]
             \/ \E u \in Users : upc[u] = "trigger" /\ uarg[u] = n
             \/ rpc \in {"entities", "epoch"} /\ n \in todo
    /\ fails = 0 =>
         /\ rpc = "none" => nodes \subseteq AttachedConds
         /\ rpc \in {"entities", "epoch"} => nodes \ todo \subseteq desired
         /\ rpc = "epoch" => snapped \in desired
         /\ rpc = "attach" => nodes \subseteq AttachedConds \cup desired

\* Every step keeps entity changes noticeable.
LEMMA NoticeNext == TypeOK /\ Discipline /\ Notice /\ [Next]_vars => Notice'
<1> SUFFICES ASSUME TypeOK, Discipline, Notice, [Next]_vars PROVE Notice'
  OBVIOUS
<1> USE ConstantsAssumption DEF TypeOK, Discipline, Notice, SpinnerAt,
      AttachedConds, Spinner, NoThread, Conds
<1>1. ASSUME NEW u \in Users, NEW e \in Entities, AddEntity(u, e) PROVE Notice'
  BY <1>1 DEF AddEntity, ChangeEntities, Call
<1>2. ASSUME NEW u \in Users, NEW e \in Entities, RemoveEntity(u, e) PROVE Notice'
  BY <1>2 DEF RemoveEntity, ChangeEntities, Call
<1>3. ASSUME NEW u \in Users, NEW n \in Nodes, AddNode(u, n) PROVE Notice'
  BY <1>3 DEF AddNode, StartReconcile, Call
<1>4. ASSUME NEW u \in Users, NEW n \in Nodes, RemoveNode(u, n) PROVE Notice'
  BY <1>4 DEF RemoveNode, StartReconcile, Call
<1>5. ASSUME NEW u \in Users, Cancel(u) PROVE Notice'
  BY <1>5 DEF Cancel, Call
<1>6. ASSUME NEW u \in Users, TriggerChange(u) PROVE Notice'
  BY <1>6 DEF TriggerChange, Return
<1>7. ASSUME NEW u \in Users, TriggerWake(u) PROVE Notice'
  BY <1>7 DEF TriggerWake, Return
<1>8. ASSUME NEW u \in Users, TriggerCancel(u) PROVE Notice'
  BY <1>8 DEF TriggerCancel, Return
<1>9. ASSUME NEW n \in Nodes, SnapEntities(n) PROVE Notice'
  BY <1>9 DEF SnapEntities
<1>10. CASE SnapEpoch
  BY <1>10 DEF SnapEpoch
<1>11. CASE DetachStale
  BY <1>11 DEF DetachStale, Kept, ToAttach
<1>12. ASSUME NEW c \in Conds, AttachOne(c) PROVE Notice'
  <2>1. CASE /\ attached' = attached \cup {[id |-> FreshId, cond |-> c]}
             /\ UNCHANGED fails
    <3> DEFINE new == [id |-> FreshId, cond |-> c]
    <3>1. AttachedConds \subseteq AttachedConds'
      BY <2>1
    <3>2. new \in attached' /\ new.cond = c
      BY <2>1
    <3>3. c \in AttachedConds'
      BY <3>2, Zenon
    <3> HIDE DEF AttachedConds
    <3> QED BY <1>12, <2>1, <3>1, <3>3 DEF AttachOne
  <2>2. CASE Fail
    BY <1>12, <2>2 DEF AttachOne, Fail
  <2> QED BY <1>12, <2>1, <2>2 DEF AttachOne
<1>13. CASE FinishReconcile
  BY <1>13 DEF FinishReconcile
<1>14. CASE SpinStart
  BY <1>14 DEF SpinStart
<1>15. CASE SpinOnce
  BY <1>15 DEF SpinOnce
<1>16. CASE SpinSome
  BY <1>16 DEF SpinSome
<1>17. CASE SpinLoop
  BY <1>17 DEF SpinLoop, SpinReturns
<1>18. CASE CheckEpochs
  BY <1>18 DEF CheckEpochs, StartReconcile, Changed
<1>19. CASE WaitReturns
  BY <1>19 DEF WaitReturns
<1>20. CASE WaitGivesUp
  BY <1>20 DEF WaitGivesUp, SpinReturns, Fail
<1>21. ASSUME NEW t \in triggered, Lookup(t) PROVE Notice'
  BY <1>21 DEF Lookup, Found
<1>22. CASE Dispatch
  BY <1>22 DEF Dispatch, Fail
<1>23. CASE StartAbsorb
  BY <1>23 DEF StartAbsorb
<1>24. ASSUME NEW n \in Nodes, Absorb(n) PROVE Notice'
  BY <1>24 DEF Absorb
<1>25. CASE FinishAbsorb
  BY <1>25 DEF FinishAbsorb, SpinReturns
<1>26. ASSUME UNCHANGED <<nodes, known, epoch, guard, upc, uarg, rpc, todo, attached,
                          desired, snapped, fails, spc>>
       PROVE  Notice'
  BY <1>26
<1> QED
  BY <1>1, <1>2, <1>3, <1>4, <1>5, <1>6, <1>7, <1>8, <1>9, <1>10, <1>11, <1>12,
     <1>13, <1>14, <1>15, <1>16, <1>17, <1>18, <1>19, <1>20, <1>21, <1>22,
     <1>23, <1>24, <1>25, <1>26
     DEF Next, NewCall, Completion, Reconcile, WaitAndProcess, TakeCancel,
         TakeWake, Arrive, vars

-----------------------------------------------------------------------------
(* cancel().                                                               *)

\* Past the test of the loop, a raised flag comes with a guard that is up or
\* about to go up.
CancelSeen ==
    mode = "spin" /\ spc \in {"check", "reconcile", "wait"} /\ cancelRequested =>
        cancelGuard \/ \E u \in Users : upc[u] = "cancel"

\* Every step keeps a requested cancel in sight.
LEMMA CancelSeenNext == TypeOK /\ Discipline /\ CancelSeen /\ [Next]_vars => CancelSeen'
<1> SUFFICES ASSUME TypeOK, Discipline, CancelSeen, [Next]_vars PROVE CancelSeen'
  OBVIOUS
<1> USE ConstantsAssumption DEF TypeOK, Discipline, CancelSeen, SpinnerAt, Spinner,
      NoThread
<1>1. ASSUME NEW u \in Users, NEW e \in Entities, AddEntity(u, e) PROVE CancelSeen'
  BY <1>1 DEF AddEntity, ChangeEntities, Call
<1>2. ASSUME NEW u \in Users, NEW e \in Entities, RemoveEntity(u, e) PROVE CancelSeen'
  BY <1>2 DEF RemoveEntity, ChangeEntities, Call
<1>3. ASSUME NEW u \in Users, NEW n \in Nodes, AddNode(u, n) PROVE CancelSeen'
  BY <1>3 DEF AddNode, StartReconcile, Call
<1>4. ASSUME NEW u \in Users, NEW n \in Nodes, RemoveNode(u, n) PROVE CancelSeen'
  BY <1>4 DEF RemoveNode, StartReconcile, Call
<1>5. ASSUME NEW u \in Users, Cancel(u) PROVE CancelSeen'
  BY <1>5 DEF Cancel, Call
<1>6. ASSUME NEW u \in Users, TriggerChange(u) PROVE CancelSeen'
  BY <1>6 DEF TriggerChange, Return
<1>7. ASSUME NEW u \in Users, TriggerWake(u) PROVE CancelSeen'
  BY <1>7 DEF TriggerWake, Return
<1>8. ASSUME NEW u \in Users, TriggerCancel(u) PROVE CancelSeen'
  BY <1>8 DEF TriggerCancel, Return
<1>9. CASE FinishReconcile
  BY <1>9 DEF FinishReconcile
<1>10. CASE SpinStart
  BY <1>10 DEF SpinStart
<1>11. CASE SpinOnce
  BY <1>11 DEF SpinOnce
<1>12. CASE SpinSome
  BY <1>12 DEF SpinSome
<1>13. CASE SpinLoop
  BY <1>13 DEF SpinLoop, SpinReturns
<1>14. CASE CheckEpochs
  BY <1>14 DEF CheckEpochs, StartReconcile, Changed
<1>15. CASE WaitReturns
  BY <1>15 DEF WaitReturns
<1>16. CASE WaitGivesUp
  BY <1>16 DEF WaitGivesUp, SpinReturns
<1>17. ASSUME NEW t \in triggered, TakeCancel(t) PROVE CancelSeen'
  BY <1>17 DEF TakeCancel
<1>18. ASSUME NEW t \in triggered, Lookup(t) PROVE CancelSeen'
  BY <1>18 DEF Lookup, Found
<1>19. CASE Dispatch
  BY <1>19 DEF Dispatch
<1>20. CASE StartAbsorb
  BY <1>20 DEF StartAbsorb
<1>21. CASE FinishAbsorb
  BY <1>21 DEF FinishAbsorb, SpinReturns
<1>22. ASSUME UNCHANGED <<mode, spc, cancelRequested, cancelGuard, upc>>
       PROVE  CancelSeen'
  BY <1>22
<1> QED
  BY <1>1, <1>2, <1>3, <1>4, <1>5, <1>6, <1>7, <1>8, <1>9, <1>10, <1>11, <1>12,
     <1>13, <1>14, <1>15, <1>16, <1>17, <1>18, <1>19, <1>20, <1>21, <1>22
     DEF Next, NewCall, Completion, Reconcile, WaitAndProcess, SnapEntities,
         SnapEpoch, DetachStale, Kept, ToAttach, AttachOne, FreshId, Fail,
         TakeWake, Absorb, Arrive, vars

\* The calls of cancel() that have yet to raise the guard.
Cancelling == {u \in Users : upc[u] = "cancel"}
Flag == IF mode = "spin" /\ cancelRequested THEN 1 ELSE 0
Guard == IF cancelGuard THEN 1 ELSE 0

\* What a cancel() can still end: the spin() that runs, by the flag, and later ones by
\* the guard, up or about to go up.  A reported cancel guard is still up.
Budget ==
    /\ IsFiniteSet(Cancelling)
    /\ ends + Flag + Guard + Cardinality(Cancelling) <= 2 * cancels
    /\ \A t \in triggered : t.id = 1 => cancelGuard /\ t.cond = CancelGuard

\* The loop of spin() is spin()'s.
Looping == spc = "loop" => mode = "spin"

\* Every step that enters the loop, or stays in it, is of spin().
LEMMA LoopingNext == Looping /\ [Next]_vars => Looping'
<1> SUFFICES ASSUME Looping, [Next]_vars PROVE Looping'
  OBVIOUS
<1>1. CASE SpinStart \/ SpinOnce \/ SpinSome \/ SpinLoop
  BY <1>1 DEF SpinStart, SpinOnce, SpinSome, SpinLoop, SpinReturns, Looping
<1>2. CASE FinishReconcile \/ FinishAbsorb \/ WaitGivesUp
  BY <1>2 DEF FinishReconcile, FinishAbsorb, WaitGivesUp, SpinReturns, Looping
<1>3. ASSUME UNCHANGED mode, spc' = spc \/ spc' # "loop" PROVE Looping'
  BY <1>3 DEF Looping
<1> QED
  BY <1>1, <1>2, <1>3
     DEF Next, NewCall, Completion, AddEntity, ChangeEntities, RemoveEntity, AddNode,
         RemoveNode, Cancel, TriggerChange, TriggerWake, TriggerCancel, Reconcile,
         SnapEntities, SnapEpoch, DetachStale, AttachOne, WaitAndProcess, CheckEpochs,
         WaitReturns, TakeCancel, TakeWake, Lookup, Dispatch, StartAbsorb, Absorb, Arrive,
         vars

\* A step that starts and ends no call of cancel() stays within the budget.
LEMMA BudgetKept ==
    ASSUME TypeOK, Budget, Cancelling' = Cancelling, cancels' = cancels, cancels' \in Nat,
           NEW d \in {0, 1}, ends' = ends + d, d + Flag' + Guard' <= Flag + Guard,
           \A t \in triggered' : t.id = 1 => cancelGuard' /\ t.cond = CancelGuard
    PROVE  Budget'
<1>1. Cardinality(Cancelling) \in Nat /\ Cardinality(Cancelling') = Cardinality(Cancelling)
  BY FS_CardinalityType DEF Budget
<1>2. /\ Flag \in {0, 1} /\ Flag' \in {0, 1} /\ Guard \in {0, 1} /\ Guard' \in {0, 1}
      /\ ends \in Nat
  BY DEF Flag, Guard, TypeOK
<1>3. ends' + Flag' + Guard' + Cardinality(Cancelling') <= 2 * cancels'
  <2>1. \A e, c, k \in Nat : \A f, g, x, y \in {0, 1} :
          d + x + y <= f + g /\ e + f + g + c <= k => (e + d) + x + y + c <= k
    OBVIOUS
  <2>2. 2 * cancels \in Nat /\ ends + Flag + Guard + Cardinality(Cancelling) <= 2 * cancels
    BY DEF Budget, TypeOK
  <2> QED BY <1>1, <1>2, <2>1, <2>2, Zenon
<1> QED BY <1>3 DEF Budget

\* Every step stays within the budget.
LEMMA BudgetNext == TypeOK /\ Ids /\ Looping /\ Budget /\ [Next]_vars => Budget'
<1> SUFFICES ASSUME TypeOK, Ids, Looping, Budget, [Next]_vars PROVE Budget'
  OBVIOUS
<1>0. /\ cancels \in Nat /\ ends \in Nat /\ Cardinality(Cancelling) \in Nat
      /\ Flag \in {0, 1} /\ Guard \in {0, 1} /\ Flag' \in {0, 1} /\ Guard' \in {0, 1}
  BY FS_CardinalityType DEF TypeOK, Budget, Flag, Guard
<1>1. ASSUME UNCHANGED <<mode, cancelRequested, cancelGuard, cancels, ends>>,
             Cancelling' = Cancelling, triggered' \subseteq triggered
      PROVE  Budget'
  <2>1. Flag' = Flag /\ Guard' = Guard
    BY <1>1 DEF Flag, Guard
  <2>2. ends' = ends + 0 /\ 0 + Flag' + Guard' <= Flag + Guard
    BY <1>0, <1>1, <2>1
  <2> QED BY <1>0, <1>1, <2>2, BudgetKept DEF Budget
<1>2. ASSUME NEW u \in Users, Cancel(u) PROVE Budget'
  <2>1. Cancelling' = Cancelling \cup {u} /\ u \notin Cancelling
    BY <1>2 DEF Cancel, Call, Cancelling, TypeOK
  <2>2. /\ IsFiniteSet(Cancelling')
        /\ Cardinality(Cancelling') = Cardinality(Cancelling) + 1
    BY <2>1, FS_AddElement DEF Budget
  <2>3. cancels' = cancels + 1 /\ ends' = ends /\ Guard' = Guard
    BY <1>2 DEF Cancel, Guard
  <2>4. ends' + Flag' + Guard' + Cardinality(Cancelling') <= 2 * cancels'
    BY <1>0, <2>2, <2>3 DEF Budget
  <2> QED BY <1>2, <2>2, <2>4 DEF Budget, Cancel
<1>3. ASSUME NEW u \in Users, TriggerCancel(u) PROVE Budget'
  <2>1. Cancelling' = Cancelling \ {u} /\ u \in Cancelling
    BY <1>3 DEF TriggerCancel, Return, Cancelling, TypeOK
  <2>2. /\ IsFiniteSet(Cancelling')
        /\ Cardinality(Cancelling') = Cardinality(Cancelling) - 1
    BY <2>1, FS_RemoveElement DEF Budget
  <2>3. cancels' = cancels /\ ends' = ends /\ Flag' = Flag
    BY <1>3 DEF TriggerCancel, Flag
  <2>4. ends' + Flag' + Guard' + Cardinality(Cancelling') <= 2 * cancels'
    BY <1>0, <2>2, <2>3 DEF Budget
  <2> QED BY <1>3, <2>2, <2>4 DEF Budget, TriggerCancel
<1>4. CASE SpinStart \/ SpinOnce \/ SpinSome
  <2>1. /\ Cancelling' = Cancelling /\ cancels' = cancels /\ ends' = ends + 0
        /\ UNCHANGED <<triggered, cancelGuard>>
    BY <1>0, <1>4 DEF SpinStart, SpinOnce, SpinSome, Cancelling
  <2>2. Flag' = 0 /\ Guard' = Guard
    BY <1>4 DEF SpinStart, SpinOnce, SpinSome, Flag, Guard
  <2>3. 0 + Flag' + Guard' <= Flag + Guard
    BY <1>0, <2>2
  <2> QED BY <1>0, <2>1, <2>3, BudgetKept DEF Budget
<1>5. CASE SpinLoop
  <2>1. /\ Cancelling' = Cancelling /\ cancels' = cancels
        /\ UNCHANGED <<triggered, cancelGuard, cancelRequested>>
    BY <1>5 DEF SpinLoop, Cancelling
  <2>2. Guard' = Guard
    BY <2>1 DEF Guard
  <2>3. CASE cancelRequested /\ SpinReturns /\ ends' = ends + 1 /\ mode = "spin"
    <3>1. Flag = 1 /\ Flag' = 0
      BY <2>3 DEF SpinReturns, Flag
    <3>2. 1 + Flag' + Guard' <= Flag + Guard
      BY <1>0, <2>2, <3>1
    <3> QED BY <1>0, <2>1, <2>3, <3>2, BudgetKept DEF Budget
  <2>4. CASE UNCHANGED <<mode, ends>>
    BY <1>1, <2>1, <2>4
  <2>5. mode = "spin"
    BY <1>5 DEF SpinLoop, SpinnerAt, Looping
  <2> QED BY <1>5, <2>3, <2>4, <2>5 DEF SpinLoop
<1>6. CASE WaitReturns
  <2>1. \A t \in triggered' : t.id = 1 => cancelGuard /\ t.cond = CancelGuard
    BY <1>6 DEF WaitReturns, Ready, Ids
  <2>2. /\ Cancelling' = Cancelling /\ cancels' = cancels /\ ends' = ends + 0
        /\ UNCHANGED <<mode, cancelRequested, cancelGuard>>
    BY <1>0, <1>6 DEF WaitReturns, Cancelling
  <2>3. 0 + Flag' + Guard' <= Flag + Guard
    BY <1>0, <2>2 DEF Flag, Guard
  <2> QED BY <1>0, <2>1, <2>2, <2>3, BudgetKept
<1>7. CASE WaitGivesUp \/ FinishAbsorb
  <2>1. /\ Cancelling' = Cancelling /\ cancels' = cancels /\ ends' = ends + 0
        /\ UNCHANGED <<triggered, cancelRequested, cancelGuard>> /\ mode' \in {mode, "none"}
    BY <1>0, <1>7 DEF WaitGivesUp, FinishAbsorb, SpinReturns, Cancelling
  <2>2. Flag' \in {0, Flag} /\ Guard' = Guard
    BY <2>1 DEF Flag, Guard
  <2>3. 0 + Flag' + Guard' <= Flag + Guard
    <3>1. \A x, y \in {0, 1} : 0 + x + y <= x + y /\ 0 + 0 + y <= x + y
      OBVIOUS
    <3> QED BY <1>0, <2>2, <3>1
  <2> QED BY <1>0, <2>1, <2>3, BudgetKept DEF Budget
<1>8. ASSUME NEW t \in triggered, TakeCancel(t) PROVE Budget'
  <2>1. /\ Cancelling' = Cancelling /\ cancels' = cancels /\ ends' = ends + 0
        /\ triggered' = triggered \ {t} /\ t.id = 1 /\ ~cancelGuard'
    BY <1>0, <1>8 DEF TakeCancel, Cancelling
  <2>2. Guard = 1 /\ Guard' = 0
    BY <2>1 DEF Budget, Guard
  <2>3. 0 + Flag' + Guard' <= Flag + Guard
    <3>1. \A x, y \in {0, 1} : 0 + x + 0 <= y + 1
      OBVIOUS
    <3> QED BY <1>0, <2>2, <3>1
  <2>4. \A r \in triggered' : r.id # 1
    <3>1. \A r \in triggered : r = [id |-> r.id, cond |-> r.cond]
      BY DEF TypeOK
    <3>2. \A r \in triggered : r.id = 1 => r = t
      BY <2>1, <3>1 DEF Budget
    <3> QED BY <2>1, <3>2
  <2> QED BY <1>0, <2>1, <2>3, <2>4, BudgetKept
<1>9. ASSUME NEW t \in triggered, TakeWake(t) \/ Lookup(t) PROVE Budget'
  BY <1>1, <1>9 DEF TakeWake, Lookup, Cancelling
<1>10. ASSUME NEW u \in Users,
              \/ \E e \in Entities : AddEntity(u, e) \/ RemoveEntity(u, e)
              \/ \E n \in Nodes : AddNode(u, n) \/ RemoveNode(u, n)
              \/ TriggerChange(u) \/ TriggerWake(u)
       PROVE  Budget'
  <2>1. Cancelling' = Cancelling
    BY <1>10 DEF AddEntity, RemoveEntity, ChangeEntities, AddNode, RemoveNode, Call,
                 TriggerChange, TriggerWake, Return, Cancelling, TypeOK
  <2> QED BY <1>1, <1>10, <2>1 DEF AddEntity, RemoveEntity, ChangeEntities, AddNode,
                 RemoveNode, TriggerChange, TriggerWake
<1>11. CASE FinishReconcile
  <2>1. Cancelling' = Cancelling
    BY <1>11 DEF FinishReconcile, Cancelling, TypeOK
  <2> QED BY <1>1, <1>11, <2>1 DEF FinishReconcile
<1>12. ASSUME UNCHANGED <<mode, cancelRequested, cancelGuard, cancels, ends, upc, triggered>>
       PROVE  Budget'
  BY <1>1, <1>12 DEF Cancelling
<1> QED
  BY <1>2, <1>3, <1>4, <1>5, <1>6, <1>7, <1>8, <1>9, <1>10, <1>11, <1>12
     DEF Next, NewCall, Completion, Reconcile, WaitAndProcess, SnapEntities, SnapEpoch,
         DetachStale, AttachOne, CheckEpochs, Dispatch, StartAbsorb, Absorb, Arrive, vars

-----------------------------------------------------------------------------
(* The attachment set, when the API is called on the spinner's thread.     *)

\* No epoch has been read that was not reached.
EpochsPast == \A n \in Nodes : known[n] <= epoch[n]

\* Every step keeps epochs behind.
LEMMA EpochsPastNext == TypeOK /\ EpochsPast /\ [Next]_vars => EpochsPast'
<1> SUFFICES ASSUME TypeOK, EpochsPast, [Next]_vars PROVE EpochsPast'
  OBVIOUS
<1> USE ConstantsAssumption DEF TypeOK, EpochsPast, NoEpoch
<1>1. ASSUME NEW u \in Users, NEW n \in Nodes, NEW es, ChangeEntities(u, n, es)
      PROVE  EpochsPast'
  BY <1>1 DEF ChangeEntities
<1>2. ASSUME NEW u \in Users, NEW n \in Nodes, AddNode(u, n) \/ RemoveNode(u, n)
      PROVE  EpochsPast'
  <2>1. epoch' = epoch /\ (known' = known \/ known' = [known EXCEPT ![n] = NoEpoch])
    BY <1>2 DEF AddNode, RemoveNode
  <2> QED BY <2>1
<1>3. CASE SnapEpoch
  BY <1>3 DEF SnapEpoch
<1>4. ASSUME UNCHANGED <<known, epoch>> PROVE EpochsPast'
  BY <1>4
<1> QED
  BY <1>1, <1>2, <1>3, <1>4
     DEF Next, NewCall, Completion, AddEntity, RemoveEntity, Cancel, TriggerChange,
         TriggerWake, TriggerCancel, Reconcile, SnapEntities, DetachStale, AttachOne,
         FinishReconcile, SpinStart, SpinOnce, SpinSome, SpinLoop, WaitAndProcess,
         CheckEpochs, WaitReturns, WaitGivesUp, TakeCancel, TakeWake, Lookup, Dispatch,
         StartAbsorb, Absorb, FinishAbsorb, Arrive, vars

\* The entities of n in a set of conditions are the ones it has.
Matches(n, cs) == \A e \in Entities : Owner[e] = n => (e \in cs <=> e \in entities[n])
Missing(n, cs) == \A e \in Entities : Owner[e] = n => e \notin cs

\* What reconcile_locked has read of a node is still true when it has read the epoch, so
\* that a node whose epoch is known has its entities attached.
Exact ==
    fails = 0 =>
        /\ rpc = "none" => \A n \in nodes : known[n] = epoch[n] => Matches(n, AttachedConds)
        /\ rpc \in {"entities", "epoch"} =>
             /\ \A n \in nodes \ todo : Matches(n, desired)
             /\ \A n \in todo : IF rpc = "epoch" /\ n = snapped
                               THEN Matches(n, desired) ELSE Missing(n, desired)
        /\ rpc = "attach" => \A n \in nodes : Matches(n, AttachedConds \cup desired)

\* Called on the spinner's thread only, nobody changes entities during a reconcile.
LEMMA NoChangeInside ==
    ASSUME Serial, TypeOK, Discipline, OnAllowedThread PROVE rpc = "none"
<1>1. spc \in {"idle", "dispatch"} /\ \A u \in Users : upc[u] \in {"idle", "cancel"}
  BY DEF OnAllowedThread, InCall
<1> QED BY <1>1 DEF TypeOK, Discipline

\* Then every step keeps what is attached exact.
LEMMA ExactNext ==
    ASSUME Serial
    PROVE  /\ TypeOK /\ Discipline /\ Membership /\ EpochsPast /\ Exact /\ [Next]_vars
           => Exact'
<1> SUFFICES ASSUME TypeOK, Discipline, Membership, EpochsPast, Exact, [Next]_vars,
                    fails' = 0
             PROVE  Exact'
  BY DEF Exact
<1>0. fails \in Nat
  BY DEF TypeOK
<1>1. ASSUME NEW u \in Users, NEW n \in Nodes, NEW es, ChangeEntities(u, n, es)
      PROVE  Exact'
  <2>1. rpc = "none" /\ UNCHANGED <<rpc, nodes, known, attached, fails>>
    BY <1>1, NoChangeInside DEF ChangeEntities
  <2>2. \A m \in Nodes : m # n => epoch'[m] = epoch[m] /\ entities'[m] = entities[m]
    BY <1>1 DEF ChangeEntities, TypeOK
  <2>3. known'[n] # epoch'[n]
    <3>1. epoch'[n] = epoch[n] + 1 /\ known' = known
      BY <1>1 DEF ChangeEntities, TypeOK
    <3>2. known[n] <= epoch[n] /\ epoch[n] \in Nat /\ known[n] \in Nat \cup {-1}
      BY DEF EpochsPast, TypeOK, NoEpoch
    <3> QED BY <3>1, <3>2
  <2>4. \A m \in nodes : m \in Nodes
    BY DEF TypeOK
  <2>5. AttachedConds' = AttachedConds
    BY <2>1 DEF AttachedConds
  <2>6. ASSUME NEW m \in nodes, known'[m] = epoch'[m] PROVE Matches(m, AttachedConds)'
    <3>1. m # n /\ m \in Nodes
      BY <2>3, <2>4, <2>6
    <3>2. Matches(m, AttachedConds)
      BY <2>1, <2>2, <2>6, <3>1 DEF Exact
    <3> QED BY <2>2, <2>5, <3>1, <3>2 DEF Matches
  <2> QED BY <2>1, <2>6 DEF Exact
<1>2. ASSUME rpc' = "entities", desired' = {}, todo' = nodes' PROVE Exact'
  BY <1>2 DEF Exact, Missing
<1>3. ASSUME NEW u \in Users, NEW n \in Nodes, AddNode(u, n) \/ RemoveNode(u, n)
      PROVE  Exact'
  BY <1>2, <1>3 DEF AddNode, RemoveNode, StartReconcile
<1>4. ASSUME NEW n \in Nodes, SnapEntities(n) PROVE Exact'
  <2>1. /\ rpc = "entities" /\ rpc' = "epoch" /\ snapped' = n /\ n \in todo
        /\ desired' = desired \cup {n} \cup entities[n]
        /\ UNCHANGED <<todo, nodes, entities, fails>>
    BY <1>4 DEF SnapEntities
  <2>2. todo \subseteq Nodes /\ nodes \subseteq Nodes
    BY DEF TypeOK
  <2>3. \A m \in Nodes, e \in Entities :
          m # n /\ Owner[e] = m => (e \in desired' <=> e \in desired)
    BY <2>1, ConstantsAssumption DEF Membership
  <2>4. \A e \in Entities : Owner[e] = n => (e \in desired' <=> e \in entities[n])
    BY <2>1, ConstantsAssumption DEF Exact, Missing
  <2>5. \A m \in nodes \ todo : Matches(m, desired)'
    BY <2>1, <2>2, <2>3 DEF Exact, Matches
  <2>6. \A m \in todo : m # n => Missing(m, desired)'
    BY <2>1, <2>2, <2>3 DEF Exact, Missing
  <2>7. Matches(n, desired)'
    BY <2>1, <2>4 DEF Matches
  <2> QED BY <2>1, <2>5, <2>6, <2>7 DEF Exact
<1>5. CASE SnapEpoch
  <2>1. /\ rpc = "epoch" /\ rpc' = "entities" /\ todo' = todo \ {snapped}
        /\ UNCHANGED <<desired, nodes, entities, fails>> /\ snapped \in todo
    BY <1>5 DEF SnapEpoch, Discipline
  <2>2. \A m : (Matches(m, desired)' <=> Matches(m, desired))
                /\ (Missing(m, desired)' <=> Missing(m, desired))
    BY <2>1 DEF Matches, Missing
  <2> QED BY <2>1, <2>2 DEF Exact
<1>6. CASE DetachStale
  <2>1. /\ rpc = "entities" /\ rpc' = "attach" /\ todo = {} /\ attached' = Kept
        /\ desired' = ToAttach /\ UNCHANGED <<nodes, entities, fails>>
    BY <1>6 DEF DetachStale
  <2>2. AttachedConds' \cup desired' = desired
    BY <2>1 DEF Kept, ToAttach, AttachedConds
  <2>3. \A m \in nodes : Matches(m, desired)
    BY <2>1 DEF Exact
  <2>4. \A m \in nodes : Matches(m, AttachedConds \cup desired)'
    BY <2>1, <2>2, <2>3 DEF Matches
  <2> QED BY <2>1, <2>4 DEF Exact
<1>7. ASSUME NEW c \in Conds, AttachOne(c) PROVE Exact'
  <2>1. /\ rpc = "attach" /\ rpc' = "attach" /\ c \in desired /\ desired' = desired \ {c}
        /\ UNCHANGED <<nodes, entities>> /\ fails = 0
        /\ attached' = attached \cup {[id |-> FreshId, cond |-> c]}
    BY <1>0, <1>7 DEF AttachOne, Fail
  <2>2. AttachedConds' = AttachedConds \cup {c}
    <3> DEFINE new == [id |-> FreshId, cond |-> c]
    <3>1. new \in attached' /\ new.cond = c
      BY <2>1
    <3>2. c \in AttachedConds'
      BY <3>1, Zenon DEF AttachedConds
    <3>3. attached' = attached \cup {new}
      BY <2>1
    <3> HIDE DEF new
    <3>4. AttachedConds \subseteq AttachedConds'
      BY <3>3, Zenon DEF AttachedConds
    <3>5. AttachedConds' \subseteq AttachedConds \cup {c}
      BY <3>1, <3>3, Zenon DEF AttachedConds
    <3> QED BY <3>2, <3>4, <3>5
  <2>3. AttachedConds' \cup desired' = AttachedConds \cup desired
    BY <2>1, <2>2
  <2>4. \A m \in nodes : Matches(m, AttachedConds \cup desired)'
    BY <2>1, <2>3 DEF Exact, Matches
  <2> QED BY <2>1, <2>4 DEF Exact
<1>8. CASE FinishReconcile
  <2>1. /\ rpc = "attach" /\ rpc' = "none" /\ desired = {}
        /\ UNCHANGED <<nodes, entities, attached, fails>>
    BY <1>8 DEF FinishReconcile
  <2>2. AttachedConds' = AttachedConds /\ AttachedConds \cup desired = AttachedConds
    BY <2>1 DEF AttachedConds
  <2>3. \A m \in nodes : Matches(m, AttachedConds)'
    BY <2>1, <2>2 DEF Exact, Matches
  <2> QED BY <2>1, <2>3 DEF Exact
<1>9. ASSUME rpc = "none", UNCHANGED <<rpc, nodes, known, epoch, entities, attached>>,
             fails = 0
      PROVE  Exact'
  <2>1. AttachedConds' = AttachedConds
    BY <1>9 DEF AttachedConds
  <2>2. \A m : Matches(m, AttachedConds)' <=> Matches(m, AttachedConds)
    BY <1>9, <2>1 DEF Matches
  <2> QED BY <1>9, <2>2 DEF Exact
<1>10. ASSUME UNCHANGED <<rpc, nodes, known, epoch, entities, attached, desired, todo,
                          snapped>>,
              fails = 0
       PROVE  Exact'
  <2>1. AttachedConds' = AttachedConds
    BY <1>10 DEF AttachedConds
  <2>2. \A m : /\ Matches(m, AttachedConds)' <=> Matches(m, AttachedConds)
               /\ Matches(m, desired)' <=> Matches(m, desired)
               /\ Matches(m, AttachedConds \cup desired)'
                     <=> Matches(m, AttachedConds \cup desired)
               /\ Missing(m, desired)' <=> Missing(m, desired)
    BY <1>10, <2>1 DEF Matches, Missing
  <2> QED BY <1>10, <2>2 DEF Exact
<1>11. CASE CheckEpochs
  <2>1. CASE StartReconcile(Spinner, nodes)
    BY <1>2, <1>11, <2>1 DEF CheckEpochs, StartReconcile
  <2>2. CASE UNCHANGED reconVars
    BY <1>10, <1>11, <2>2 DEF CheckEpochs
  <2> QED BY <1>11, <2>1, <2>2 DEF CheckEpochs
<1>12. CASE StartAbsorb \/ FinishAbsorb \/ \E n \in Nodes : Absorb(n)
  <2>1. rpc = "none"
    BY <1>12 DEF StartAbsorb, FinishAbsorb, Absorb, SpinnerAt, Discipline
  <2> QED BY <1>9, <1>12, <2>1 DEF StartAbsorb, FinishAbsorb, Absorb
<1>13. CASE WaitGivesUp \/ Dispatch
  BY <1>0, <1>10, <1>13 DEF WaitGivesUp, Dispatch, Fail
<1>14. \A e \in Entities : Owner[e] \in Nodes
  BY ConstantsAssumption
<1> QED
  BY <1>1, <1>3, <1>4, <1>5, <1>6, <1>7, <1>8, <1>10, <1>11, <1>12, <1>13, <1>14
     DEF Next, NewCall, Completion, AddEntity, RemoveEntity, Cancel, TriggerChange,
         TriggerWake, TriggerCancel, Reconcile, SpinStart, SpinOnce, SpinSome, SpinLoop,
         WaitAndProcess, WaitReturns, TakeCancel, TakeWake, Lookup, Arrive, vars

-----------------------------------------------------------------------------
(* spin_some().                                                            *)

\* A wait has room for everything that can be attached and the executor's two guards.
Roomy == IsFiniteSet(Conds) /\ Cardinality(Conds) + 2 <= MaxTriggers

\* Then one wait reports all that is ready.
LEMMA ReadyFits == ASSUME Roomy, TypeOK, Ids PROVE Cardinality(Ready) <= TriggerLimit
<1> DEFINE condOf == [a \in attached |-> a.cond]
           one == [id |-> 1, cond |-> CancelGuard]
           two == [id |-> 2, cond |-> WakeGuard]
<1>1. condOf \in [attached -> Conds] /\ \A a, b \in attached : condOf[a] = condOf[b] => a = b
  BY DEF TypeOK, Ids, AttachedOnce
<1>2. condOf \in Injection(attached, Conds)
  BY <1>1 DEF Injection, IsInjective
<1>3. IsFiniteSet(attached) /\ Cardinality(attached) <= Cardinality(Conds)
  BY <1>2, FS_Injection DEF Roomy
<1>4. ASSUME NEW S, NEW x, IsFiniteSet(S)
      PROVE  IsFiniteSet(S \cup {x}) /\ Cardinality(S \cup {x}) <= Cardinality(S) + 1
  <2>1. Cardinality(S) \in Nat
    BY <1>4, FS_CardinalityType
  <2>2. /\ IsFiniteSet(S \cup {x})
        /\ Cardinality(S \cup {x}) = IF x \in S THEN Cardinality(S) ELSE Cardinality(S) + 1
    BY <1>4, FS_AddElement, Zenon
  <2> QED BY <2>1, <2>2
<1>5. /\ IsFiniteSet((attached \cup {one}) \cup {two})
      /\ Cardinality((attached \cup {one}) \cup {two}) <= Cardinality(attached) + 2
  <2> HIDE DEF one, two
  <2>1. /\ IsFiniteSet(attached \cup {one})
        /\ Cardinality(attached \cup {one}) <= Cardinality(attached) + 1
    BY <1>3, <1>4
  <2>2. /\ IsFiniteSet((attached \cup {one}) \cup {two})
        /\ Cardinality((attached \cup {one}) \cup {two}) <= Cardinality(attached \cup {one}) + 1
    BY <1>4, <2>1
  <2>3. /\ Cardinality(attached) \in Nat /\ Cardinality(attached \cup {one}) \in Nat
        /\ Cardinality((attached \cup {one}) \cup {two}) \in Nat
    BY <1>3, <2>1, <2>2, FS_CardinalityType
  <2> QED BY <2>1, <2>2, <2>3
<1>6. Ready \subseteq (attached \cup {one}) \cup {two}
  BY DEF Ready
<1>7. IsFiniteSet(Ready) /\ Cardinality(Ready) <= Cardinality((attached \cup {one}) \cup {two})
  BY <1>5, <1>6, FS_Subset
<1>8. /\ Cardinality(Ready) \in Nat /\ Cardinality(attached) \in Nat
      /\ Cardinality(Conds) \in Nat /\ MaxTriggers \in Nat
      /\ Cardinality((attached \cup {one}) \cup {two}) \in Nat
  BY <1>3, <1>5, <1>7, FS_CardinalityType, ConstantsAssumption DEF Roomy
<1> HIDE DEF one, two
<1> QED BY <1>3, <1>5, <1>7, <1>8 DEF Roomy, TriggerLimit

\* What spin_some() still has to dispatch is attached and ready, and in a pass its id
\* is among those that the pass has left; no pass ends with anything left.
Awaits(e) ==
    /\ data[e] > 0
    /\ \E a \in attached : a.cond = e /\ (spc \in {"process", "dispatch"} => a \in triggered)
Owing ==
    fails = 0 /\ mode = "some" =>
        /\ spc \in {"check", "reconcile", "wait", "process", "dispatch", "absorb"}
        /\ spc = "absorb" => owed = {}
        /\ \A e \in owed : (spc = "dispatch" /\ e = cur) \/ Awaits(e)

\* Every step of the spinner and of the threads beside it keeps that so.
LEMMA OwingNext ==
    ASSUME Roomy
    PROVE  /\ TypeOK /\ Discipline /\ Ids /\ Looping /\ Owing /\ [Next]_vars => Owing'
<1> SUFFICES ASSUME TypeOK, Discipline, Ids, Looping, Owing, [Next]_vars,
                    fails' = 0, mode' = "some"
             PROVE  Owing'
  BY DEF Owing
<1>0. fails \in Nat /\ owed \subseteq Entities /\ data \in [Entities -> Nat]
  BY DEF TypeOK
<1>1. CASE SpinSome
  <2>1. owed' = {e \in Entities : e \in AttachedConds /\ data[e] > 0} /\ spc' = "check"
        /\ UNCHANGED <<attached, data>>
    BY <1>1 DEF SpinSome
  <2> QED BY <2>1 DEF Owing, Awaits, AttachedConds
<1>2. CASE DetachStale
  <2>1. /\ attached' = Kept /\ owed' = {e \in owed : e \in AttachedConds => e \in desired}
        /\ UNCHANGED <<data, triggered, spc, mode, cur, fails>>
    BY <1>2 DEF DetachStale
  <2>2. ASSUME NEW e \in owed', Awaits(e) PROVE Awaits(e)'
    <3>1. PICK a \in attached : a.cond = e /\ (spc \in {"process", "dispatch"} => a \in triggered)
      BY <2>2 DEF Awaits
    <3>2. e \in AttachedConds
      BY <3>1 DEF AttachedConds
    <3>3. a \in Kept
      BY <2>1, <3>1, <3>2 DEF Kept
    <3> QED BY <2>1, <2>2, <3>1, <3>3 DEF Awaits
  <2> QED BY <2>1, <2>2 DEF Owing
<1>3. ASSUME NEW c \in Conds, AttachOne(c) PROVE Owing'
  <2>1. attached \subseteq attached' /\ UNCHANGED <<data, triggered, spc, mode, cur, fails, owed>>
    BY <1>0, <1>3 DEF AttachOne, Fail
  <2> QED BY <2>1 DEF Owing, Awaits
<1>4. CASE WaitReturns
  <2>1. triggered' = Ready
    BY <1>4, ReadyFits DEF WaitReturns
  <2>2. /\ spc = "wait" /\ spc' = "process"
        /\ UNCHANGED <<attached, data, mode, fails, owed>>
    BY <1>4 DEF WaitReturns, SpinnerAt
  <2>3. ASSUME NEW e \in owed' PROVE Awaits(e)'
    <3>1. e \in Entities /\ Awaits(e)
      BY <1>0, <2>2, <2>3 DEF Owing
    <3>2. PICK a \in attached : a.cond = e
      BY <3>1 DEF Awaits
    <3>3. a \in Ready
      BY <3>1, <3>2, ConstantsAssumption DEF Ready, Awaits
    <3> QED BY <2>1, <2>2, <3>1, <3>2, <3>3 DEF Awaits
  <2> QED BY <2>2, <2>3 DEF Owing
<1>5. ASSUME NEW t \in triggered, Lookup(t) PROVE Owing'
  <2>1. /\ spc = "process" /\ t.id > 2 /\ triggered' = triggered \ {t}
        /\ UNCHANGED <<attached, data, mode, fails, owed>>
    BY <1>5 DEF Lookup, SpinnerAt
  <2>2. ASSUME NEW e \in owed PROVE (spc' = "dispatch" /\ e = cur') \/ Awaits(e)'
    <3>1. e \in Entities /\ data[e] > 0 /\ Awaits(e)
      BY <1>0, <2>1, <2>2 DEF Owing, Awaits
    <3>2. PICK a \in attached : a.cond = e /\ a \in triggered
      BY <2>1, <3>1 DEF Awaits
    <3>3. CASE a = t
      <4>1. a \in Found(t)
        BY <3>1, <3>2, <3>3 DEF Found
      <4>2. PICK b \in Found(t) : cur' = b.cond /\ spc' = "dispatch"
        BY <1>5, <4>1 DEF Lookup
      <4>3. b.cond = t.cond
        BY <4>2 DEF Found, Ids, StaleIdsAreDead
      <4> QED BY <3>2, <3>3, <4>2, <4>3
    <3>4. CASE a # t
      BY <2>1, <3>1, <3>2, <3>4 DEF Awaits
    <3> QED BY <3>3, <3>4
  <2>3. spc' \in {"process", "dispatch"}
    BY <1>5, <2>1 DEF Lookup
  <2> QED BY <2>1, <2>2, <2>3 DEF Owing
<1>6. ASSUME NEW t \in triggered, TakeCancel(t) \/ TakeWake(t) PROVE Owing'
  <2>1. /\ t.id <= 2 /\ triggered' = triggered \ {t} /\ spc = "process"
        /\ UNCHANGED <<attached, data, spc, mode, cur, fails, owed>>
    BY <1>6 DEF TakeCancel, TakeWake, SpinnerAt
  <2>2. \A a \in attached : a # t
    BY <2>1 DEF Ids, TypeOK
  <2> QED BY <2>1, <2>2 DEF Owing, Awaits
<1>7. CASE Dispatch
  <2>1. /\ spc = "dispatch" /\ spc' \in {"process", "dispatch"}
        /\ data' = [data EXCEPT ![cur] = Left(@)]
        /\ (spc' = "dispatch" => cur' = cur /\ owed' = owed)
        /\ (spc' = "process" => owed' = owed \ {cur})
        /\ UNCHANGED <<attached, triggered, mode, fails>>
    BY <1>0, <1>7 DEF Dispatch, SpinnerAt, Fail
  <2>2. ASSUME NEW e \in owed, e # cur PROVE Awaits(e)'
    <3>1. Awaits(e) /\ data'[e] = data[e]
      BY <1>0, <2>1, <2>2 DEF Owing
    <3> QED BY <2>1, <3>1 DEF Awaits
  <2> QED BY <2>1, <2>2 DEF Owing
<1>8. CASE StartAbsorb
  <2>1. /\ spc = "process" /\ spc' = "absorb" /\ triggered = {}
        /\ UNCHANGED <<mode, fails, owed>>
    BY <1>8 DEF StartAbsorb, SpinnerAt
  <2>2. owed = {}
    BY <2>1 DEF Owing, Awaits
  <2> QED BY <2>1, <2>2 DEF Owing
<1>9. ASSUME NEW n \in Nodes, Absorb(n) PROVE Owing'
  BY <1>9 DEF Absorb, Owing, SpinnerAt
<1>10. CASE FinishAbsorb
  BY <1>10 DEF FinishAbsorb, Owing, SpinnerAt, SpinReturns
<1>11. ASSUME NEW e \in Entities, Arrive(e) PROVE Owing'
  <2>1. data' = [data EXCEPT ![e] = @ + 1] /\ UNCHANGED <<attached, triggered, spc, mode, cur, fails, owed>>
    BY <1>11 DEF Arrive
  <2>2. \A f \in owed : data[f] > 0 => data'[f] > 0
    BY <1>0, <2>1
  <2> QED BY <2>1, <2>2 DEF Owing, Awaits
<1>12. ASSUME UNCHANGED <<data, attached, triggered, mode, cur, fails, owed>>,
              spc' = spc \/ {spc, spc'} \subseteq {"check", "reconcile", "wait"}
       PROVE  Owing'
  BY <1>12 DEF Owing, Awaits
<1>13. CASE CheckEpochs
  BY <1>12, <1>13 DEF CheckEpochs, SpinnerAt
<1>14. CASE FinishReconcile
  BY <1>12, <1>14 DEF FinishReconcile, Discipline, Owing
<1>15. CASE SpinStart \/ SpinOnce \/ SpinLoop \/ WaitGivesUp
  BY <1>15 DEF SpinStart, SpinOnce, SpinLoop, WaitGivesUp, SpinReturns, SpinnerAt, Looping
<1> QED
  BY <1>1, <1>2, <1>3, <1>4, <1>5, <1>6, <1>7, <1>8, <1>9, <1>10, <1>11, <1>12, <1>13,
     <1>14, <1>15
     DEF Next, NewCall, Completion, AddEntity, ChangeEntities, RemoveEntity, AddNode,
         RemoveNode, Cancel, TriggerChange, TriggerWake, TriggerCancel, Reconcile,
         SnapEntities, SnapEpoch, WaitAndProcess, vars

-----------------------------------------------------------------------------
(* The theorems.                                                           *)

\* The inductive invariant: types, the lock discipline and the arguments that rest
\* on them.
IInv ==
    /\ TypeOK /\ Discipline /\ Ids /\ Membership /\ Notice /\ CancelSeen
    /\ Looping /\ Budget /\ EpochsPast /\ (Serial => Exact) /\ (Roomy => Owing)

\* The inductive invariant holds of the constructor's state.
LEMMA IInvInit == Init => IInv
<1> SUFFICES ASSUME Init PROVE IInv
  OBVIOUS
<1>1. TypeOK
  BY TypeInit
<1>2. Discipline
  BY ConstantsAssumption DEF Init, Discipline, Spinner, NoThread
<1>3. Ids /\ Membership /\ Notice
  BY DEF Init, Ids, StaleIdsAreDead, AttachedOnce, Membership, Notice
<1>4. CancelSeen
  BY DEF Init, CancelSeen
<1>5. Looping /\ EpochsPast /\ Exact /\ Owing
  BY DEF Init, Looping, EpochsPast, Exact, NoEpoch, Owing
<1>6. Budget
  <2>1. Cancelling = {} /\ Flag = 0 /\ Guard = 0
    BY DEF Init, Cancelling, Flag, Guard
  <2>2. IsFiniteSet(Cancelling) /\ Cardinality(Cancelling) = 0
    BY <2>1, FS_EmptySet
  <2> QED BY <2>1, <2>2 DEF Init, Budget
<1> QED BY <1>1, <1>2, <1>3, <1>4, <1>5, <1>6 DEF IInv

\* The inductive invariant is an invariant of the executor.
THEOREM Invariance == Spec => []IInv
<1>1. IInv /\ [Next]_vars => IInv'
  BY TypeNext, DisciplineNext, IdsNext, MembershipNext, NoticeNext, CancelSeenNext,
     LoopingNext, BudgetNext, EpochsPastNext, ExactNext, OwingNext
     DEF IInv
<1> QED BY IInvInit, <1>1, PTL DEF Spec

\* An id the waitset reported is never handed to another condition before it
\* is looked up, whatever other threads attach and detach in between.
THEOREM IdsAreNotReused == Spec => []StaleIdsAreDead
<1>1. IInv => StaleIdsAreDead
  BY DEF IInv, Ids
<1> QED BY Invariance, <1>1, PTL

\* reconcile_locked never attaches a condition twice.
THEOREM AttachesOnce == Spec => []AttachedOnce
<1>1. IInv => AttachedOnce
  BY DEF IInv, Ids
<1> QED BY Invariance, <1>1, PTL

\* A spinner that waits has missed no entity change: the epoch and change guard
\* protocol between Node and Executor loses no wakeup.
THEOREM NoLostWakeup == Spec => []ChangeIsNoticed
<1>1. ASSUME IInv PROVE ChangeIsNoticed
  <2> USE <1>1 DEF IInv, Notice, Discipline, TypeOK
  <2> SUFFICES ASSUME spc = "wait", fails = 0,
                      NEW n \in nodes, known[n] # epoch[n]
               PROVE  \/ guard[n] /\ (lock = NoThread => n \in AttachedConds)
                      \/ \E u \in Users : upc[u] = "trigger" /\ uarg[u] = n
                      \/ lock # NoThread /\ n \in todo
    BY DEF ChangeIsNoticed
  <2>1. lock = NoThread => n \in AttachedConds
    OBVIOUS
  <2>2. rpc # "none" => lock # NoThread
    OBVIOUS
  <2> QED BY <2>1, <2>2
<1> QED BY Invariance, <1>1, PTL

\* Once remove_node has returned, nothing of the node is attached.
THEOREM NodesOnly == Spec => []AttachedAreOfNodes
<1>1. IInv => AttachedAreOfNodes
  BY DEF IInv, Discipline, Membership, AttachedAreOfNodes
<1> QED BY Invariance, <1>1, PTL

\* wait_and_process starts no dispatch of an entity whose node was removed.
THEOREM RemovedAreSilent == Spec => RemovedNodesStaySilent
<1> DEFINE Starts == spc # "dispatch" /\ spc' = "dispatch" => Owner[cur'] \in nodes
<1>1. ASSUME IInv, [Next]_vars PROVE Starts
  <2> SUFFICES ASSUME spc # "dispatch", spc' = "dispatch" PROVE Owner[cur'] \in nodes
    OBVIOUS
  <2>1. PICK t \in triggered : Lookup(t)
    BY <1>1
       DEF Next, NewCall, Completion, Reconcile, WaitAndProcess, AddEntity,
           ChangeEntities, RemoveEntity, AddNode, RemoveNode, Cancel, TriggerChange,
           TriggerWake, TriggerCancel, SnapEntities, SnapEpoch, DetachStale,
           AttachOne, FinishReconcile, SpinStart, SpinOnce, SpinSome, SpinLoop,
           SpinReturns, CheckEpochs, WaitReturns, WaitGivesUp, TakeCancel, TakeWake,
           Dispatch, SpinnerAt, StartAbsorb, Absorb, FinishAbsorb, Arrive, vars
  <2>2. PICK a \in Found(t) : cur' = a.cond
    BY <2>1 DEF Lookup
  <2>3. a \in attached /\ a.cond \in Entities /\ lock = NoThread
    BY <2>1, <2>2 DEF Lookup, Found
  <2>4. NodeOf(a.cond) \in nodes
    BY <1>1, <2>3 DEF IInv, Discipline, Membership
  <2> QED BY <2>2, <2>3, <2>4, ConstantsAssumption DEF NodeOf
<1>2. IInv /\ [Next]_vars => [Starts]_vars
  BY <1>1
<1> QED BY Invariance, <1>2, PTL DEF Spec, RemovedNodesStaySilent

\* spin() never blocks with a cancel() pending and nothing to wake it.
THEOREM CancelReaches == Spec => []CancelIsNotLost
<1>1. IInv => CancelIsNotLost
  BY DEF IInv, CancelSeen, CancelIsNotLost
<1> QED BY Invariance, <1>1, PTL

\* One cancel() ends at most two calls of spin(), however many threads cancel and
\* however often spin() is called (the flag that SpinStart clears, the guard it leaves).
THEOREM CancelIsBounded == Spec => []CancelEndsAtMostTwo
<1>1. ASSUME IInv PROVE CancelEndsAtMostTwo
  <2>1. /\ ends + Flag + Guard + Cardinality(Cancelling) <= 2 * cancels
        /\ Flag \in {0, 1} /\ Guard \in {0, 1} /\ Cardinality(Cancelling) \in Nat
        /\ ends \in Nat /\ 2 * cancels \in Nat
    BY <1>1, FS_CardinalityType DEF IInv, Budget, Flag, Guard, TypeOK
  <2>2. \A e, c, k \in Nat : \A f, g \in {0, 1} : e + f + g + c <= k => e <= k
    OBVIOUS
  <2>3. ends <= 2 * cancels
    BY <2>1, <2>2, Zenon
  <2> QED BY <2>3 DEF CancelEndsAtMostTwo
<1> QED BY Invariance, <1>1, PTL

\* Called on the spinner's thread only, the executor waits on exactly the entities of its
\* nodes: reconcile_locked's two reads of a node see the same entities.
THEOREM SerialIsCurrent == Serial => (Spec => []QuiescentIsCurrent)
<1>1. ASSUME Serial, IInv PROVE QuiescentIsCurrent
  <2> SUFFICES ASSUME spc = "wait", fails = 0, Ready = {}, \A u \in Users : upc[u] = "idle",
                      NEW e \in Entities, Owner[e] \in nodes
               PROVE  e \in AttachedConds <=> e \in entities[Owner[e]]
    BY DEF QuiescentIsCurrent
  <2> DEFINE n == Owner[e]
  <2>1. TypeOK /\ Discipline /\ Notice /\ Exact /\ n \in Nodes
    BY <1>1 DEF IInv, TypeOK
  <2>2. rpc = "none"
    BY <2>1 DEF TypeOK, Discipline
  <2>3. n \in AttachedConds
    BY <2>1, <2>2 DEF Notice
  <2>4. ~guard[n]
    BY <2>1, <2>3 DEF Ready, AttachedConds
  <2>5. known[n] = epoch[n]
    BY <2>1, <2>2, <2>4 DEF Notice
  <2> QED BY <2>1, <2>2, <2>5 DEF Exact, Matches
<1>2. CASE Serial
  <2>1. IInv => QuiescentIsCurrent
    BY <1>1, <1>2
  <2> QED BY Invariance, <2>1, PTL
<1> QED BY <1>2

\* As long as no wait reports more than MAX_TRIGGERS conditions, spin_some() returns
\* only after it has dispatched what was ready when it was called.
THEOREM SomeDrains == Roomy => (Spec => SpinSomeDrains)
<1> DEFINE Drained == mode = "some" /\ mode' = "none" /\ fails' = 0 => owed = {}
<1>1. ASSUME Roomy, IInv, [Next]_vars PROVE Drained
  <2> SUFFICES ASSUME mode = "some", mode' = "none", fails' = 0 PROVE owed = {}
    OBVIOUS
  <2>1. TypeOK /\ Looping /\ Owing
    BY <1>1 DEF IInv
  <2>2. WaitGivesUp \/ FinishAbsorb
    BY <1>1, <2>1
       DEF Next, NewCall, Completion, Reconcile, WaitAndProcess, AddEntity,
           ChangeEntities, RemoveEntity, AddNode, RemoveNode, Cancel, TriggerChange,
           TriggerWake, TriggerCancel, SnapEntities, SnapEpoch, DetachStale,
           AttachOne, FinishReconcile, SpinStart, SpinOnce, SpinSome, SpinLoop,
           SpinReturns, CheckEpochs, WaitReturns, TakeCancel, TakeWake, Lookup,
           Dispatch, SpinnerAt, StartAbsorb, Absorb, Arrive, Looping, vars
  <2>3. CASE WaitGivesUp
    <3>1. spc = "wait" /\ fails = 0 /\ Ready = {} /\ owed \subseteq Entities
      BY <2>1, <2>3 DEF WaitGivesUp, SpinnerAt, Fail, TypeOK
    <3>2. ASSUME NEW e \in owed PROVE FALSE
      <4>1. e \in Entities /\ data[e] > 0 /\ \E a \in attached : a.cond = e
        BY <2>1, <3>1, <3>2 DEF Owing, Awaits
      <4>2. PICK a \in attached : a.cond = e
        BY <4>1
      <4>3. a \in Ready
        BY <4>1, <4>2, ConstantsAssumption DEF Ready
      <4> QED BY <3>1, <4>3
    <3> QED BY <3>2
  <2>4. CASE FinishAbsorb
    BY <2>1, <2>4 DEF FinishAbsorb, SpinnerAt, Owing, SpinReturns
  <2> QED BY <2>2, <2>3, <2>4
<1>2. Roomy /\ IInv /\ [Next]_vars => [Drained]_vars
  BY <1>1
<1>3. ASSUME Roomy PROVE IInv /\ [Next]_vars => [Drained]_vars
  BY <1>2, <1>3
<1> SUFFICES ASSUME Roomy PROVE Spec => SpinSomeDrains
  OBVIOUS
<1> QED BY Invariance, <1>3, PTL DEF Spec, SpinSomeDrains

===============================================================================

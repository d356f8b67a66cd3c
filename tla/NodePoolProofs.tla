--------------------------- MODULE NodePoolProofs ---------------------------
(***************************************************************************)
(* NodePool for every set of pools, nodes, hostnames and quantities, and   *)
(* any number of disturbances: type correctness, and what a pool's handler *)
(* guarantees about the pool's nodes.                                      *)
(***************************************************************************)
EXTENDS NodePool, FiniteSetTheorems, TLAPS

\* The possible contents of the API server's, and of a list's, nodes.
NodeMap == [Nodes -> NodeType \cup {NoNode}]

\* Deleting a node keeps the type of the nodes.
LEMMA DeletedType ==
  ASSUME NEW ns \in NodeMap, NEW n \in Nodes
  PROVE  Deleted(ns, n) \in NodeMap
  BY ZenonT(30) DEF Deleted, NodeType, NodeMap

\* What the surroundings and the handler write into a node.
LEMMA NodeUpdates ==
  ASSUME NEW m \in NodeType
  PROVE  /\ \A t \in {"no", "known", "unknown"} : [m EXCEPT !.taint = t] \in NodeType
         /\ \A t \in {"known", "unknown"} : [m EXCEPT !.taint = t, !.since = m.since + 1] \in NodeType
         /\ \A x \in {"ok", "failed"}, c \in (SUBSET AllRoles) \cup {NoConfig} :
              [m EXCEPT !.state = x, !.config = c] \in NodeType
         /\ \A c \in SUBSET AllRoles : [m EXCEPT !.config = c] \in NodeType
<1>1. \A t \in {"no", "known", "unknown"} : [m EXCEPT !.taint = t] \in NodeType
  BY DEF NodeType
<1>2. \A t \in {"known", "unknown"} : [m EXCEPT !.taint = t, !.since = m.since + 1] \in NodeType
  <2>1. m.since + 1 \in Nat
    BY DEF NodeType
  <2>2. \A k \in Nat, t \in {"known", "unknown"} : [m EXCEPT !.taint = t, !.since = k] \in NodeType
    BY Zenon DEF NodeType
  <2> QED BY <2>1, <2>2, Zenon
<1>3. \A x \in {"ok", "failed"}, c \in (SUBSET AllRoles) \cup {NoConfig} :
        [m EXCEPT !.state = x, !.config = c] \in NodeType
  BY Zenon DEF NodeType
<1>4. \A c \in SUBSET AllRoles : [m EXCEPT !.config = c] \in NodeType
  BY DEF NodeType
<1> QED BY <1>1, <1>2, <1>3, <1>4, Zenon

\* What the users write into a pool.
LEMMA PoolUpdates ==
  ASSUME NEW s \in PoolType
  PROVE  /\ s.quantity \in Int /\ s.roles \in SUBSET AllRoles
         /\ \A q \in Quantities : [s EXCEPT !.quantity = q] \in PoolType
         /\ \A r \in SUBSET AllRoles : [s EXCEPT !.roles = r] \in PoolType
         /\ [s EXCEPT !.phase = "deleting"] \in PoolType
<1>1. s.quantity \in Quantities \cup {0} /\ s.roles \in SUBSET AllRoles
  BY DEF PoolType
<1>2. \A q \in Quantities : [s EXCEPT !.quantity = q] \in PoolType
  BY DEF PoolType
<1>3. \A r \in SUBSET AllRoles : [s EXCEPT !.roles = r] \in PoolType
  BY DEF PoolType
<1>4. [s EXCEPT !.phase = "deleting"] \in PoolType
  BY DEF PoolType
<1>5. s.quantity \in Int
  <2>1. Quantities \cup {0} \subseteq Int
    BY QuantitiesAssumption
  <2> QED BY <1>1, <2>1, Zenon
<1> QED BY <1>1, <1>2, <1>3, <1>4, <1>5

\* The types hold at the start.
LEMMA TypeInit == Init => TypeOK
<1> SUFFICES ASSUME Init PROVE TypeOK
  OBVIOUS
<1>1. pool \in [Pools -> PoolType]
  BY RoleSetsAssumption DEF Init, PoolType
<1>2. asked \in [Pools -> Nat]
  <2>1. \A p \in Pools : pool[p].quantity \in Int
    BY <1>1, PoolUpdates, Zenon
  <2> QED BY <2>1 DEF Init, Quantity
<1>3. NoPool \in PoolType /\ NoNodes \in NodeMap
  BY DEF NoPool, PoolType, NoNodes, NodeMap
<1> QED BY <1>1, <1>2, <1>3 DEF Init, TypeOK, NodeMap

\* Steps that change the nodes and nothing else ...
LEMMA NodeStep ==
  ASSUME TypeOK, node' \in NodeMap, changes' \in Nat,
         UNCHANGED <<poolVars, nodeCache, queue, pc, localVars, goVars, overdue, asked>>
  PROVE  TypeOK'
  BY DEF TypeOK, NodeMap, poolVars, localVars, goVars

\* ... or the pools, and nothing else.
LEMMA PoolStep ==
  ASSUME TypeOK, pool' \in [Pools -> PoolType], asked' \in [Pools -> Nat], changes' \in Nat,
         UNCHANGED <<poolCache, nodeVars, queue, pc, localVars, goVars, overdue>>
  PROVE  TypeOK'
  BY DEF TypeOK, nodeVars, localVars, goVars

\* Every step keeps the types.
LEMMA TypeStep == TypeOK /\ [Next]_vars => TypeOK'
<1> SUFFICES ASSUME TypeOK, [Next]_vars PROVE TypeOK'
  OBVIOUS
<1>n. NoPool \in PoolType /\ NoNodes \in NodeMap
  BY DEF NoPool, PoolType, NoNodes, NodeMap
<1>m. node \in NodeMap /\ \A n \in Nodes : node[n] # NoNode => node[n] \in NodeType
  BY DEF TypeOK, NodeMap
<1>p. \A p \in Pools : pool[p] \in PoolType /\ spec[p] \in PoolType
  BY DEF TypeOK
<1>s. \A n \in Nodes : node[n] # NoNode => SavedConfig(n) \in SUBSET AllRoles
  BY <1>m DEF SavedConfig, NodeType, AllRoles
<1>c. changes + 1 \in Nat
  BY DEF TypeOK
<1> USE DEF poolVars, nodeVars, localVars, goVars
\* A step that replaces one node by m.
<1>r. ASSUME NEW n \in Nodes, NEW m \in NodeType, node' = [node EXCEPT ![n] = m]
      PROVE  node' \in NodeMap
  BY <1>m, <1>r DEF NodeMap
<1>1. ASSUME NEW p \in Pools, PoolEvent(p) PROVE TypeOK'
  BY <1>1 DEF PoolEvent, TypeOK
<1>2. ASSUME NEW p \in Pools, Take(p) PROVE TypeOK'
  BY <1>2 DEF Take, Goto, TypeOK
<1>3. ASSUME NEW p \in Pools, List(p) PROVE TypeOK'
  BY <1>3 DEF List, Goto, Own, Exists, TypeOK
<1>4. ASSUME NEW p \in Pools, Removed(p) PROVE TypeOK'
  BY <1>4, <1>n DEF Removed, Finish, Goto, TypeOK, NodeMap
<1>5. ASSUME NEW p \in Pools, Checked(p) PROVE TypeOK'
  BY <1>5 DEF Checked, Goto, TypeOK
<1>6. ASSUME NEW p \in Pools, Create(p) PROVE TypeOK'
  <2>1. PICK n \in Nodes, h \in Hosts :
          /\ node' = [node EXCEPT ![n] = NewNode(p, h)]
          /\ list' = [list EXCEPT ![p] = [list[p] EXCEPT ![n] = NewNode(p, h)]]
          /\ kept' = [kept EXCEPT ![p] = kept[p] \cup {n}]
          /\ overdue' = {o \in overdue : o[1] # n}
    BY <1>6, Zenon DEF Create
  <2>2. UNCHANGED <<poolVars, nodeCache, queue, pc, spec, todo, goVars, asked, changes>>
    BY <1>6, Zenon DEF Create
  <2>3. NewNode(p, h) \in NodeType
    <3>1. spec[p].roles \in SUBSET AllRoles
      BY <1>p, PoolUpdates, Zenon
    <3>2. ASSUME NEW R \in SUBSET AllRoles, NEW c \in (SUBSET AllRoles) \cup {NoConfig}, NEW d \in BOOLEAN
          PROVE  [pool |-> p, host |-> h, state |-> "new", taint |-> "no", since |-> 0, roles |-> R,
                  config |-> c, deleting |-> d] \in NodeType
      BY DEF NodeType
    <3> QED BY <3>1, <3>2, Zenon DEF NewNode
  <2>4. node' \in NodeMap
    BY <1>r, <2>1, <2>3, Zenon
  <2>5. list' \in [Pools -> NodeMap]
    BY <2>1, <2>3 DEF TypeOK, NodeMap
  <2>6. kept' \in [Pools -> SUBSET Nodes] /\ overdue' \subseteq Nodes \X Nat
    BY <2>1 DEF TypeOK
  <2> QED BY <2>2, <2>4, <2>5, <2>6 DEF TypeOK, NodeMap
<1>7. ASSUME NEW p \in Pools, Trim(p) PROVE TypeOK'
  BY <1>7, DeletedType DEF Trim, Change, TypeOK, NodeMap
<1>8. ASSUME NEW p \in Pools, Sized(p) PROVE TypeOK'
  BY <1>8 DEF Sized, Goto, TypeOK
<1>9. ASSUME NEW p \in Pools, Reconciled(p) PROVE TypeOK'
  BY <1>9, <1>n DEF Reconciled, Finish, Goto, TypeOK, NodeMap
<1>10. ASSUME NEW p \in Pools, NEW n \in Nodes, RemoveNode(p, n) PROVE TypeOK'
  <2>1. node' \in NodeMap
    BY <1>10, <1>m, DeletedType DEF RemoveNode
  <2>2. CASE node[n] = NoNode
    <3>1. /\ Finish(p) /\ queue' = queue \cup {p}
          /\ UNCHANGED <<poolVars, nodeCache, goVars, overdue, asked, changes>>
      BY <1>10, <2>2, Zenon DEF RemoveNode
    <3> QED BY <1>n, <2>1, <3>1 DEF Finish, Goto, TypeOK, NodeMap
  <2>3. CASE node[n] # NoNode
    <3>1. /\ todo' = [todo EXCEPT ![p] = @ \ {n}]
          /\ UNCHANGED <<poolVars, nodeCache, queue, pc, spec, list, kept, goVars, overdue, asked, changes>>
      BY <1>10, <2>3, Zenon DEF RemoveNode
    <3> QED BY <2>1, <3>1 DEF TypeOK, NodeMap
  <2> QED BY <2>2, <2>3
<1>11. ASSUME NEW p \in Pools, NEW n \in Nodes, Check(p, n) PROVE TypeOK'
  <2>1. node' \in NodeMap
    BY <1>11, <1>m, DeletedType DEF Check
  <2>2. /\ timers' \in SUBSET Nodes /\ syncmap' \in SUBSET Nodes /\ looping' \in SUBSET Nodes
        /\ UNCHANGED <<poolVars, nodeCache, leaving, overdue, asked, changes>>
    BY <1>11 DEF Check, TypeOK
  <2>3. CASE Expired(p, n) /\ node[n] = NoNode
    <3>1. Finish(p) /\ queue' = queue \cup {p}
      BY <1>11, <2>3, Zenon DEF Check
    <3> QED BY <1>n, <2>1, <2>2, <3>1 DEF Finish, Goto, TypeOK, NodeMap
  <2>4. CASE ~(Expired(p, n) /\ node[n] = NoNode)
    <3>1. todo' = [todo EXCEPT ![p] = @ \ {n}] /\ UNCHANGED <<queue, pc, spec, list, kept>>
      BY <1>11, <2>4, Zenon DEF Check
    <3> QED BY <2>1, <2>2, <3>1 DEF TypeOK, NodeMap
  <2> QED BY <2>3, <2>4
<1>12. ASSUME NEW p \in Pools, NEW n \in Nodes, UpdateNodeRoles(p, n) PROVE TypeOK'
  <2>1. CASE node[n] # NoNode /\ node[n] = list[p][n]
    <3>1. node[n] \in NodeType /\ spec[p].roles \in SUBSET AllRoles
      BY <1>m, <1>p, <2>1, PoolUpdates, Zenon
    <3> DEFINE m == [node[n] EXCEPT !.config = spec[p].roles]
    <3>2. m \in NodeType
      BY <3>1, NodeUpdates, Zenon
    <3>3. node' = [node EXCEPT ![n] = m]
      BY <1>12, <2>1, Zenon DEF UpdateNodeRoles
    <3>4. /\ todo' = [todo EXCEPT ![p] = @ \ {n}]
          /\ UNCHANGED <<poolVars, nodeCache, queue, pc, spec, list, kept, goVars, overdue, asked, changes>>
      BY <1>12, <2>1, Zenon DEF UpdateNodeRoles
    <3> HIDE DEF m
    <3>5. node' \in NodeMap
      BY <1>r, <3>2, <3>3, Zenon
    <3> QED BY <3>4, <3>5 DEF TypeOK, NodeMap
  <2>2. CASE ~(node[n] # NoNode /\ node[n] = list[p][n])
    <3>1. /\ Finish(p) /\ queue' = queue \cup {p}
          /\ UNCHANGED <<poolVars, nodeVars, goVars, overdue, asked, changes>>
      BY <1>12, <2>2, Zenon DEF UpdateNodeRoles
    <3> QED BY <1>n, <3>1 DEF Finish, Goto, TypeOK, NodeMap
  <2> QED BY <2>1, <2>2
<1>13. ASSUME NEW n \in Nodes, MachineChanged(n) PROVE TypeOK'
  BY <1>13 DEF MachineChanged, NodeType, TypeOK
<1>14. ASSUME NEW n \in Nodes, DelayedDelete(n) PROVE TypeOK'
  BY <1>14, <1>m, DeletedType, Zenon DEF DelayedDelete, TypeOK, NodeMap
<1>15. ASSUME NEW n \in Nodes, Requeue(n) PROVE TypeOK'
  <2>1. nodeCache[n] # NoNode => nodeCache[n].pool \in Pools
    BY DEF TypeOK, NodeType
  <2> QED BY <1>15, <2>1 DEF Requeue, TypeOK
<1>16. ASSUME NEW n \in Nodes, Leave(n) PROVE TypeOK'
  BY <1>16 DEF Leave, TypeOK
<1>17. ASSUME NEW n \in Nodes, Provision(n) PROVE TypeOK'
  <2> DEFINE m == [node[n] EXCEPT !.state = "ok", !.config = SavedConfig(n)]
  <2>1. m \in NodeType
    BY <1>17, <1>m, <1>s, NodeUpdates, Zenon DEF Provision, Alive
  <2>2. /\ node' = [node EXCEPT ![n] = m]
        /\ UNCHANGED <<poolVars, nodeCache, queue, pc, localVars, goVars, overdue, asked, changes>>
    BY <1>17, Zenon DEF Provision
  <2> HIDE DEF m
  <2> QED BY <1>r, <2>1, <2>2, NodeStep, Zenon DEF TypeOK
<1>18. ASSUME NEW n \in Nodes, Finalize(n) PROVE TypeOK'
  <2>1. node' \in NodeMap
    BY <1>18, <1>m DEF Finalize, NodeMap
  <2>2. changes' \in Nat /\ UNCHANGED <<poolVars, nodeCache, queue, pc, localVars, goVars, overdue, asked>>
    BY <1>18 DEF Finalize, TypeOK
  <2> QED BY <2>1, <2>2, NodeStep
<1>30. ASSUME NEW n \in Nodes, Ages(n) PROVE TypeOK'
  <2>1. node[n].since \in Nat
    BY <1>30, <1>m, Zenon DEF Ages, Alive, NodeType
  <2>2. /\ overdue' = overdue \cup {<<n, node[n].since>>}
        /\ UNCHANGED <<poolVars, nodeVars, queue, pc, localVars, goVars, asked, changes>>
    BY <1>30, Zenon DEF Ages
  <2> QED BY <2>1, <2>2 DEF TypeOK
<1>19. ASSUME NEW n \in Nodes, ReadyUnknown(n) PROVE TypeOK'
  <2> DEFINE m == [node[n] EXCEPT !.taint = "unknown"]
  <2>1. m \in NodeType
    BY <1>19, <1>m, NodeUpdates, Zenon DEF ReadyUnknown, Alive
  <2>2. /\ node' = [node EXCEPT ![n] = m]
        /\ UNCHANGED <<poolVars, nodeCache, queue, pc, localVars, goVars, overdue, asked, changes>>
    BY <1>19, Zenon DEF ReadyUnknown
  <2> HIDE DEF m
  <2> QED BY <1>r, <2>1, <2>2, NodeStep, Zenon DEF TypeOK
<1>20. CASE Resync
  BY <1>20 DEF Resync, TypeOK
<1>21. ASSUME NEW p \in Pools, Scale(p) PROVE TypeOK'
  <2>1. PICK q \in Quantities :
          /\ pool' = [pool EXCEPT ![p] = [pool[p] EXCEPT !.quantity = q]]
          /\ asked' = [asked EXCEPT ![p] = IF q > asked[p] THEN q ELSE asked[p]]
    BY <1>21, Zenon DEF Scale
  <2>2. UNCHANGED <<poolCache, nodeVars, queue, pc, localVars, goVars, overdue>> /\ changes' = changes + 1
    BY <1>21, Zenon DEF Scale, Change
  <2> DEFINE s == [pool[p] EXCEPT !.quantity = q]
  <2>3. s \in PoolType
    BY <1>p, PoolUpdates, Zenon
  <2>4. pool' = [pool EXCEPT ![p] = s]
    BY <2>1
  <2> HIDE DEF s
  <2>5. pool' \in [Pools -> PoolType]
    BY <2>3, <2>4 DEF TypeOK
  <2>6. asked' \in [Pools -> Nat]
    BY <2>1, QuantitiesAssumption DEF TypeOK
  <2> QED BY <1>c, <2>2, <2>5, <2>6, PoolStep
<1>22. ASSUME NEW p \in Pools, ChangeRoles(p) PROVE TypeOK'
  <2>1. PICK r \in RoleSets : pool' = [pool EXCEPT ![p] = [pool[p] EXCEPT !.roles = r]]
    BY <1>22, Zenon DEF ChangeRoles
  <2>2. /\ UNCHANGED <<poolCache, nodeVars, queue, pc, localVars, goVars, overdue, asked>>
        /\ changes' = changes + 1
    BY <1>22, Zenon DEF ChangeRoles, Change
  <2> DEFINE s == [pool[p] EXCEPT !.roles = r]
  <2>3. s \in PoolType
    BY <1>p, RoleSetsAssumption, PoolUpdates, Zenon
  <2>4. pool' = [pool EXCEPT ![p] = s]
    BY <2>1
  <2> HIDE DEF s
  <2>5. pool' \in [Pools -> PoolType] /\ asked' \in [Pools -> Nat]
    BY <2>2, <2>3, <2>4 DEF TypeOK
  <2> QED BY <1>c, <2>2, <2>5, PoolStep
<1>23. ASSUME NEW p \in Pools, DeletePool(p) PROVE TypeOK'
  <2>1. pool' = [pool EXCEPT ![p] = [pool[p] EXCEPT !.phase = "deleting"]]
    BY <1>23, Zenon DEF DeletePool
  <2>2. /\ UNCHANGED <<poolCache, nodeVars, queue, pc, localVars, goVars, overdue, asked>>
        /\ changes' = changes + 1
    BY <1>23, Zenon DEF DeletePool, Change
  <2> DEFINE s == [pool[p] EXCEPT !.phase = "deleting"]
  <2>3. s \in PoolType
    BY <1>p, PoolUpdates
  <2>4. pool' = [pool EXCEPT ![p] = s]
    BY <2>1
  <2> HIDE DEF s
  <2>5. pool' \in [Pools -> PoolType] /\ asked' \in [Pools -> Nat]
    BY <2>2, <2>3, <2>4 DEF TypeOK
  <2> QED BY <1>c, <2>2, <2>5, PoolStep
<1>24. ASSUME NEW p \in Pools, Fails(p) PROVE TypeOK'
  BY <1>24, <1>n DEF Fails, Change, Finish, Goto, TypeOK, NodeMap
<1>25. ASSUME NEW n \in Nodes, DeleteNode(n) PROVE TypeOK'
  <2>1. node' \in NodeMap
    BY <1>25, <1>m, DeletedType, Zenon DEF DeleteNode
  <2>2. changes' \in Nat
    BY <1>25, <1>c, Zenon DEF DeleteNode, Change
  <2> QED BY <1>25, <2>1, <2>2, NodeStep, Zenon DEF DeleteNode
<1>26. ASSUME NEW n \in Nodes, ProvisionFails(n) PROVE TypeOK'
  <2>1. PICK c \in {NoConfig, SavedConfig(n)} :
          node' = [node EXCEPT ![n] = [node[n] EXCEPT !.state = "failed", !.config = c]]
    BY <1>26, Zenon DEF ProvisionFails
  <2>2. /\ changes' = changes + 1
        /\ UNCHANGED <<poolVars, nodeCache, queue, pc, localVars, goVars, overdue, asked>>
    BY <1>26, Zenon DEF ProvisionFails, Change
  <2> DEFINE m == [node[n] EXCEPT !.state = "failed", !.config = c]
  <2>3. m \in NodeType
    <3>1. node[n] \in NodeType /\ SavedConfig(n) \in SUBSET AllRoles
      BY <1>26, <1>m, <1>s, Zenon DEF ProvisionFails, Alive
    <3>2. c \in (SUBSET AllRoles) \cup {NoConfig}
      <4>1. c = NoConfig \/ c = SavedConfig(n)
        BY <2>1
      <4>2. \A S, x, y : x \in S => x \in S \cup {y} /\ y \in S \cup {y}
        OBVIOUS
      <4>3. SavedConfig(n) \in (SUBSET AllRoles) \cup {NoConfig}
        BY <3>1, <4>2
      <4> QED BY <4>1, <4>3
    <3> QED BY <3>1, <3>2, NodeUpdates, Zenon
  <2>4. node' = [node EXCEPT ![n] = m]
    BY <2>1
  <2> HIDE DEF m
  <2> QED BY <1>c, <1>r, <2>2, <2>3, <2>4, NodeStep, Zenon
<1>27. ASSUME NEW n \in Nodes, Outage(n) PROVE TypeOK'
  <2>1. PICK m \in NodeType : node' = [node EXCEPT ![n] = m]
    <3>1. node[n] \in NodeType
      BY <1>27, <1>m DEF Outage, Alive
    <3>2. CASE node' = [node EXCEPT ![n] = [node[n] EXCEPT !.taint = "no"]]
      BY <3>1, <3>2, NodeUpdates, Zenon
    <3>3. ASSUME NEW t \in {"known", "unknown"},
                 node' = [node EXCEPT ![n] = [node[n] EXCEPT !.taint = t, !.since = node[n].since + 1]]
          PROVE  \E m \in NodeType : node' = [node EXCEPT ![n] = m]
      BY <3>1, <3>3, NodeUpdates, Zenon
    <3> QED BY <1>27, <3>2, <3>3, ZenonT(30) DEF Outage
  <2>2. /\ changes' = changes + 1
        /\ UNCHANGED <<poolVars, nodeCache, queue, pc, localVars, goVars, overdue, asked>>
    BY <1>27, Zenon DEF Outage, Change
  <2> QED BY <1>c, <1>r, <2>1, <2>2, NodeStep, Zenon
<1>28. CASE Restart
  <2>1. /\ changes' = changes + 1
        /\ poolCache' = pool /\ nodeCache' = node
        /\ queue' = {p \in Pools : pool[p] # NoPool}
        /\ pc' = [p \in Pools |-> "idle"]
        /\ spec' = [p \in Pools |-> NoPool]
        /\ list' = [p \in Pools |-> NoNodes]
        /\ kept' = [p \in Pools |-> {}] /\ todo' = [p \in Pools |-> {}]
        /\ timers' = {} /\ syncmap' = {} /\ looping' = {} /\ leaving' = {}
        /\ UNCHANGED <<pool, node, overdue, asked>>
    BY <1>28, Zenon DEF Restart, Change, LastChange
  <2> QED BY <1>n, <2>1 DEF TypeOK, NodeMap
<1>29. CASE UNCHANGED vars
  BY <1>29 DEF vars, TypeOK
<1> QED
  BY <1>1, <1>2, <1>3, <1>4, <1>5, <1>6, <1>7, <1>8, <1>9, <1>10, <1>11, <1>12, <1>13, <1>14,
     <1>15, <1>16, <1>17, <1>18, <1>19, <1>20, <1>21, <1>22, <1>23, <1>24, <1>25, <1>26, <1>27,
     <1>28, <1>29, <1>30
     DEF Next, Handler, Goroutine, Machine, Disturbance

\* Type correctness of NodePool.
THEOREM TypeCorrect == Spec => []TypeOK
<1>1. Init => TypeOK
  BY TypeInit
<1>2. TypeOK /\ [Next]_vars => TypeOK'
  BY TypeStep
<1> QED BY <1>1, <1>2, PTL DEF Spec

-----------------------------------------------------------------------------
(* What the steps do to the nodes and to the handlers.  Most steps do one of *)
(* three things, so the invariants below need a case for each of those only. *)

\* A node that is there was there before, in the same pool and with the same
\* hostname, and its deletion is not taken back.
NodesPersist ==
  \A n \in Nodes :
    node'[n] # NoNode =>
      /\ node[n] # NoNode
      /\ node'[n].pool = node[n].pool /\ node'[n].host = node[n].host
      /\ node[n].deleting => node'[n].deleting

\* The handlers do not move.
Quiet == NodesPersist /\ UNCHANGED <<poolVars, pc, localVars, asked>>

\* The handler of p returns.
Returns(p) == NodesPersist /\ Finish(p) /\ UNCHANGED <<poolVars, asked>>

\* The handler of p is done with one of the nodes in its todo list.
Visits(p, n) ==
  /\ NodesPersist
  /\ todo' = [todo EXCEPT ![p] = @ \ {n}]
  /\ pc[p] = "remove" /\ node'[n] # NoNode => node'[n].deleting
  /\ UNCHANGED <<poolVars, pc, spec, list, kept, asked>>

\* Nodes that do not change persist, ...
LEMMA SameNodes ==
  ASSUME UNCHANGED node
  PROVE  NodesPersist
  BY DEF NodesPersist

\* ... a deletion lets them persist and marks the one deleted, ...
LEMMA DeletedPersist ==
  ASSUME TypeOK, NEW n \in Nodes, node' = Deleted(node, n)
  PROVE  NodesPersist /\ (node'[n] # NoNode => node'[n].deleting)
<1>1. CASE node[n] = NoNode
  BY <1>1 DEF Deleted, NodesPersist
<1>2. CASE node[n] # NoNode
  <2>1. node[n] \in NodeType
    BY <1>2 DEF TypeOK
  <2> DEFINE m == [node[n] EXCEPT !.deleting = TRUE]
  <2>2. m.pool = node[n].pool /\ m.host = node[n].host /\ m.deleting
    BY <2>1 DEF NodeType
  <2>3. node' = [node EXCEPT ![n] = m]
    BY <1>2, Zenon DEF Deleted
  <2> HIDE DEF m
  <2>4. node'[n] = m /\ \A k \in Nodes \ {n} : node'[k] = node[k]
    BY <2>3 DEF TypeOK
  <2> QED BY <1>2, <2>2, <2>4, Zenon DEF NodesPersist
<1> QED BY <1>1, <1>2

\* ... and so do new conditions of one of them.
LEMMA ReplacedPersist ==
  ASSUME TypeOK, NEW n \in Nodes, NEW m, node' = [node EXCEPT ![n] = m], node[n] # NoNode,
         m.pool = node[n].pool, m.host = node[n].host, m.deleting = node[n].deleting
  PROVE  NodesPersist
<1>1. node'[n] = m /\ \A k \in Nodes \ {n} : node'[k] = node[k]
  BY DEF TypeOK
<1> QED BY <1>1, Zenon DEF NodesPersist

\* Scaling down deletes a node or, when the call fails, does nothing to it.
LEMMA TrimPersist ==
  ASSUME TypeOK, NEW p \in Pools, Trim(p)
  PROVE  NodesPersist
<1>1. kept[p] \subseteq Nodes
  BY DEF TypeOK
<1>2. CASE UNCHANGED node
  BY <1>2, SameNodes
<1>3. ASSUME NEW n \in kept[p], node' = Deleted(node, n) PROVE NodesPersist
  BY <1>1, <1>3, DeletedPersist
<1> QED BY <1>2, <1>3, Zenon DEF Trim

\* Every step is quiet, a return, a visit or one of the twelve that are left.
LEMMA StepCases ==
  ASSUME TypeOK, [Next]_vars
  PROVE  \/ Quiet
         \/ Restart
         \/ \E p \in Pools :
              \/ Returns(p)
              \/ \E n \in Nodes : Visits(p, n)
              \/ PoolEvent(p) \/ Scale(p) \/ ChangeRoles(p) \/ DeletePool(p)
              \/ Take(p) \/ List(p) \/ Removed(p) \/ Checked(p)
              \/ Create(p) \/ Trim(p) \/ Sized(p)
<1>m. \A n \in Nodes : node[n] # NoNode => node[n] \in NodeType
  BY DEF TypeOK
<1> USE DEF poolVars, nodeVars, localVars, goVars
<1>1. ASSUME NEW p \in Pools, Reconciled(p) PROVE Returns(p)
  BY <1>1, SameNodes, Zenon DEF Reconciled, Returns
<1>2. ASSUME NEW p \in Pools, Fails(p) PROVE Returns(p)
  BY <1>2, SameNodes, Zenon DEF Fails, Returns
<1>3. ASSUME NEW p \in Pools, NEW n \in Nodes, RemoveNode(p, n) PROVE Returns(p) \/ Visits(p, n)
  <2>1. NodesPersist /\ (node'[n] # NoNode => node'[n].deleting)
    BY <1>3, DeletedPersist, Zenon DEF RemoveNode
  <2>2. CASE node[n] = NoNode
    BY <1>3, <2>1, <2>2, Zenon DEF RemoveNode, Returns
  <2>3. CASE node[n] # NoNode
    BY <1>3, <2>1, <2>3, Zenon DEF RemoveNode, Visits
  <2> QED BY <2>2, <2>3
<1>4. ASSUME NEW p \in Pools, NEW n \in Nodes, Check(p, n) PROVE Returns(p) \/ Visits(p, n)
  <2>1. NodesPersist
    <3>1. CASE Expired(p, n)
      BY <1>4, <3>1, DeletedPersist, Zenon DEF Check
    <3>2. CASE ~Expired(p, n)
      BY <1>4, <3>2, SameNodes, Zenon DEF Check
    <3> QED BY <3>1, <3>2
  <2>2. pc[p] # "remove"
    BY <1>4 DEF Check
  <2>3. CASE Expired(p, n) /\ node[n] = NoNode
    BY <1>4, <2>1, <2>3, Zenon DEF Check, Returns
  <2>4. CASE ~(Expired(p, n) /\ node[n] = NoNode)
    BY <1>4, <2>1, <2>2, <2>4, Zenon DEF Check, Visits
  <2> QED BY <2>3, <2>4
<1>5. ASSUME NEW p \in Pools, NEW n \in Nodes, UpdateNodeRoles(p, n) PROVE Returns(p) \/ Visits(p, n)
  <2>1. CASE node[n] # NoNode /\ node[n] = list[p][n]
    <3> DEFINE m == [node[n] EXCEPT !.config = spec[p].roles]
    <3>1. m.pool = node[n].pool /\ m.host = node[n].host /\ m.deleting = node[n].deleting
      <4>1. node[n] \in NodeType
        BY <1>m, <2>1
      <4> QED BY <4>1, Zenon DEF NodeType
    <3>2. node' = [node EXCEPT ![n] = m]
      BY <1>5, <2>1, Zenon DEF UpdateNodeRoles
    <3> HIDE DEF m
    <3>3. NodesPersist
      BY <2>1, <3>1, <3>2, ReplacedPersist, Zenon
    <3>4. pc[p] # "remove"
      BY <1>5 DEF UpdateNodeRoles
    <3> QED BY <1>5, <2>1, <3>3, <3>4, Zenon DEF UpdateNodeRoles, Visits
  <2>2. CASE ~(node[n] # NoNode /\ node[n] = list[p][n])
    BY <1>5, <2>2, SameNodes, Zenon DEF UpdateNodeRoles, Returns
  <2> QED BY <2>1, <2>2
<1>6. ASSUME NEW n \in Nodes, MachineChanged(n) \/ Requeue(n) \/ Leave(n) \/ Ages(n) PROVE Quiet
  BY <1>6, SameNodes, Zenon DEF MachineChanged, Requeue, Leave, Ages, Quiet
<1>7. ASSUME NEW n \in Nodes, DelayedDelete(n) \/ DeleteNode(n) PROVE Quiet
  BY <1>7, DeletedPersist, Zenon DEF DelayedDelete, DeleteNode, Quiet
<1>8. ASSUME NEW n \in Nodes, Finalize(n) PROVE Quiet
  <2>1. NodesPersist
    BY <1>8 DEF Finalize, NodesPersist, TypeOK
  <2> QED BY <1>8, <2>1, Zenon DEF Finalize, Quiet
\* A machine's step replaces the node by a copy u with other conditions.
<1>9. ASSUME NEW n \in Nodes, NEW u, node[n] # NoNode, node' = [node EXCEPT ![n] = u],
             u.pool = node[n].pool, u.host = node[n].host, u.deleting = node[n].deleting,
             UNCHANGED <<poolVars, pc, localVars, asked>>
      PROVE  Quiet
  BY <1>9, ReplacedPersist, Zenon DEF Quiet
<1>10. ASSUME NEW n \in Nodes, Provision(n) PROVE Quiet
  <2> DEFINE u == [node[n] EXCEPT !.state = "ok", !.config = SavedConfig(n)]
  <2>1. node[n] # NoNode /\ node' = [node EXCEPT ![n] = u] /\ UNCHANGED <<poolVars, pc, localVars, asked>>
    BY <1>10, Zenon DEF Provision, Alive
  <2>2. u.pool = node[n].pool /\ u.host = node[n].host /\ u.deleting = node[n].deleting
    <3>1. node[n] \in NodeType
      BY <1>m, <2>1
    <3> QED BY <3>1, Zenon DEF NodeType
  <2> HIDE DEF u
  <2> QED BY <1>9, <2>1, <2>2, Zenon
<1>11. ASSUME NEW n \in Nodes, ProvisionFails(n) PROVE Quiet
  <2>1. PICK c : node' = [node EXCEPT ![n] = [node[n] EXCEPT !.state = "failed", !.config = c]]
    BY <1>11, Zenon DEF ProvisionFails
  <2> DEFINE u == [node[n] EXCEPT !.state = "failed", !.config = c]
  <2>2. node[n] # NoNode /\ node' = [node EXCEPT ![n] = u] /\ UNCHANGED <<poolVars, pc, localVars, asked>>
    BY <1>11, <2>1, Zenon DEF ProvisionFails, Alive
  <2>3. u.pool = node[n].pool /\ u.host = node[n].host /\ u.deleting = node[n].deleting
    <3>1. node[n] \in NodeType
      BY <1>m, <2>2
    <3> QED BY <3>1, Zenon DEF NodeType
  <2> HIDE DEF u
  <2> QED BY <1>9, <2>2, <2>3, Zenon
<1>12. ASSUME NEW n \in Nodes, ReadyUnknown(n) PROVE Quiet
  <2> DEFINE u == [node[n] EXCEPT !.taint = "unknown"]
  <2>1. node[n] # NoNode /\ node' = [node EXCEPT ![n] = u] /\ UNCHANGED <<poolVars, pc, localVars, asked>>
    BY <1>12, Zenon DEF ReadyUnknown, Alive
  <2>2. u.pool = node[n].pool /\ u.host = node[n].host /\ u.deleting = node[n].deleting
    <3>1. node[n] \in NodeType
      BY <1>m, <2>1
    <3> QED BY <3>1, Zenon DEF NodeType
  <2> HIDE DEF u
  <2> QED BY <1>9, <2>1, <2>2, Zenon
<1>13. ASSUME NEW n \in Nodes, Outage(n) PROVE Quiet
  <2>1. node[n] # NoNode /\ UNCHANGED <<poolVars, pc, localVars, asked>>
    BY <1>13, Zenon DEF Outage, Alive
  <2>2. node[n] \in NodeType
    BY <1>m, <2>1
  <2>3. CASE node' = [node EXCEPT ![n] = [node[n] EXCEPT !.taint = "no"]]
    <3> DEFINE u == [node[n] EXCEPT !.taint = "no"]
    <3>1. u.pool = node[n].pool /\ u.host = node[n].host /\ u.deleting = node[n].deleting
      BY <2>2, Zenon DEF NodeType
    <3>2. node' = [node EXCEPT ![n] = u]
      BY <2>3
    <3> HIDE DEF u
    <3> QED BY <1>9, <2>1, <3>1, <3>2, Zenon
  <2>4. ASSUME NEW t, node' = [node EXCEPT ![n] = [node[n] EXCEPT !.taint = t, !.since = node[n].since + 1]]
        PROVE  Quiet
    <3> DEFINE u == [node[n] EXCEPT !.taint = t, !.since = node[n].since + 1]
    <3>1. u.pool = node[n].pool /\ u.host = node[n].host /\ u.deleting = node[n].deleting
      BY <2>2, Zenon DEF NodeType
    <3>2. node' = [node EXCEPT ![n] = u]
      BY <2>4
    <3> HIDE DEF u
    <3> QED BY <1>9, <2>1, <3>1, <3>2, Zenon
  <2> QED BY <1>13, <2>3, <2>4, Zenon DEF Outage
<1>14. CASE Resync
  BY <1>14, SameNodes, Zenon DEF Resync, Quiet
<1>15. CASE UNCHANGED vars
  BY <1>15, SameNodes DEF vars, Quiet
<1> QED
  BY <1>1, <1>2, <1>3, <1>4, <1>5, <1>6, <1>7, <1>8, <1>10, <1>11, <1>12, <1>13, <1>14, <1>15, Zenon
     DEF Next, Handler, Goroutine, Machine, Disturbance

\* What Create does: one new node, with a hostname that is not in the list.
LEMMA Creates ==
  ASSUME TypeOK, NEW p \in Pools, Create(p)
  PROVE  /\ pc[p] = "create" /\ Cardinality(kept[p]) < Quantity(spec[p])
         /\ UNCHANGED <<poolVars, pc, spec, todo, asked>>
         /\ \E n \in Nodes, h \in Hosts :
              /\ h \notin HostsOf(list[p]) /\ Fresh(n)
              /\ node'[n] # NoNode /\ node'[n].pool = p /\ node'[n].host = h
              /\ \A k \in Nodes \ {n} : node'[k] = node[k] /\ list'[p][k] = list[p][k]
              /\ list'[p][n] = node'[n]
              /\ kept'[p] = kept[p] \cup {n}
              /\ \A q \in Pools \ {p} : list'[q] = list[q] /\ kept'[q] = kept[q]
<1>1. /\ pc[p] = "create" /\ Cardinality(kept[p]) < Quantity(spec[p])
      /\ UNCHANGED <<poolVars, pc, spec, todo, asked>>
  BY Zenon DEF Create, goVars, poolVars
<1>2. PICK n \in Nodes, h \in Hosts :
        /\ h \notin HostsOf(list[p]) /\ Fresh(n)
        /\ node' = [node EXCEPT ![n] = NewNode(p, h)]
        /\ list' = [list EXCEPT ![p] = [list[p] EXCEPT ![n] = NewNode(p, h)]]
        /\ kept' = [kept EXCEPT ![p] = kept[p] \cup {n}]
  BY Zenon DEF Create
<1>3. NewNode(p, h).pool = p /\ NewNode(p, h).host = h
  BY DEF NewNode
<1>4. NewNode(p, h) \in NodeType
  <2>1. spec[p].roles \in SUBSET AllRoles
    <3>1. spec[p] \in PoolType
      BY DEF TypeOK
    <3> QED BY <3>1, PoolUpdates, Zenon
  <2>2. ASSUME NEW R \in SUBSET AllRoles, NEW c \in (SUBSET AllRoles) \cup {NoConfig}, NEW d \in BOOLEAN
        PROVE  [pool |-> p, host |-> h, state |-> "new", taint |-> "no", since |-> 0, roles |-> R,
                config |-> c, deleting |-> d] \in NodeType
    BY DEF NodeType
  <2> QED BY <2>1, <2>2, Zenon DEF NewNode
<1>5. NewNode(p, h) # NoNode
  BY <1>4, NoNodeAssumption
<1> DEFINE m == NewNode(p, h)
<1>6. /\ node' = [node EXCEPT ![n] = m] /\ list' = [list EXCEPT ![p] = [list[p] EXCEPT ![n] = m]]
      /\ m # NoNode /\ m.pool = p /\ m.host = h
  BY <1>2, <1>3, <1>5
<1> HIDE DEF m
<1>7. /\ node'[n] = m /\ list'[p][n] = m
      /\ \A k \in Nodes \ {n} : node'[k] = node[k] /\ list'[p][k] = list[p][k]
      /\ \A q \in Pools \ {p} : list'[q] = list[q]
  BY <1>6 DEF TypeOK
<1>8. kept'[p] = kept[p] \cup {n} /\ \A q \in Pools \ {p} : kept'[q] = kept[q]
  BY <1>2 DEF TypeOK
<1> QED BY <1>1, <1>2, <1>6, <1>7, <1>8

\* What the users do to a pool: it stays live or starts to be deleted, and what
\* it asks for is recorded.
LEMMA Users ==
  ASSUME TypeOK, NEW p \in Pools, Scale(p) \/ ChangeRoles(p) \/ DeletePool(p)
  PROVE  /\ pool[p].phase = "live" /\ pool'[p].phase \in {"live", "deleting"}
         /\ \A q \in Pools \ {p} : pool'[q] = pool[q]
         /\ Quantity(pool'[p]) <= asked'[p] \/ Quantity(pool'[p]) = Quantity(pool[p])
         /\ \A q \in Pools : asked[q] <= asked'[q]
         /\ UNCHANGED <<poolCache, node, pc, localVars>>
<1>p. pool \in [Pools -> PoolType] /\ pool[p] \in PoolType /\ asked \in [Pools -> Nat]
  BY DEF TypeOK
<1>1. pool[p].phase = "live" /\ UNCHANGED <<poolCache, node, pc, localVars>>
  BY Zenon DEF Scale, ChangeRoles, DeletePool, nodeVars
<1>2. CASE Scale(p)
  <2>1. PICK q \in Quantities :
          /\ pool' = [pool EXCEPT ![p] = [pool[p] EXCEPT !.quantity = q]]
          /\ asked' = [asked EXCEPT ![p] = IF q > asked[p] THEN q ELSE asked[p]]
    BY <1>2, Zenon DEF Scale
  <2> DEFINE s == [pool[p] EXCEPT !.quantity = q]
  <2>2. pool' = [pool EXCEPT ![p] = s] /\ s.phase = "live" /\ s.quantity = q
    BY <1>p, <1>1, <2>1, Zenon DEF PoolType
  <2> HIDE DEF s
  <2>3. q \in Int
    BY QuantitiesAssumption
  <2>4. asked'[p] = (IF q > asked[p] THEN q ELSE asked[p]) /\ \A k \in Pools \ {p} : asked'[k] = asked[k]
    BY <1>p, <2>1
  <2>5. pool'[p] = s /\ \A k \in Pools \ {p} : pool'[k] = pool[k]
    BY <1>p, <2>2
  <2>6. Quantity(s) <= asked'[p]
    BY <1>p, <2>2, <2>3, <2>4 DEF Quantity
  <2>7. \A k \in Pools : asked[k] <= asked'[k]
    BY <1>p, <2>3, <2>4
  <2> QED BY <1>1, <2>2, <2>5, <2>6, <2>7
<1>3. CASE ChangeRoles(p) \/ DeletePool(p)
  <2>1. PICK s : /\ pool' = [pool EXCEPT ![p] = s] /\ s.quantity = pool[p].quantity
                 /\ s.phase \in {"live", "deleting"}
    <3>1. CASE ChangeRoles(p)
      <4>1. PICK r : pool' = [pool EXCEPT ![p] = [pool[p] EXCEPT !.roles = r]]
        BY <3>1, Zenon DEF ChangeRoles
      <4>2. /\ [pool[p] EXCEPT !.roles = r].quantity = pool[p].quantity
            /\ [pool[p] EXCEPT !.roles = r].phase = "live"
        BY <1>p, <1>1, Zenon DEF PoolType
      <4> QED BY <4>1, <4>2, Zenon
    <3>2. CASE DeletePool(p)
      <4>1. pool' = [pool EXCEPT ![p] = [pool[p] EXCEPT !.phase = "deleting"]]
        BY <3>2, Zenon DEF DeletePool
      <4>2. /\ [pool[p] EXCEPT !.phase = "deleting"].quantity = pool[p].quantity
            /\ [pool[p] EXCEPT !.phase = "deleting"].phase = "deleting"
        BY <1>p, Zenon DEF PoolType
      <4> QED BY <4>1, <4>2, Zenon
    <3> QED BY <1>3, <3>1, <3>2
  <2>2. asked' = asked
    BY <1>3, Zenon DEF ChangeRoles, DeletePool
  <2>3. pool'[p] = s /\ \A k \in Pools \ {p} : pool'[k] = pool[k]
    BY <1>p, <2>1
  <2>4. Quantity(s) = Quantity(pool[p])
    BY <2>1 DEF Quantity
  <2>5. \A k \in Pools : asked[k] <= asked'[k]
    BY <1>p, <2>2
  <2> QED BY <1>1, <2>1, <2>3, <2>4, <2>5, Zenon
<1> QED BY <1>2, <1>3, Zenon

-----------------------------------------------------------------------------
(* Hostnames. *)

\* While the handler may still create nodes, its list knows the hostname of
\* every node the pool has, including the ones it has just made.
ListKnowsHosts ==
  \A p \in Pools : pc[p] \in {"check", "create"} =>
    \A n \in Nodes : node[n] # NoNode /\ node[n].pool = p
                       => list[p][n] # NoNode /\ list[p][n].host = node[n].host

\* HostnamesUnique, without the sets it is stated with.
DistinctHosts ==
  \A n, m \in Nodes :
    node[n] # NoNode /\ node[m] # NoNode /\ n # m /\ node[n].pool = node[m].pool
      => node[n].host # node[m].host

\* Every step keeps both: only Create adds a hostname.
LEMMA HostStep ==
  ASSUME TypeOK, ListKnowsHosts, DistinctHosts, [Next]_vars
  PROVE  ListKnowsHosts' /\ DistinctHosts'
<1>t. /\ pc \in [Pools -> {"idle", "list", "remove", "check", "create", "roles"}]
      /\ list \in [Pools -> NodeMap]
  BY DEF TypeOK, NodeMap
<1>k. NodesPersist => DistinctHosts'
  BY DEF NodesPersist, DistinctHosts
\* Nothing is lost when no handler starts to check and the lists stay.
<1>q. ASSUME NodesPersist,
             \A p \in Pools : pc'[p] \in {"check", "create"} =>
                                pc[p] \in {"check", "create"} /\ list'[p] = list[p]
      PROVE  ListKnowsHosts' /\ DistinctHosts'
  BY <1>k, <1>q DEF NodesPersist, ListKnowsHosts
<1>1. CASE Quiet
  BY <1>1, <1>q DEF Quiet, localVars
<1>2. CASE Restart
  BY <1>2, <1>q, SameNodes DEF Restart
<1>3. ASSUME NEW p \in Pools, Returns(p) PROVE ListKnowsHosts' /\ DistinctHosts'
  BY <1>3, <1>q, <1>t DEF Returns, Finish, Goto
<1>4. ASSUME NEW p \in Pools, NEW n \in Nodes, Visits(p, n) PROVE ListKnowsHosts' /\ DistinctHosts'
  BY <1>4, <1>q DEF Visits
<1>5. ASSUME NEW p \in Pools, PoolEvent(p) PROVE ListKnowsHosts' /\ DistinctHosts'
  BY <1>5, <1>q, SameNodes DEF PoolEvent, nodeVars, localVars
<1>6. ASSUME NEW p \in Pools, Scale(p) \/ ChangeRoles(p) \/ DeletePool(p)
      PROVE  ListKnowsHosts' /\ DistinctHosts'
  BY <1>6, <1>q, Users, SameNodes DEF localVars
<1>7. ASSUME NEW p \in Pools, Take(p) PROVE ListKnowsHosts' /\ DistinctHosts'
  <2>1. UNCHANGED <<node, list>> /\ pc'[p] \in {"list", "idle"} /\ \A k \in Pools \ {p} : pc'[k] = pc[k]
    BY <1>7, <1>t DEF Take, Goto, nodeVars
  <2> QED BY <1>q, <2>1, SameNodes
<1>8. ASSUME NEW p \in Pools, List(p) PROVE ListKnowsHosts' /\ DistinctHosts'
  <2>1. /\ UNCHANGED node /\ list'[p] = node
        /\ \A k \in Pools \ {p} : pc'[k] = pc[k] /\ list'[k] = list[k]
    BY <1>8, <1>t DEF List, Goto, nodeVars
  <2> QED BY <1>k, <2>1, SameNodes DEF ListKnowsHosts
<1>9. ASSUME NEW p \in Pools, Removed(p) PROVE ListKnowsHosts' /\ DistinctHosts'
  BY <1>9, <1>q, <1>t, SameNodes DEF Removed, Finish, Goto, nodeVars
<1>10. ASSUME NEW p \in Pools, Checked(p) PROVE ListKnowsHosts' /\ DistinctHosts'
  BY <1>10, <1>q, <1>t, SameNodes DEF Checked, Goto, nodeVars, localVars
<1>11. ASSUME NEW p \in Pools, Create(p) PROVE ListKnowsHosts' /\ DistinctHosts'
  <2>1. PICK n \in Nodes, h \in Hosts :
          /\ h \notin HostsOf(list[p]) /\ Fresh(n)
          /\ node'[n] # NoNode /\ node'[n].pool = p /\ node'[n].host = h
          /\ \A k \in Nodes \ {n} : node'[k] = node[k] /\ list'[p][k] = list[p][k]
          /\ list'[p][n] = node'[n]
          /\ \A q \in Pools \ {p} : list'[q] = list[q]
    BY <1>11, Creates, Zenon
  <2>2. pc' = pc /\ pc[p] = "create"
    BY <1>11, Creates, Zenon
  <2>3. \A k \in Nodes : list[p][k] # NoNode => list[p][k].host # h
    BY <2>1, Zenon DEF HostsOf, Exists
  <2>4. \A k \in Nodes \ {n} : node'[k] # NoNode /\ node'[k].pool = p => node'[k].host # h
    <3>1. \A k \in Nodes : node[k] # NoNode /\ node[k].pool = p
                             => list[p][k] # NoNode /\ list[p][k].host = node[k].host
      BY <2>2, Zenon DEF ListKnowsHosts
    <3>2. \A k \in Nodes \ {n} : node'[k] = node[k]
      BY <2>1, Zenon
    <3> QED BY <2>3, <3>1, <3>2, Zenon
  <2>5. DistinctHosts'
    <3> SUFFICES ASSUME NEW k \in Nodes, NEW m \in Nodes, node'[k] # NoNode, node'[m] # NoNode,
                        k # m, node'[k].pool = node'[m].pool
                 PROVE  node'[k].host # node'[m].host
      BY Zenon DEF DistinctHosts
    <3>1. CASE k # n /\ m # n
      <4>1. node'[k] = node[k] /\ node'[m] = node[m]
        BY <2>1, <3>1, Zenon
      <4> QED BY <4>1, Zenon DEF DistinctHosts
    <3>2. CASE k = n \/ m = n
      BY <2>1, <2>4, <3>2, Zenon
    <3> QED BY <3>1, <3>2, Zenon
  <2>6. ListKnowsHosts'
    <3> SUFFICES ASSUME NEW q \in Pools, pc[q] \in {"check", "create"}, NEW k \in Nodes,
                        node'[k] # NoNode, node'[k].pool = q
                 PROVE  list'[q][k] # NoNode /\ list'[q][k].host = node'[k].host
      BY <2>2, Zenon DEF ListKnowsHosts
    <3>1. CASE k = n
      BY <2>1, <3>1, Zenon
    <3>2. CASE k # n
      <4>1. list[q][k] # NoNode /\ list[q][k].host = node[k].host
        BY <2>1, <3>2, Zenon DEF ListKnowsHosts
      <4>2. list'[q][k] = list[q][k] /\ node'[k] = node[k]
        BY <2>1, <3>2, Zenon
      <4> QED BY <4>1, <4>2, Zenon
    <3> QED BY <3>1, <3>2, Zenon
  <2> QED BY <2>5, <2>6
<1>12. ASSUME NEW p \in Pools, Trim(p) PROVE ListKnowsHosts' /\ DistinctHosts'
  <2>1. UNCHANGED <<pc, list>>
    BY <1>12, Zenon DEF Trim
  <2>2. NodesPersist
    BY <1>12, TrimPersist
  <2> QED BY <1>q, <2>1, <2>2
<1>13. ASSUME NEW p \in Pools, Sized(p) PROVE ListKnowsHosts' /\ DistinctHosts'
  BY <1>13, <1>q, <1>t, SameNodes, Zenon DEF Sized, Goto, nodeVars
<1> QED
  BY StepCases, <1>1, <1>2, <1>3, <1>4, <1>5, <1>6, <1>7, <1>8, <1>9, <1>10, <1>11, <1>12, <1>13

\* Two nodes of a pool never have the same hostname (HostnamesUnique), for any
\* number of pools and whatever calls fail: the list a handler creates from is
\* older than the nodes, and still knows all the names of its pool.
THEOREM UniqueHosts == Spec => []HostnamesUnique
<1>1. Init => ListKnowsHosts /\ DistinctHosts
  BY DEF Init, NoNodes, ListKnowsHosts, DistinctHosts
<1>2. TypeOK /\ ListKnowsHosts /\ DistinctHosts /\ [Next]_vars => ListKnowsHosts' /\ DistinctHosts'
  BY HostStep
<1>3. DistinctHosts => HostnamesUnique
  BY DEF DistinctHosts, HostnamesUnique, Exists
<1> QED BY <1>1, <1>2, <1>3, TypeCorrect, PTL DEF Spec

-----------------------------------------------------------------------------
(* Removal. *)

\* What the API server, the lister and the handler of a pool say about its
\* deletion.  A lister that has never seen a pool says "gone", too.
PhasesAgree ==
  \A p \in Pools :
    /\ poolCache[p].phase = "deleting" => pool[p].phase # "live"
    /\ spec[p].phase = "deleting" => pool[p].phase # "live" /\ poolCache[p].phase # "live"
    /\ pool[p].phase = "gone" => poolCache[p].phase # "live" /\ spec[p].phase # "live"
    /\ pc[p] = "remove" => spec[p].phase = "deleting"
    /\ pc[p] \in {"check", "create", "roles"} => spec[p].phase = "live"
    /\ pc[p] = "list" => spec[p].phase # "gone"

\* A handler that removes a pool has yet to visit the nodes not being deleted.
RemoveVisitsAll ==
  \A p \in Pools : pc[p] = "remove" =>
    \A n \in Nodes : node[n] # NoNode /\ node[n].pool = p => n \in todo[p] \/ node[n].deleting

\* RemovedPoolLeavesNothing, without the set it is stated with.
NothingLeft ==
  \A n \in Nodes : node[n] # NoNode /\ pool[node[n].pool].phase = "gone" => node[n].deleting

\* Every step keeps what the three copies of a pool say about its deletion.
LEMMA PhaseStep ==
  ASSUME TypeOK, PhasesAgree, [Next]_vars
  PROVE  PhasesAgree'
<1>t. /\ pc \in [Pools -> {"idle", "list", "remove", "check", "create", "roles"}]
      /\ spec \in [Pools -> PoolType]
      /\ pool \in [Pools -> PoolType] /\ poolCache \in [Pools -> PoolType]
  BY DEF TypeOK
<1>g. /\ NoPool.phase = "gone"
      /\ \A s \in PoolType : s.phase \in {"live", "deleting", "gone"}
  BY DEF NoPool, PoolType
<1>q. ASSUME UNCHANGED <<pool, poolCache, pc, spec>> PROVE PhasesAgree'
  BY <1>q, Zenon DEF PhasesAgree
\* The handler of p has returned.
<1>f. ASSUME NEW p \in Pools, UNCHANGED poolVars, Finish(p) PROVE PhasesAgree'
  <2>1. pc'[p] = "idle" /\ spec'[p].phase = "gone"
    BY <1>f, <1>t, <1>g DEF Finish, Goto
  <2>2. \A q \in Pools \ {p} : pc'[q] = pc[q] /\ spec'[q] = spec[q]
    BY <1>f, <1>t DEF Finish, Goto
  <2> QED BY <1>f, <2>1, <2>2, Zenon DEF PhasesAgree, poolVars
<1>1. CASE Quiet
  BY <1>1, <1>q DEF Quiet, poolVars, localVars
<1>2. CASE Restart
  <2>1. /\ UNCHANGED pool /\ poolCache' = pool
        /\ \A p \in Pools : pc'[p] = "idle" /\ spec'[p].phase = "gone"
    BY <1>2, <1>g, Zenon DEF Restart
  <2> QED BY <1>t, <1>g, <2>1, Zenon DEF PhasesAgree
<1>3. ASSUME NEW p \in Pools, Returns(p) PROVE PhasesAgree'
  BY <1>3, <1>f DEF Returns
<1>4. ASSUME NEW p \in Pools, NEW n \in Nodes, Visits(p, n) PROVE PhasesAgree'
  BY <1>4, <1>q DEF Visits, poolVars
<1>5. ASSUME NEW p \in Pools, PoolEvent(p) PROVE PhasesAgree'
  <2>1. /\ UNCHANGED <<pool, pc, spec>> /\ poolCache'[p] = pool[p]
        /\ \A q \in Pools \ {p} : poolCache'[q] = poolCache[q]
    BY <1>5, <1>t, Zenon DEF PoolEvent, localVars
  <2> QED BY <2>1, Zenon DEF PhasesAgree
<1>6. ASSUME NEW p \in Pools, Scale(p) \/ ChangeRoles(p) \/ DeletePool(p) PROVE PhasesAgree'
  <2>1. /\ pool[p].phase = "live" /\ pool'[p].phase \in {"live", "deleting"}
        /\ \A q \in Pools \ {p} : pool'[q] = pool[q]
        /\ UNCHANGED <<poolCache, pc, spec>>
    BY <1>6, Users, Zenon DEF localVars
  <2> QED BY <2>1, Zenon DEF PhasesAgree
<1>7. ASSUME NEW p \in Pools, Take(p) PROVE PhasesAgree'
  <2>1. /\ UNCHANGED poolVars
        /\ \A q \in Pools \ {p} : pc'[q] = pc[q] /\ spec'[q] = spec[q]
        /\ \/ pc'[p] = "idle" /\ spec' = spec
           \/ /\ pc'[p] = "list" /\ spec'[p] = poolCache[p]
              /\ poolCache[p].phase \in {"live", "deleting"}
    BY <1>7, <1>t, Zenon DEF Take, Goto
  <2> QED BY <1>t, <1>g, <2>1 DEF PhasesAgree, poolVars
<1>8. ASSUME NEW p \in Pools, List(p) PROVE PhasesAgree'
  <2>1. /\ UNCHANGED <<pool, poolCache, spec>> /\ pc[p] = "list"
        /\ pc'[p] = IF spec[p].phase = "deleting" THEN "remove" ELSE "check"
        /\ \A q \in Pools \ {p} : pc'[q] = pc[q]
    BY <1>8, <1>t, Zenon DEF List, Goto, poolVars
  <2> QED BY <1>t, <1>g, <2>1, Zenon DEF PhasesAgree
<1>9. ASSUME NEW p \in Pools, Removed(p) PROVE PhasesAgree'
  <2>1. /\ pc[p] = "remove" /\ UNCHANGED poolCache
        /\ pool'[p].phase = "gone" /\ pc'[p] = "idle" /\ spec'[p].phase = "gone"
        /\ \A q \in Pools \ {p} : pc'[q] = pc[q] /\ spec'[q] = spec[q] /\ pool'[q] = pool[q]
    BY <1>9, <1>t, <1>g DEF Removed, Finish, Goto
  <2> QED BY <2>1 DEF PhasesAgree
<1>10. ASSUME NEW p \in Pools, Checked(p) \/ Sized(p) PROVE PhasesAgree'
  <2>1. /\ UNCHANGED <<pool, poolCache, spec>> /\ pc[p] \in {"check", "create"}
        /\ pc'[p] \in {"create", "roles"}
        /\ \A q \in Pools \ {p} : pc'[q] = pc[q]
    BY <1>10, <1>t, Zenon DEF Checked, Sized, Goto, poolVars, localVars
  <2> QED BY <2>1, Zenon DEF PhasesAgree
<1>11. ASSUME NEW p \in Pools, Create(p) PROVE PhasesAgree'
  BY <1>11, <1>q, Creates, Zenon DEF poolVars
<1>12. ASSUME NEW p \in Pools, Trim(p) PROVE PhasesAgree'
  <2>1. UNCHANGED <<pool, poolCache, pc, spec>>
    BY <1>12, Zenon DEF Trim, poolVars
  <2> QED BY <1>q, <2>1
<1> QED
  BY StepCases, <1>1, <1>2, <1>3, <1>4, <1>5, <1>6, <1>7, <1>8, <1>9, <1>10, <1>11, <1>12

\* Every step keeps what Remove relies on, and what it guarantees.
LEMMA RemoveStep ==
  ASSUME TypeOK, PhasesAgree, RemoveVisitsAll, NothingLeft, [Next]_vars
  PROVE  RemoveVisitsAll' /\ NothingLeft'
<1>t. /\ pc \in [Pools -> {"idle", "list", "remove", "check", "create", "roles"}]
      /\ todo \in [Pools -> SUBSET Nodes]
      /\ pool \in [Pools -> PoolType]
  BY DEF TypeOK
<1>n. \A n \in Nodes : node[n] # NoNode => node[n].pool \in Pools
  <2>1. \A n \in Nodes : node[n] # NoNode => node[n] \in NodeType
    BY DEF TypeOK
  <2> QED BY <2>1 DEF NodeType
\* No pool goes away.
<1>k. ASSUME NodesPersist, \A p \in Pools : pool'[p].phase = "gone" => pool[p].phase = "gone"
      PROVE  NothingLeft'
  BY <1>k, <1>n, Zenon DEF NodesPersist, NothingLeft
\* No handler starts to remove, and those that do forget no node.
<1>r. ASSUME NodesPersist,
             \A p \in Pools : pc'[p] = "remove" => pc[p] = "remove" /\ todo'[p] = todo[p]
      PROVE  RemoveVisitsAll'
  BY <1>r, Zenon DEF NodesPersist, RemoveVisitsAll
<1>1. CASE Quiet
  BY <1>1, <1>k, <1>r DEF Quiet, poolVars, localVars
<1>2. CASE Restart
  BY <1>2, <1>k, <1>r, SameNodes, Zenon DEF Restart
<1>3. ASSUME NEW p \in Pools, Returns(p) PROVE RemoveVisitsAll' /\ NothingLeft'
  <2>1. /\ NodesPersist /\ UNCHANGED pool /\ pc'[p] = "idle"
        /\ \A q \in Pools \ {p} : pc'[q] = pc[q] /\ todo'[q] = todo[q]
    BY <1>3, <1>t DEF Returns, Finish, Goto, poolVars
  <2> QED BY <1>k, <1>r, <2>1
<1>4. ASSUME NEW p \in Pools, NEW n \in Nodes, Visits(p, n) PROVE RemoveVisitsAll' /\ NothingLeft'
  <2>1. /\ NodesPersist /\ UNCHANGED <<pool, pc>>
        /\ pc[p] = "remove" /\ node'[n] # NoNode => node'[n].deleting
        /\ todo'[p] = todo[p] \ {n}
        /\ \A q \in Pools \ {p} : todo'[q] = todo[q]
    BY <1>4, <1>t DEF Visits, poolVars
  <2>2. NothingLeft'
    BY <1>k, <2>1
  <2>3. \A k \in Nodes \ {n} : k \in todo'[p] <=> k \in todo[p]
    BY <2>1, Zenon
  <2>4. RemoveVisitsAll'
    BY <2>1, <2>3, Zenon DEF NodesPersist, RemoveVisitsAll
  <2> QED BY <2>2, <2>4
<1>5. ASSUME NEW p \in Pools, PoolEvent(p) PROVE RemoveVisitsAll' /\ NothingLeft'
  BY <1>5, <1>k, <1>r, SameNodes DEF PoolEvent, nodeVars, localVars
<1>6. ASSUME NEW p \in Pools, Scale(p) \/ ChangeRoles(p) \/ DeletePool(p)
      PROVE  RemoveVisitsAll' /\ NothingLeft'
  <2>1. /\ pool'[p].phase \in {"live", "deleting"}
        /\ \A q \in Pools \ {p} : pool'[q] = pool[q]
        /\ UNCHANGED <<node, pc, todo>>
    BY <1>6, Users, Zenon DEF localVars
  <2> QED BY <1>k, <1>r, <2>1, SameNodes, Zenon
<1>7. ASSUME NEW p \in Pools, Take(p) PROVE RemoveVisitsAll' /\ NothingLeft'
  <2>1. UNCHANGED <<pool, node, todo>> /\ pc'[p] \in {"list", "idle"} /\ \A k \in Pools \ {p} : pc'[k] = pc[k]
    BY <1>7, <1>t, Zenon DEF Take, Goto, nodeVars, poolVars
  <2> QED BY <1>k, <1>r, <2>1, SameNodes, Zenon
<1>8. ASSUME NEW p \in Pools, List(p) PROVE RemoveVisitsAll' /\ NothingLeft'
  <2>1. /\ UNCHANGED <<pool, node>> /\ todo'[p] = Own(node, p)
        /\ \A k \in Pools \ {p} : pc'[k] = pc[k] /\ todo'[k] = todo[k]
    BY <1>8, <1>t, Zenon DEF List, Goto, nodeVars, poolVars
  <2>2. NothingLeft'
    BY <1>k, <2>1, SameNodes, Zenon
  <2>3. RemoveVisitsAll'
    BY <2>1, ZenonT(30) DEF RemoveVisitsAll, Own, Exists
  <2> QED BY <2>2, <2>3
<1>9. ASSUME NEW p \in Pools, Removed(p) PROVE RemoveVisitsAll' /\ NothingLeft'
  <2>1. /\ pc[p] = "remove" /\ todo[p] = {} /\ UNCHANGED node /\ pc'[p] = "idle"
        /\ \A q \in Pools \ {p} : pc'[q] = pc[q] /\ todo'[q] = todo[q] /\ pool'[q] = pool[q]
    BY <1>9, <1>t, Zenon DEF Removed, Finish, Goto, nodeVars
  <2>2. RemoveVisitsAll'
    BY <1>r, <2>1, SameNodes, Zenon
  <2>3. \A n \in Nodes : node[n] # NoNode /\ node[n].pool = p => node[n].deleting
    <3>1. \A n \in Nodes : n \notin todo[p]
      BY <2>1, Zenon
    <3> QED BY <2>1, <3>1, Zenon DEF RemoveVisitsAll
  <2>4. \A n \in Nodes : node[n] # NoNode /\ node[n].pool # p => pool'[node[n].pool] = pool[node[n].pool]
    BY <1>n, <2>1, Zenon
  <2>5. NothingLeft'
    BY <2>1, <2>3, <2>4, Zenon DEF NothingLeft
  <2> QED BY <2>2, <2>5
<1>10. ASSUME NEW p \in Pools, Checked(p) \/ Sized(p) PROVE RemoveVisitsAll' /\ NothingLeft'
  <2>1. /\ UNCHANGED <<pool, node>> /\ pc'[p] \in {"create", "roles"}
        /\ \A q \in Pools \ {p} : pc'[q] = pc[q] /\ todo'[q] = todo[q]
    BY <1>10, <1>t, Zenon DEF Checked, Sized, Goto, poolVars, nodeVars, localVars
  <2> QED BY <1>k, <1>r, <2>1, SameNodes, Zenon
<1>11. ASSUME NEW p \in Pools, Create(p) PROVE RemoveVisitsAll' /\ NothingLeft'
  <2>1. pc[p] = "create" /\ UNCHANGED <<pool, pc, todo>>
    BY <1>11, Creates, Zenon DEF poolVars
  <2>2. PICK n \in Nodes, h \in Hosts :
          /\ h \notin HostsOf(list[p]) /\ Fresh(n)
          /\ node'[n] # NoNode /\ node'[n].pool = p /\ node'[n].host = h
          /\ \A k \in Nodes \ {n} : node'[k] = node[k] /\ list'[p][k] = list[p][k]
          /\ list'[p][n] = node'[n]
          /\ kept'[p] = kept[p] \cup {n}
          /\ \A q \in Pools \ {p} : list'[q] = list[q] /\ kept'[q] = kept[q]
    BY <1>11, Creates, Zenon
  <2>3. pool[p].phase # "gone"
    BY <2>1, Zenon DEF PhasesAgree
  <2>4. NothingLeft'
    BY <2>1, <2>2, <2>3, Zenon DEF NothingLeft
  <2>5. \A q \in Pools : pc[q] = "remove" => q # p
    BY <2>1
  <2>6. RemoveVisitsAll'
    BY <2>1, <2>2, <2>5, ZenonT(30) DEF RemoveVisitsAll
  <2> QED BY <2>4, <2>6
<1>12. ASSUME NEW p \in Pools, Trim(p) PROVE RemoveVisitsAll' /\ NothingLeft'
  <2>1. UNCHANGED <<pool, pc, todo>>
    BY <1>12, Zenon DEF Trim, poolVars
  <2> QED BY <1>12, <1>k, <1>r, <2>1, TrimPersist, Zenon
<1> QED
  BY StepCases, <1>1, <1>2, <1>3, <1>4, <1>5, <1>6, <1>7, <1>8, <1>9, <1>10, <1>11, <1>12, Zenon

\* When the finalizer of a pool is gone, its nodes are deleted or on the way
\* (RemovedPoolLeavesNothing), for any number of pools and nodes: a handler
\* never creates for a pool that another event has started to remove.
THEOREM RemovalLeavesNothing == Spec => []RemovedPoolLeavesNothing
<1>1. Init => PhasesAgree /\ RemoveVisitsAll /\ NothingLeft
  <2> SUFFICES ASSUME Init PROVE PhasesAgree /\ RemoveVisitsAll /\ NothingLeft
    OBVIOUS
  <2>1. \A p \in Pools : /\ poolCache[p].phase = "gone" /\ spec[p].phase = "gone"
                         /\ pool[p].phase = "live" /\ pc[p] = "idle"
    BY Zenon DEF Init, NoPool
  <2>2. \A n \in Nodes : node[n] = NoNode
    BY DEF Init, NoNodes
  <2> QED BY <2>1, <2>2, Zenon DEF PhasesAgree, RemoveVisitsAll, NothingLeft
<1>2. TypeOK /\ PhasesAgree /\ RemoveVisitsAll /\ NothingLeft /\ [Next]_vars
        => PhasesAgree' /\ RemoveVisitsAll' /\ NothingLeft'
  BY PhaseStep, RemoveStep
<1>3. NothingLeft => RemovedPoolLeavesNothing
  BY DEF NothingLeft, RemovedPoolLeavesNothing, Exists
<1> QED BY <1>1, <1>2, <1>3, TypeCorrect, PTL DEF Spec

-----------------------------------------------------------------------------
(* Size. *)

\* No copy of a pool asks for more than was ever asked for, ...
AskedIsLargest ==
  \A p \in Pools : /\ Quantity(pool[p]) <= asked[p]
                   /\ Quantity(poolCache[p]) <= asked[p]
                   /\ Quantity(spec[p]) <= asked[p]

\* ... and a handler that would create counts every node the pool has.
CountsAll ==
  \A p \in Pools : pc[p] \in {"check", "create"} =>
    \/ Own(node, p) \subseteq kept[p]
    \/ Cardinality(kept[p]) >= Quantity(spec[p])

SizeInv == AskedIsLargest /\ CountsAll /\ NeverMoreThanAsked

\* A negative quantity counts as zero.
LEMMA QuantityType == \A s \in PoolType : Quantity(s) \in Nat
<1> SUFFICES ASSUME NEW s \in PoolType PROVE Quantity(s) \in Nat
  OBVIOUS
<1>1. s.quantity \in Int
  BY PoolUpdates, Zenon
<1> QED BY <1>1 DEF Quantity

\* The nodes of a pool are finitely many.
LEMMA OwnFinite ==
  ASSUME NEW ns, NEW p
  PROVE  Own(ns, p) \subseteq Nodes /\ IsFiniteSet(Own(ns, p)) /\ Cardinality(Own(ns, p)) \in Nat
<1>1. Own(ns, p) \subseteq Nodes
  BY DEF Own, Exists
<1> QED BY <1>1, NodesAreNumbers, FS_Subset, FS_CardinalityType

\* A pool whose nodes persist does not grow.
LEMMA PersistOwn ==
  ASSUME NodesPersist, NEW p
  PROVE  Own(node', p) \subseteq Own(node, p) /\ Cardinality(Own(node', p)) <= Cardinality(Own(node, p))
<1>1. Own(node', p) \subseteq Own(node, p)
  BY Zenon DEF NodesPersist, Own, Exists
<1> QED BY <1>1, OwnFinite, FS_Subset

\* Every step keeps the bound on the size.
LEMMA SizeStep ==
  ASSUME TypeOK, SizeInv, [Next]_vars
  PROVE  SizeInv'
<1>t. /\ pc \in [Pools -> {"idle", "list", "remove", "check", "create", "roles"}]
      /\ spec \in [Pools -> PoolType] /\ kept \in [Pools -> SUBSET Nodes]
      /\ pool \in [Pools -> PoolType] /\ poolCache \in [Pools -> PoolType]
      /\ asked \in [Pools -> Nat]
  BY DEF TypeOK
<1>tt. /\ asked' \in [Pools -> Nat] /\ pool' \in [Pools -> PoolType]
       /\ poolCache' \in [Pools -> PoolType] /\ spec' \in [Pools -> PoolType]
  BY TypeStep, Zenon DEF TypeOK
<1>i. /\ \A p \in Pools : Quantity(pool[p]) <= asked[p] /\ Quantity(poolCache[p]) <= asked[p]
                          /\ Quantity(spec[p]) <= asked[p]
      /\ \A p \in Pools : Cardinality(Own(node, p)) <= asked[p]
  BY Zenon DEF SizeInv, AskedIsLargest, NeverMoreThanAsked
<1>g. Quantity(NoPool) = 0
  BY DEF Quantity, NoPool
\* The nodes persist and what is asked for does not get less.
<1>n. ASSUME NodesPersist, \A p \in Pools : asked[p] <= asked'[p]
      PROVE  NeverMoreThanAsked'
  <2> SUFFICES ASSUME NEW p \in Pools PROVE Cardinality(Own(node', p)) <= asked'[p]
    BY DEF NeverMoreThanAsked, Own, Exists
  <2>1. Cardinality(Own(node', p)) <= Cardinality(Own(node, p))
    BY <1>n, PersistOwn
  <2>2. Cardinality(Own(node, p)) <= asked[p] /\ asked[p] <= asked'[p]
    BY <1>i, <1>n, Zenon
  <2>3. Cardinality(Own(node', p)) \in Nat /\ Cardinality(Own(node, p)) \in Nat
        /\ asked[p] \in Nat /\ asked'[p] \in Nat
    BY <1>t, <1>tt, OwnFinite
  <2> QED BY <2>1, <2>2, <2>3
\* No handler starts to check, and those that do keep their count.
<1>c. ASSUME NodesPersist,
             \A p \in Pools : pc'[p] \in {"check", "create"} =>
               pc[p] \in {"check", "create"} /\ kept'[p] = kept[p] /\ spec'[p] = spec[p]
      PROVE  CountsAll'
  <2> SUFFICES ASSUME NEW p \in Pools, pc'[p] \in {"check", "create"}
               PROVE  \/ Own(node', p) \subseteq kept'[p]
                      \/ Cardinality(kept'[p]) >= Quantity(spec'[p])
    BY DEF CountsAll, Own, Exists, Quantity
  <2>1. pc[p] \in {"check", "create"} /\ kept'[p] = kept[p] /\ spec'[p] = spec[p]
    BY <1>c
  <2>2. Own(node', p) \subseteq Own(node, p)
    BY <1>c, PersistOwn, Zenon
  <2> QED BY <2>1, <2>2, Zenon DEF SizeInv, CountsAll
\* The copies of a pool are copied from one another.
<1>a. ASSUME UNCHANGED asked,
             \A p \in Pools :
               /\ pool'[p] \in {pool[p], NoPool}
               /\ poolCache'[p] \in {pool[p], poolCache[p]}
               /\ spec'[p] \in {spec[p], poolCache[p], NoPool}
      PROVE  AskedIsLargest'
  <2> SUFFICES ASSUME NEW p \in Pools
               PROVE  /\ Quantity(pool'[p]) <= asked'[p]
                      /\ Quantity(poolCache'[p]) <= asked'[p]
                      /\ Quantity(spec'[p]) <= asked'[p]
    BY Zenon DEF AskedIsLargest, Quantity
  <2>1. asked'[p] = asked[p] /\ 0 <= asked[p]
    BY <1>a, <1>t
  <2> QED BY <1>a, <1>i, <1>g, <2>1, Zenon
\* A step of the handlers or the informers in which the nodes persist.
<1>h. ASSUME NodesPersist, CountsAll', UNCHANGED asked,
             \A p \in Pools :
               /\ pool'[p] \in {pool[p], NoPool}
               /\ poolCache'[p] \in {pool[p], poolCache[p]}
               /\ spec'[p] \in {spec[p], poolCache[p], NoPool}
      PROVE  SizeInv'
  <2>1. \A p \in Pools : asked[p] <= asked'[p]
    BY <1>h, <1>t
  <2> QED BY <1>h, <1>n, <1>a, <2>1, Zenon DEF SizeInv
<1>1. CASE Quiet
  <2>1. NodesPersist /\ UNCHANGED <<pool, poolCache, pc, spec, kept, asked>>
    BY <1>1 DEF Quiet, poolVars, localVars
  <2> QED BY <1>c, <1>h, <2>1, Zenon
<1>2. CASE Restart
  <2>1. /\ UNCHANGED <<pool, node, asked>> /\ poolCache' = pool
        /\ \A p \in Pools : pc'[p] = "idle" /\ spec'[p] = NoPool
    BY <1>2 DEF Restart
  <2>2. NodesPersist /\ CountsAll'
    BY <1>c, <2>1, SameNodes, Zenon
  <2>3. \A p \in Pools : pool'[p] = pool[p] /\ poolCache'[p] = pool[p] /\ spec'[p] = NoPool
    BY <2>1, Zenon
  <2> QED BY <1>h, <2>1, <2>2, <2>3, Zenon
<1>3. ASSUME NEW p \in Pools, Returns(p) PROVE SizeInv'
  <2>1. /\ NodesPersist /\ UNCHANGED <<pool, poolCache, asked>> /\ pc'[p] = "idle" /\ spec'[p] = NoPool
        /\ \A q \in Pools \ {p} : pc'[q] = pc[q] /\ spec'[q] = spec[q] /\ kept'[q] = kept[q]
    BY <1>3, <1>t DEF Returns, Finish, Goto, poolVars
  <2> QED BY <1>c, <1>h, <2>1, Zenon
<1>4. ASSUME NEW p \in Pools, NEW n \in Nodes, Visits(p, n) PROVE SizeInv'
  <2>1. NodesPersist /\ UNCHANGED <<pool, poolCache, pc, spec, kept, asked>>
    BY <1>4 DEF Visits, poolVars
  <2> QED BY <1>c, <1>h, <2>1
<1>5. ASSUME NEW p \in Pools, PoolEvent(p) PROVE SizeInv'
  <2>1. /\ UNCHANGED <<pool, node, pc, spec, kept, asked>>
        /\ \A q \in Pools : poolCache'[q] \in {pool[q], poolCache[q]}
    BY <1>5, <1>t DEF PoolEvent, nodeVars, localVars
  <2> QED BY <1>c, <1>h, <2>1, SameNodes, Zenon
<1>6. ASSUME NEW p \in Pools, Scale(p) \/ ChangeRoles(p) \/ DeletePool(p) PROVE SizeInv'
  <2>1. /\ \A q \in Pools \ {p} : pool'[q] = pool[q]
        /\ Quantity(pool'[p]) <= asked'[p] \/ Quantity(pool'[p]) = Quantity(pool[p])
        /\ \A q \in Pools : asked[q] <= asked'[q]
        /\ UNCHANGED <<poolCache, node, pc, spec, kept>>
    BY <1>6, Users, Zenon DEF localVars
  <2>2. NeverMoreThanAsked' /\ CountsAll'
    BY <1>n, <1>c, <2>1, SameNodes, Zenon
  <2>3. AskedIsLargest'
    <3> SUFFICES ASSUME NEW q \in Pools
                 PROVE  /\ Quantity(pool'[q]) <= asked'[q]
                        /\ Quantity(poolCache'[q]) <= asked'[q]
                        /\ Quantity(spec'[q]) <= asked'[q]
      BY Zenon DEF AskedIsLargest, Quantity
    <3>1. /\ asked[q] \in Nat /\ asked'[q] \in Nat /\ asked[q] <= asked'[q]
          /\ Quantity(pool[q]) \in Nat /\ Quantity(poolCache[q]) \in Nat /\ Quantity(spec[q]) \in Nat
          /\ Quantity(pool[q]) <= asked[q] /\ Quantity(poolCache[q]) <= asked[q]
          /\ Quantity(spec[q]) <= asked[q]
      BY <1>t, <1>tt, <1>i, <2>1, QuantityType, Zenon
    <3>2. /\ Quantity(poolCache[q]) <= asked'[q] /\ Quantity(spec[q]) <= asked'[q]
          /\ Quantity(pool[q]) <= asked'[q]
      BY <3>1, SMT
    <3>3. poolCache'[q] = poolCache[q] /\ spec'[q] = spec[q]
      BY <2>1, Zenon
    <3>4. Quantity(pool'[q]) <= asked'[q]
      BY <2>1, <3>2, Zenon
    <3> QED BY <3>2, <3>3, <3>4, Zenon
  <2> QED BY <2>2, <2>3 DEF SizeInv
<1>7. ASSUME NEW p \in Pools, Take(p) PROVE SizeInv'
  <2>1. /\ UNCHANGED <<pool, poolCache, node, kept, asked>> /\ pc'[p] \in {"list", "idle"}
        /\ spec'[p] \in {spec[p], poolCache[p]}
        /\ \A q \in Pools \ {p} : pc'[q] = pc[q] /\ spec'[q] = spec[q]
    BY <1>7, <1>t, Zenon DEF Take, Goto, nodeVars, poolVars
  <2> QED BY <1>c, <1>h, <2>1, SameNodes, Zenon
<1>8. ASSUME NEW p \in Pools, List(p) PROVE SizeInv'
  <2>1. /\ UNCHANGED <<pool, poolCache, spec, node, asked>> /\ kept'[p] = Own(node, p)
        /\ \A q \in Pools \ {p} : pc'[q] = pc[q] /\ kept'[q] = kept[q]
    BY <1>8, <1>t, Zenon DEF List, Goto, nodeVars, poolVars
  <2>2. CountsAll'
    <3> SUFFICES ASSUME NEW q \in Pools, pc'[q] \in {"check", "create"}
                 PROVE  \/ Own(node', q) \subseteq kept'[q]
                        \/ Cardinality(kept'[q]) >= Quantity(spec'[q])
      BY DEF CountsAll, Own, Exists, Quantity
    <3>1. CASE q = p
      BY <2>1, <3>1, Zenon
    <3>2. CASE q # p
      BY <2>1, <3>2, Zenon DEF SizeInv, CountsAll
    <3> QED BY <3>1, <3>2, Zenon
  <2> QED BY <1>h, <2>1, <2>2, SameNodes, Zenon
<1>9. ASSUME NEW p \in Pools, Removed(p) PROVE SizeInv'
  <2>1. /\ UNCHANGED <<poolCache, node, asked>> /\ pc'[p] = "idle" /\ spec'[p] = NoPool /\ pool'[p] = NoPool
        /\ \A q \in Pools \ {p} : /\ pc'[q] = pc[q] /\ spec'[q] = spec[q] /\ kept'[q] = kept[q]
                                  /\ pool'[q] = pool[q]
    BY <1>9, <1>t, Zenon DEF Removed, Finish, Goto, nodeVars
  <2> QED BY <1>c, <1>h, <2>1, SameNodes, Zenon
<1>10. ASSUME NEW p \in Pools, Checked(p) \/ Sized(p) PROVE SizeInv'
  <2>1. /\ UNCHANGED <<pool, poolCache, spec, node, kept, asked>> /\ pc[p] \in {"check", "create"}
        /\ \A q \in Pools \ {p} : pc'[q] = pc[q]
    BY <1>10, <1>t, Zenon DEF Checked, Sized, Goto, poolVars, nodeVars, localVars
  <2> QED BY <1>c, <1>h, <2>1, SameNodes, Zenon
<1>11. ASSUME NEW p \in Pools, Create(p) PROVE SizeInv'
  <2>1. /\ pc[p] = "create" /\ Cardinality(kept[p]) < Quantity(spec[p])
        /\ UNCHANGED <<pool, poolCache, pc, spec, asked>>
    BY <1>11, Creates, Zenon DEF poolVars
  <2>2. PICK n \in Nodes :
          /\ Fresh(n) /\ node'[n].pool = p
          /\ \A k \in Nodes \ {n} : node'[k] = node[k]
          /\ kept'[p] = kept[p] \cup {n}
          /\ \A q \in Pools \ {p} : kept'[q] = kept[q]
    BY <1>11, Creates, ZenonT(30)
  <2>3. IsFiniteSet(kept[p]) /\ Cardinality(kept[p]) \in Nat /\ n \notin kept[p]
    <3>1. kept[p] \subseteq Nodes
      BY <1>t
    <3> QED BY <2>2, <3>1, NodesAreNumbers, FS_Subset, FS_CardinalityType, Zenon DEF Fresh
  <2>4. Cardinality(kept[p] \cup {n}) = Cardinality(kept[p]) + 1 /\ IsFiniteSet(kept[p] \cup {n})
    BY <2>3, FS_AddElement, Zenon
  <2>5. Quantity(spec[p]) \in Nat /\ asked[p] \in Nat /\ Quantity(spec[p]) <= asked[p]
    BY <1>t, <1>i, QuantityType, Zenon
  <2>6. Own(node, p) \subseteq kept[p]
    BY <2>1, <2>3, <2>5 DEF SizeInv, CountsAll
  <2>7. Own(node', p) \subseteq kept[p] \cup {n}
    BY <2>2, <2>6, Zenon DEF Own, Exists
  <2>8. Cardinality(Own(node', p)) <= asked[p]
    <3>1. Cardinality(Own(node', p)) <= Cardinality(kept[p] \cup {n})
      BY <2>4, <2>7, FS_Subset, Zenon
    <3>2. Cardinality(Own(node', p)) \in Nat
      BY OwnFinite
    <3>3. Cardinality(kept[p]) < Quantity(spec[p])
      BY <2>1, Zenon
    <3>4. Cardinality(kept[p]) + 1 <= asked[p]
      BY <2>3, <2>5, <3>3, SMT
    <3>5. Cardinality(Own(node', p)) <= Cardinality(kept[p]) + 1
      BY <2>4, <3>1, Zenon
    <3> DEFINE x == Cardinality(Own(node', p))
               k == Cardinality(kept[p])
               a == asked[p]
    <3>6. x \in Nat /\ k \in Nat /\ a \in Nat /\ x <= k + 1 /\ k + 1 <= a
      BY <2>3, <2>5, <3>2, <3>4, <3>5, Zenon
    <3> HIDE DEF x, k, a
    <3>7. x <= a
      BY <3>6, SMT
    <3> QED BY <3>7, Zenon DEF x, a
  <2>9. \A q \in Pools \ {p} : Own(node', q) = Own(node, q)
    BY <2>2 DEF Own, Exists, Fresh
  <2>10. NeverMoreThanAsked'
    <3> SUFFICES ASSUME NEW q \in Pools PROVE Cardinality(Own(node', q)) <= asked'[q]
      BY DEF NeverMoreThanAsked, Own, Exists
    <3>1. CASE q = p
      BY <2>1, <2>8, <3>1, Zenon
    <3>2. CASE q # p
      BY <1>i, <2>1, <2>9, <3>2, Zenon
    <3> QED BY <3>1, <3>2
  <2>11. CountsAll'
    <3> SUFFICES ASSUME NEW q \in Pools, pc'[q] \in {"check", "create"}
                 PROVE  \/ Own(node', q) \subseteq kept'[q]
                        \/ Cardinality(kept'[q]) >= Quantity(spec'[q])
      BY Zenon DEF CountsAll, Own, Exists, Quantity
    <3>1. CASE q = p
      BY <2>2, <2>7, <3>1, Zenon
    <3>2. CASE q # p
      BY <2>1, <2>2, <2>9, <3>2, Zenon DEF SizeInv, CountsAll
    <3> QED BY <3>1, <3>2, Zenon
  <2>12. AskedIsLargest'
    BY <1>a, <2>1, Zenon
  <2> QED BY <2>10, <2>11, <2>12 DEF SizeInv
<1>12. ASSUME NEW p \in Pools, Trim(p) PROVE SizeInv'
  <2>1. UNCHANGED <<pool, poolCache, pc, spec, asked>> /\ Cardinality(kept[p]) > Quantity(spec[p])
    BY <1>12, Zenon DEF Trim, poolVars
  <2>2. PICK n \in kept[p] : kept' = [kept EXCEPT ![p] = kept[p] \ {n}]
    BY <1>12, Zenon DEF Trim
  <2>3. NodesPersist
    BY <1>12, TrimPersist
  <2>4. kept'[p] = kept[p] \ {n} /\ \A q \in Pools \ {p} : kept'[q] = kept[q]
    BY <1>t, <2>2, Zenon
  <2>5. Cardinality(kept'[p]) >= Quantity(spec'[p])
    <3>1. kept[p] \subseteq Nodes
      BY <1>t
    <3>2. IsFiniteSet(kept[p]) /\ Cardinality(kept[p]) \in Nat
      BY <3>1, NodesAreNumbers, FS_Subset, FS_CardinalityType, Zenon
    <3>3. Cardinality(kept[p] \ {n}) = Cardinality(kept[p]) - 1
      BY <3>2, FS_RemoveElement, Zenon
    <3>4. Quantity(spec[p]) \in Nat
      BY <1>t, QuantityType
    <3> QED BY <2>1, <2>4, <3>2, <3>3, <3>4
  <2>6. CountsAll'
    <3> SUFFICES ASSUME NEW q \in Pools, pc'[q] \in {"check", "create"}
                 PROVE  \/ Own(node', q) \subseteq kept'[q]
                        \/ Cardinality(kept'[q]) >= Quantity(spec'[q])
      BY Zenon DEF CountsAll, Own, Exists, Quantity
    <3>1. CASE q = p
      BY <2>5, <3>1, Zenon
    <3>2. CASE q # p
      <4>1. Own(node', q) \subseteq Own(node, q)
        BY <2>3, PersistOwn, Zenon
      <4> QED BY <2>1, <2>4, <3>2, <4>1, Zenon DEF SizeInv, CountsAll
    <3> QED BY <3>1, <3>2, Zenon
  <2> QED BY <1>h, <2>1, <2>3, <2>6, Zenon
<1> QED
  BY StepCases, <1>1, <1>2, <1>3, <1>4, <1>5, <1>6, <1>7, <1>8, <1>9, <1>10, <1>11, <1>12, Zenon

\* The bound on the size holds at the start.
LEMMA SizeInit ==
  ASSUME Init
  PROVE  SizeInv
<1>1. \A p \in Pools : asked[p] = Quantity(pool[p]) /\ asked[p] \in Nat
  BY TypeInit, Zenon DEF Init, TypeOK
<1>2. AskedIsLargest
  BY <1>1 DEF AskedIsLargest, Init, NoPool, Quantity
<1>3. CountsAll
  BY Zenon DEF Init, CountsAll
<1>4. NeverMoreThanAsked
  <2>1. \A p \in Pools : Own(node, p) = {}
    BY DEF Init, NoNodes, Own, Exists
  <2>2. Cardinality({}) = 0
    BY FS_EmptySet
  <2> QED BY <1>1, <2>1, <2>2 DEF NeverMoreThanAsked
<1> QED BY <1>2, <1>3, <1>4 DEF SizeInv

\* A pool never has more nodes than it was asked to have at some time
\* (NeverMoreThanAsked), for any number of pools, nodes, failed calls and
\* restarts, and although Updated decides on a stale cache that it has work.
THEOREM SizeBounded == Spec => []NeverMoreThanAsked
<1>1. Init => SizeInv
  BY SizeInit
<1>2. TypeOK /\ SizeInv /\ [Next]_vars => SizeInv'
  BY SizeStep
<1>3. SizeInv => NeverMoreThanAsked
  BY DEF SizeInv
<1> QED BY <1>1, <1>2, <1>3, TypeCorrect, PTL DEF Spec

-----------------------------------------------------------------------------
(* A pool that nobody scales or deletes.                                   *)

\* Nobody scales a pool or deletes a node, and no machine fails or gets
\* unreachable; calls fail and the server restarts, pools are deleted and
\* their roles changed.
Calm == Disturbances \cap {"scale", "deleteNode", "fail", "network"} = {}

\* There is no reason to delete a node but its pool.
AllIntact ==
  /\ \A n \in Nodes : node[n] # NoNode => node[n].state # "failed" /\ node[n].taint = "no"
  /\ \A p \in Pools, n \in Nodes :
       list[p][n] # NoNode => list[p][n].state # "failed" /\ list[p][n].taint = "no"
  /\ timers = {}

\* Every live copy of a pool asks for the same number of nodes.
SameQuantity ==
  \A p \in Pools : /\ pool[p].phase = "live" => Quantity(pool[p]) = asked[p]
                   /\ poolCache[p].phase = "live" => Quantity(poolCache[p]) = asked[p]
                   /\ spec[p].phase = "live" => Quantity(spec[p]) = asked[p]

\* A handler never counts more nodes than its pool asks for, ...
NoneTooMany == \A p \in Pools : pc[p] \in {"check", "create"} => Cardinality(kept[p]) <= asked[p]

\* ... it visits nodes it has listed, and when it removes a pool only nodes of
\* that pool: their names are not used again before it is done.
VisitsListed ==
  \A p \in Pools, n \in Nodes :
    /\ pc[p] \in {"remove", "check"} /\ n \in todo[p] => list[p][n] # NoNode
    /\ pc[p] = "remove" /\ n \in todo[p] /\ node[n] # NoNode => node[n].pool = p

\* NodesKept, without the set it is stated with.
LiveKeep == \A n \in Nodes : node[n] # NoNode /\ node[n].deleting => pool[node[n].pool].phase # "live"

KeepInv == AllIntact /\ SameQuantity /\ NoneTooMany /\ VisitsListed /\ LiveKeep

\* How a node comes to be deleted: its pool is removed, or scaled down.
Marked ==
  \A n \in Nodes : node'[n] # NoNode /\ node'[n].deleting =>
    /\ node[n] # NoNode
    /\ \/ node[n].deleting
       \/ \E p \in Pools : pc[p] = "remove" /\ n \in todo[p]
       \/ \E p \in Pools : Trim(p)

\* Intact nodes are left intact, and deleted for the two reasons only.
LEMMA IntactStep ==
  ASSUME TypeOK, Calm, AllIntact, VisitsListed, [Next]_vars
  PROVE  AllIntact' /\ Marked
<1> DEFINE Intact(m) == m.state # "failed" /\ m.taint = "no"
<1>t. /\ list \in [Pools -> [Nodes -> NodeType \cup {NoNode}]]
      /\ node \in [Nodes -> NodeType \cup {NoNode}]
      /\ todo \in [Pools -> SUBSET Nodes]
  BY Zenon DEF TypeOK
<1>i. /\ \A n \in Nodes : node[n] # NoNode => Intact(node[n])
      /\ \A p \in Pools, n \in Nodes : list[p][n] # NoNode => Intact(list[p][n])
      /\ timers = {}
  BY Zenon DEF AllIntact
<1>g. ASSUME \A n \in Nodes : node'[n] # NoNode => Intact(node'[n]),
             \A p \in Pools, n \in Nodes : list'[p][n] # NoNode => Intact(list'[p][n]),
             timers' = {}
      PROVE  AllIntact'
  BY <1>g, Zenon DEF AllIntact
\* The lists are the old ones, new ones of the nodes, or dropped.
<1>l. ASSUME \A p \in Pools : list'[p] \in {list[p], node, NoNodes}
      PROVE  \A p \in Pools, n \in Nodes : list'[p][n] # NoNode => Intact(list'[p][n])
  <2>1. \A n \in Nodes : NoNodes[n] = NoNode
    BY DEF NoNodes
  <2> HIDE DEF Intact
  <2> QED BY <1>i, <1>l, <2>1, Zenon
<1>n. ASSUME UNCHANGED node, timers' = {}, \A p \in Pools : list'[p] \in {list[p], node, NoNodes}
      PROVE  AllIntact' /\ Marked
  <2>1. AllIntact'
    BY <1>g, <1>i, <1>l, <1>n, Zenon
  <2> QED BY <1>n, <2>1, Zenon DEF Marked
<1>d. ASSUME NEW n \in Nodes, node' = Deleted(node, n), timers' = {},
             \A p \in Pools : list'[p] \in {list[p], node, NoNodes},
             (\E p \in Pools : pc[p] = "remove" /\ n \in todo[p]) \/ (\E p \in Pools : Trim(p))
      PROVE  AllIntact' /\ Marked
  <2>1. CASE node[n] = NoNode
    BY <1>d, <1>n, <2>1, Zenon DEF Deleted
  <2>2. CASE node[n] # NoNode
    <3>1. node[n] \in NodeType
      BY <1>t, <2>2
    <3> DEFINE m == [node[n] EXCEPT !.deleting = TRUE]
    <3>2. Intact(m)
      <4>1. m.state = node[n].state /\ m.taint = node[n].taint
        BY <3>1, Zenon DEF NodeType
      <4> QED BY <1>i, <2>2, <4>1, Zenon
    <3>3. node' = [node EXCEPT ![n] = m]
      BY <1>d, <2>2, Zenon DEF Deleted
    <3> HIDE DEF m
    <3>4. node'[n] = m /\ \A k \in Nodes \ {n} : node'[k] = node[k]
      BY <1>t, <3>3
    <3>5. AllIntact'
      BY <1>d, <1>g, <1>i, <1>l, <3>2, <3>4, Zenon
    <3>6. Marked
      BY <1>d, <2>2, <3>4, Zenon DEF Marked
    <3> QED BY <3>5, <3>6
  <2> QED BY <2>1, <2>2
\* A node is replaced by another copy of it, or by nothing.
<1>u. ASSUME NEW n \in Nodes, NEW u, node[n] # NoNode, node' = [node EXCEPT ![n] = u],
             u # NoNode => Intact(u) /\ u.deleting = node[n].deleting, UNCHANGED <<list, timers>>
      PROVE  AllIntact' /\ Marked
  <2>1. node'[n] = u /\ \A k \in Nodes \ {n} : node'[k] = node[k]
    BY <1>t, <1>u, Zenon
  <2>2. AllIntact'
    BY <1>g, <1>i, <1>l, <1>u, <2>1, ZenonT(30)
  <2>3. Marked
    BY <1>u, <2>1, Zenon DEF Marked
  <2> QED BY <2>2, <2>3
<1> USE DEF poolVars, nodeVars, localVars, goVars
<1>1. ASSUME UNCHANGED <<node, list, timers>> PROVE AllIntact' /\ Marked
  BY <1>1, <1>i, <1>n, Zenon
<1>2. ASSUME NEW p \in Pools,
             PoolEvent(p) \/ Take(p) \/ Checked(p) \/ Sized(p) \/ ChangeRoles(p) \/ DeletePool(p)
      PROVE  AllIntact' /\ Marked
  BY <1>1, <1>2, Zenon DEF PoolEvent, Take, Checked, Sized, ChangeRoles, DeletePool
<1>3. ASSUME NEW n \in Nodes, MachineChanged(n) \/ Requeue(n) \/ Leave(n) \/ Ages(n)
      PROVE  AllIntact' /\ Marked
  BY <1>1, <1>3, Zenon DEF MachineChanged, Requeue, Leave, Ages
<1>4. CASE Resync \/ UNCHANGED vars
  BY <1>1, <1>4, Zenon DEF Resync, vars
<1>f. ASSUME NEW p \in Pools, Finish(p) PROVE \A q \in Pools : list'[q] \in {list[q], node, NoNodes}
  BY <1>f, <1>t DEF Finish
<1>5. ASSUME NEW p \in Pools, Removed(p) \/ Reconciled(p) \/ Fails(p) PROVE AllIntact' /\ Marked
  BY <1>5, <1>f, <1>i, <1>n, Zenon DEF Removed, Reconciled, Fails
<1>6. ASSUME NEW p \in Pools, List(p) PROVE AllIntact' /\ Marked
  <2>1. \A q \in Pools : list'[q] \in {list[q], node, NoNodes}
    BY <1>6, <1>t, Zenon DEF List
  <2> QED BY <1>6, <1>i, <1>n, <2>1, Zenon DEF List
<1>7. CASE Restart
  <2>1. UNCHANGED node /\ timers' = {} /\ list' = [p \in Pools |-> NoNodes]
    BY <1>7, Zenon DEF Restart
  <2> QED BY <1>n, <2>1
<1>8. ASSUME NEW p \in Pools, NEW n \in Nodes, RemoveNode(p, n) PROVE AllIntact' /\ Marked
  <2>1. \A q \in Pools : list'[q] \in {list[q], node, NoNodes}
    <3>1. CASE node[n] = NoNode
      BY <1>8, <1>f, <3>1, Zenon DEF RemoveNode
    <3>2. CASE node[n] # NoNode
      BY <1>8, <3>2, Zenon DEF RemoveNode
    <3> QED BY <3>1, <3>2, Zenon
  <2>2. node' = Deleted(node, n) /\ timers' = {} /\ pc[p] = "remove" /\ n \in todo[p]
    BY <1>8, <1>i, Zenon DEF RemoveNode
  <2> QED BY <1>d, <2>1, <2>2, Zenon
<1>9. ASSUME NEW p \in Pools, NEW n \in Nodes, Check(p, n) PROVE AllIntact' /\ Marked
  <2>1. pc[p] = "check" /\ n \in todo[p]
    BY <1>9, Zenon DEF Check
  <2>2. list[p][n] # NoNode
    BY <2>1, Zenon DEF VisitsListed
  <2>3. list[p][n].state # "failed" /\ ~Expired(p, n)
    BY <1>i, <2>2, Zenon DEF Expired
  <2>4. UNCHANGED <<node, list, timers>>
    BY <1>9, <2>3, Zenon DEF Check
  <2> QED BY <1>1, <2>4
<1>10. ASSUME NEW p \in Pools, NEW n \in Nodes, UpdateNodeRoles(p, n) PROVE AllIntact' /\ Marked
  <2>1. CASE node[n] # NoNode /\ node[n] = list[p][n]
    <3> DEFINE m == [node[n] EXCEPT !.config = spec[p].roles]
    <3>1. m.state = node[n].state /\ m.taint = node[n].taint /\ m.deleting = node[n].deleting
      <4>1. node[n] \in NodeType
        BY <1>t, <2>1
      <4> QED BY <4>1, Zenon DEF NodeType
    <3>2. node' = [node EXCEPT ![n] = m] /\ UNCHANGED <<list, timers>>
      BY <1>10, <2>1, Zenon DEF UpdateNodeRoles
    <3> HIDE DEF m
    <3>3. Intact(m)
      BY <1>i, <2>1, <3>1, Zenon
    <3> QED BY <1>u, <2>1, <3>1, <3>2, <3>3, Zenon
  <2>2. CASE ~(node[n] # NoNode /\ node[n] = list[p][n])
    BY <1>10, <1>f, <1>i, <1>n, <2>2, Zenon DEF UpdateNodeRoles
  <2> QED BY <2>1, <2>2, Zenon
<1>11. ASSUME NEW p \in Pools, Create(p) PROVE AllIntact' /\ Marked
  <2>1. PICK n \in Nodes, h \in Hosts :
          /\ Fresh(n) /\ node' = [node EXCEPT ![n] = NewNode(p, h)]
          /\ list' = [list EXCEPT ![p] = [list[p] EXCEPT ![n] = NewNode(p, h)]]
    BY <1>11, Zenon DEF Create
  <2>2. NewNode(p, h).state = "new" /\ NewNode(p, h).taint = "no" /\ NewNode(p, h).deleting = FALSE
    BY Zenon DEF NewNode
  <2> DEFINE m == NewNode(p, h)
  <2>3. /\ node' = [node EXCEPT ![n] = m] /\ list' = [list EXCEPT ![p] = [list[p] EXCEPT ![n] = m]]
        /\ Intact(m) /\ ~m.deleting
    BY <2>1, <2>2, Zenon
  <2> HIDE DEF m
  <2>4. /\ node'[n] = m /\ list'[p][n] = m
        /\ \A k \in Nodes \ {n} : node'[k] = node[k] /\ list'[p][k] = list[p][k]
        /\ \A q \in Pools \ {p} : list'[q] = list[q]
    BY <1>t, <2>3, Zenon
  <2>5. timers' = {}
    BY <1>11, <1>i, Zenon DEF Create
  <2>6. ASSUME NEW q \in Pools, NEW k \in Nodes, list'[q][k] # NoNode PROVE Intact(list'[q][k])
    <3>1. list'[q][k] = m \/ list'[q][k] = list[q][k]
      BY <2>4, Zenon
    <3> QED BY <1>i, <2>3, <2>6, <3>1, Zenon
  <2>7. AllIntact'
    BY <1>g, <1>i, <2>3, <2>4, <2>5, <2>6, ZenonT(30)
  <2>8. Marked
    BY <2>3, <2>4, Zenon DEF Marked
  <2> QED BY <2>7, <2>8
<1>12. ASSUME NEW p \in Pools, Trim(p) PROVE AllIntact' /\ Marked
  <2>1. UNCHANGED <<list, timers>>
    BY <1>12, Zenon DEF Trim
  <2>2. PICK n \in kept[p] : node' = Deleted(node, n) \/ UNCHANGED node
    BY <1>12, Zenon DEF Trim
  <2>3. n \in Nodes
    BY Zenon DEF TypeOK
  <2>4. CASE UNCHANGED node
    BY <1>1, <2>1, <2>4, Zenon
  <2>5. CASE node' = Deleted(node, n)
    <3>1. timers' = {} /\ \A q \in Pools : list'[q] \in {list[q], node, NoNodes}
      BY <1>i, <2>1, Zenon
    <3> QED BY <1>12, <1>d, <2>3, <2>5, <3>1, Zenon
  <2> QED BY <2>2, <2>4, <2>5, Zenon
<1>13. ASSUME NEW n \in Nodes, DelayedDelete(n) PROVE FALSE
  BY <1>13, <1>i, Zenon DEF DelayedDelete
<1>14. ASSUME NEW n \in Nodes, Finalize(n) PROVE AllIntact' /\ Marked
  BY <1>14, <1>u, Zenon DEF Finalize
<1>15. ASSUME NEW n \in Nodes, Provision(n) PROVE AllIntact' /\ Marked
  <2> DEFINE u == [node[n] EXCEPT !.state = "ok", !.config = SavedConfig(n)]
  <2>1. node[n] # NoNode /\ node' = [node EXCEPT ![n] = u] /\ UNCHANGED <<list, timers>>
    BY <1>15, Zenon DEF Provision, Alive
  <2>2. u.state = "ok" /\ u.taint = node[n].taint /\ u.deleting = node[n].deleting
    <3>1. node[n] \in NodeType
      BY <1>t, <2>1
    <3> QED BY <3>1, Zenon DEF NodeType
  <2> HIDE DEF u
  <2>3. Intact(u)
    BY <1>i, <2>1, <2>2, Zenon
  <2> QED BY <1>u, <2>1, <2>2, <2>3, Zenon
<1>16. ASSUME NEW n \in Nodes, ReadyUnknown(n) PROVE FALSE
  <2>1. node[n] # NoNode /\ node[n].taint = "known"
    BY <1>16, Zenon DEF ReadyUnknown, Alive
  <2> QED BY <1>i, <2>1, Zenon
<1>17. /\ ~(\E p \in Pools : Scale(p))
       /\ ~(\E n \in Nodes : DeleteNode(n) \/ ProvisionFails(n) \/ Outage(n))
  <2>1. "scale" \notin Disturbances /\ "deleteNode" \notin Disturbances
        /\ "fail" \notin Disturbances /\ "network" \notin Disturbances
    BY DEF Calm
  <2> QED BY <2>1, Zenon DEF Scale, DeleteNode, ProvisionFails, Outage, Change
<1> QED
  BY <1>2, <1>3, <1>4, <1>5, <1>6, <1>7, <1>8, <1>9, <1>10, <1>11, <1>12, <1>13, <1>14, <1>15, <1>16,
     <1>17, Zenon DEF Next, Handler, Goroutine, Machine, Disturbance

\* Without scaling, what the users do to a pool leaves its quantity alone.
LEMMA UsersKeep ==
  ASSUME TypeOK, NEW p \in Pools, ChangeRoles(p) \/ DeletePool(p)
  PROVE  Quantity(pool'[p]) = Quantity(pool[p]) /\ asked' = asked
<1>1. pool \in [Pools -> PoolType] /\ pool[p] \in PoolType
  BY Zenon DEF TypeOK
<1>2. PICK s : pool' = [pool EXCEPT ![p] = s] /\ s.quantity = pool[p].quantity
  <2>1. CASE ChangeRoles(p)
    <3>1. PICK r : pool' = [pool EXCEPT ![p] = [pool[p] EXCEPT !.roles = r]]
      BY <2>1, Zenon DEF ChangeRoles
    <3>2. [pool[p] EXCEPT !.roles = r].quantity = pool[p].quantity
      BY <1>1, Zenon DEF PoolType
    <3> QED BY <3>1, <3>2, Zenon
  <2>2. CASE DeletePool(p)
    <3>1. pool' = [pool EXCEPT ![p] = [pool[p] EXCEPT !.phase = "deleting"]]
      BY <2>2, Zenon DEF DeletePool
    <3>2. [pool[p] EXCEPT !.phase = "deleting"].quantity = pool[p].quantity
      BY <1>1, Zenon DEF PoolType
    <3> QED BY <3>1, <3>2, Zenon
  <2> QED BY <2>1, <2>2, Zenon
<1>3. pool'[p] = s
  BY <1>1, <1>2
<1>4. asked' = asked
  BY Zenon DEF ChangeRoles, DeletePool
<1> QED BY <1>2, <1>3, <1>4, Zenon DEF Quantity

\* No pool comes to life, and without scaling its live copies agree.
LEMMA QuantityStep ==
  ASSUME TypeOK, Calm, PhasesAgree, SameQuantity, [Next]_vars
  PROVE  /\ SameQuantity' /\ UNCHANGED asked
         /\ \A p \in Pools : pool'[p].phase = "live" => pool[p].phase = "live"
<1> DEFINE Goal == /\ SameQuantity' /\ UNCHANGED asked
                   /\ \A p \in Pools : pool'[p].phase = "live" => pool[p].phase = "live"
<1>t. /\ spec \in [Pools -> PoolType] /\ pool \in [Pools -> PoolType] /\ poolCache \in [Pools -> PoolType]
  BY Zenon DEF TypeOK
<1>g. NoPool.phase = "gone"
  BY DEF NoPool
<1>i. \A p \in Pools : /\ pool[p].phase = "live" => Quantity(pool[p]) = asked[p]
                       /\ poolCache[p].phase = "live" => Quantity(poolCache[p]) = asked[p]
                       /\ spec[p].phase = "live" => Quantity(spec[p]) = asked[p]
  BY Zenon DEF SameQuantity
\* The copies of a pool are copied from one another.
<1>a. ASSUME UNCHANGED asked,
             \A p \in Pools :
               /\ pool'[p] \in {pool[p], NoPool}
               /\ poolCache'[p] \in {pool[p], poolCache[p]}
               /\ spec'[p] \in {spec[p], poolCache[p], NoPool}
      PROVE  Goal
  <2>1. SameQuantity'
    <3> SUFFICES ASSUME NEW p \in Pools
                 PROVE  /\ pool'[p].phase = "live" => Quantity(pool'[p]) = asked'[p]
                        /\ poolCache'[p].phase = "live" => Quantity(poolCache'[p]) = asked'[p]
                        /\ spec'[p].phase = "live" => Quantity(spec'[p]) = asked'[p]
      BY Zenon DEF SameQuantity, Quantity
    <3> QED BY <1>a, <1>g, <1>i, Zenon
  <2>2. \A p \in Pools : pool'[p].phase = "live" => pool[p].phase = "live"
    BY <1>a, <1>g, Zenon
  <2> QED BY <1>a, <2>1, <2>2, Zenon
<1>u. ASSUME UNCHANGED <<pool, poolCache, spec, asked>> PROVE Goal
  BY <1>a, <1>u, Zenon
<1>f. ASSUME NEW p \in Pools, Finish(p) PROVE \A q \in Pools : spec'[q] \in {spec[q], poolCache[q], NoPool}
  BY <1>f, <1>t, Zenon DEF Finish
<1> HIDE DEF Goal
<1>1. ASSUME Quiet PROVE Goal
  <2>1. UNCHANGED <<pool, poolCache, spec, asked>>
    BY <1>1 DEF Quiet, poolVars, localVars
  <2> QED BY <1>u, <2>1
<1>2. ASSUME Restart PROVE Goal
  <2>1. UNCHANGED <<pool, asked>> /\ poolCache' = pool /\ \A p \in Pools : spec'[p] = NoPool
    BY <1>2, Zenon DEF Restart
  <2>2. \A p \in Pools : /\ pool'[p] \in {pool[p], NoPool}
                         /\ poolCache'[p] \in {pool[p], poolCache[p]}
                         /\ spec'[p] \in {spec[p], poolCache[p], NoPool}
    BY <2>1, Zenon
  <2> QED BY <1>a, <2>1, <2>2, Zenon
<1>3. ASSUME NEW p \in Pools, Returns(p) PROVE Goal
  <2>1. UNCHANGED <<pool, poolCache, asked>> /\ Finish(p)
    BY <1>3, Zenon DEF Returns, poolVars
  <2> QED BY <1>a, <1>f, <2>1, Zenon
<1>4. ASSUME NEW p \in Pools, NEW n \in Nodes, Visits(p, n) PROVE Goal
  BY <1>4, <1>u, Zenon DEF Visits, poolVars
<1>5. ASSUME NEW p \in Pools, PoolEvent(p) PROVE Goal
  <2>1. UNCHANGED <<pool, spec, asked>> /\ \A q \in Pools : poolCache'[q] \in {pool[q], poolCache[q]}
    BY <1>5, <1>t, Zenon DEF PoolEvent, localVars
  <2> QED BY <1>a, <2>1, Zenon
<1>6. ASSUME NEW p \in Pools, ChangeRoles(p) \/ DeletePool(p) PROVE Goal
  <2>1. /\ pool[p].phase = "live" /\ \A q \in Pools \ {p} : pool'[q] = pool[q]
        /\ UNCHANGED <<poolCache, spec>>
    BY <1>6, Users, Zenon DEF localVars
  <2>2. Quantity(pool'[p]) = Quantity(pool[p]) /\ asked' = asked
    BY <1>6, UsersKeep, Zenon
  <2>3. SameQuantity'
    <3> SUFFICES ASSUME NEW q \in Pools
                 PROVE  /\ pool'[q].phase = "live" => Quantity(pool'[q]) = asked'[q]
                        /\ poolCache'[q].phase = "live" => Quantity(poolCache'[q]) = asked'[q]
                        /\ spec'[q].phase = "live" => Quantity(spec'[q]) = asked'[q]
      BY Zenon DEF SameQuantity, Quantity
    <3>1. CASE q = p
      BY <1>i, <2>1, <2>2, <3>1, Zenon
    <3>2. CASE q # p
      BY <1>i, <2>1, <2>2, <3>2, Zenon
    <3> QED BY <3>1, <3>2, Zenon
  <2> QED BY <2>1, <2>2, <2>3, Zenon DEF Goal
<1>s. ASSUME NEW p \in Pools, Scale(p) PROVE FALSE
  <2>1. "scale" \notin Disturbances
    BY DEF Calm
  <2> QED BY <1>s, <2>1, Zenon DEF Scale, Change
<1>7. ASSUME NEW p \in Pools, Take(p) PROVE Goal
  <2>1. UNCHANGED <<pool, poolCache, asked>> /\ \A q \in Pools : spec'[q] \in {spec[q], poolCache[q]}
    BY <1>7, <1>t, Zenon DEF Take, poolVars
  <2> QED BY <1>a, <2>1, Zenon
<1>8. ASSUME NEW p \in Pools, List(p) \/ Checked(p) \/ Sized(p) \/ Create(p) \/ Trim(p) PROVE Goal
  BY <1>8, <1>u, Zenon DEF List, Checked, Sized, Create, Trim, poolVars, localVars
<1>9. ASSUME NEW p \in Pools, Removed(p) PROVE Goal
  <2>1. /\ UNCHANGED <<poolCache, asked>> /\ Finish(p)
        /\ \A q \in Pools : pool'[q] \in {pool[q], NoPool}
    BY <1>9, <1>t, Zenon DEF Removed
  <2> QED BY <1>a, <1>f, <2>1, Zenon
<1> QED
  BY StepCases, <1>1, <1>2, <1>3, <1>4, <1>5, <1>6, <1>s, <1>7, <1>8, <1>9, Zenon DEF Goal

\* There is nothing to trim.
LEMMA NothingToTrim ==
  ASSUME TypeOK, PhasesAgree, SameQuantity, NoneTooMany, NEW p \in Pools, Trim(p)
  PROVE  FALSE
<1>1. pc[p] = "create" /\ Cardinality(kept[p]) > Quantity(spec[p])
  BY Zenon DEF Trim
<1>2. Quantity(spec[p]) = asked[p] /\ asked[p] \in Nat /\ kept[p] \subseteq Nodes
  BY <1>1, Zenon DEF SameQuantity, PhasesAgree, TypeOK
<1>3. Cardinality(kept[p]) \in Nat
  BY <1>2, NodesAreNumbers, FS_Subset, FS_CardinalityType, Zenon
<1>4. Cardinality(kept[p]) <= asked[p]
  BY <1>1, Zenon DEF NoneTooMany
<1> QED BY <1>1, <1>2, <1>3, <1>4

\* A handler that keeps to its list counts no more than its pool asks for.
LEMMA CountStep ==
  ASSUME TypeOK, PhasesAgree, SizeInv, SameQuantity, NoneTooMany, UNCHANGED asked, [Next]_vars
  PROVE  NoneTooMany'
<1>t. /\ pc \in [Pools -> {"idle", "list", "remove", "check", "create", "roles"}]
      /\ kept \in [Pools -> SUBSET Nodes] /\ spec \in [Pools -> PoolType] /\ asked \in [Pools -> Nat]
  BY Zenon DEF TypeOK
\* No handler starts to check, and those that do keep their count.
<1>c. ASSUME \A p \in Pools : pc'[p] \in {"check", "create"} =>
               pc[p] \in {"check", "create"} /\ kept'[p] = kept[p]
      PROVE  NoneTooMany'
  BY <1>c, Zenon DEF NoneTooMany
<1>1. CASE Quiet
  BY <1>1, <1>c, Zenon DEF Quiet, localVars
<1>2. CASE Restart
  <2>1. \A p \in Pools : pc'[p] = "idle"
    BY <1>2 DEF Restart
  <2> QED BY <1>c, <2>1, Zenon
<1>f. ASSUME NEW p \in Pools, Finish(p) PROVE NoneTooMany'
  <2>1. pc'[p] = "idle" /\ \A q \in Pools \ {p} : pc'[q] = pc[q] /\ kept'[q] = kept[q]
    BY <1>f, <1>t, Zenon DEF Finish, Goto
  <2> QED BY <1>c, <2>1, Zenon
<1>3. ASSUME NEW p \in Pools, Returns(p) \/ Removed(p) PROVE NoneTooMany'
  BY <1>3, <1>f, Zenon DEF Returns, Removed
<1>4. ASSUME NEW p \in Pools, NEW n \in Nodes, Visits(p, n) PROVE NoneTooMany'
  BY <1>4, <1>c, Zenon DEF Visits
<1>5. ASSUME NEW p \in Pools, PoolEvent(p) \/ Scale(p) \/ ChangeRoles(p) \/ DeletePool(p) PROVE NoneTooMany'
  <2>1. UNCHANGED <<pc, kept>>
    BY <1>5, Zenon DEF PoolEvent, Scale, ChangeRoles, DeletePool, localVars
  <2> QED BY <1>c, <2>1, Zenon
<1>6. ASSUME NEW p \in Pools, Take(p) PROVE NoneTooMany'
  <2>1. UNCHANGED kept /\ pc'[p] \in {"idle", "list"} /\ \A q \in Pools \ {p} : pc'[q] = pc[q]
    BY <1>6, <1>t, Zenon DEF Take, Goto
  <2> QED BY <1>c, <2>1, Zenon
<1>7. ASSUME NEW p \in Pools, List(p) PROVE NoneTooMany'
  <2>1. kept'[p] = Own(node, p) /\ \A q \in Pools \ {p} : pc'[q] = pc[q] /\ kept'[q] = kept[q]
    BY <1>7, <1>t, Zenon DEF List, Goto
  <2>2. Cardinality(Own(node, p)) <= asked[p]
    BY Zenon DEF SizeInv, NeverMoreThanAsked
  <2> QED BY <2>1, <2>2, Zenon DEF NoneTooMany
<1>8. ASSUME NEW p \in Pools, Checked(p) \/ Sized(p) PROVE NoneTooMany'
  <2>1. /\ UNCHANGED kept /\ pc[p] \in {"check", "create"}
        /\ \A q \in Pools \ {p} : pc'[q] = pc[q]
    BY <1>8, <1>t, Zenon DEF Checked, Sized, Goto, localVars
  <2> QED BY <1>c, <2>1, Zenon
<1>9. ASSUME NEW p \in Pools, Create(p) PROVE NoneTooMany'
  <2>1. pc[p] = "create" /\ Cardinality(kept[p]) < Quantity(spec[p]) /\ UNCHANGED pc
    BY <1>9, Creates, Zenon
  <2>2. PICK n \in Nodes : /\ Fresh(n) /\ kept'[p] = kept[p] \cup {n}
                           /\ \A q \in Pools \ {p} : kept'[q] = kept[q]
    BY <1>9, Creates, Zenon
  <2>3. IsFiniteSet(kept[p]) /\ Cardinality(kept[p]) \in Nat /\ n \notin kept[p]
    <3>1. kept[p] \subseteq Nodes
      BY <1>t
    <3> QED BY <2>2, <3>1, NodesAreNumbers, FS_Subset, FS_CardinalityType, Zenon DEF Fresh
  <2>4. Cardinality(kept[p] \cup {n}) = Cardinality(kept[p]) + 1
    BY <2>3, FS_AddElement, ZenonT(30)
  <2>5. Quantity(spec[p]) = asked[p] /\ asked[p] \in Nat
    BY <1>t, <2>1, Zenon DEF SameQuantity, PhasesAgree
  <2>6. Cardinality(kept'[p]) <= asked'[p]
    <3>1. Cardinality(kept[p]) < asked[p]
      BY <2>1, <2>5, Zenon
    <3>2. Cardinality(kept[p]) + 1 <= asked[p]
      BY <2>3, <2>5, <3>1, SMT
    <3>3. asked' = asked
      BY <1>9, Creates, Zenon
    <3> QED BY <2>2, <2>4, <3>2, <3>3, Zenon
  <2> QED BY <2>1, <2>2, <2>6, Zenon DEF NoneTooMany
<1>10. ASSUME NEW p \in Pools, Trim(p) PROVE FALSE
  BY <1>10, NothingToTrim
<1> QED
  BY StepCases, <1>1, <1>2, <1>3, <1>4, <1>5, <1>6, <1>7, <1>8, <1>9, <1>10, Zenon

\* A handler visits what it has listed, and removes nodes of its pool only.
LEMMA VisitStep ==
  ASSUME TypeOK, VisitsListed, [Next]_vars
  PROVE  VisitsListed'
<1>t. /\ pc \in [Pools -> {"idle", "list", "remove", "check", "create", "roles"}]
      /\ todo \in [Pools -> SUBSET Nodes] /\ list \in [Pools -> [Nodes -> NodeType \cup {NoNode}]]
  BY Zenon DEF TypeOK
\* No handler starts to visit, and those that do visit less.
<1>v. ASSUME NodesPersist,
             \A p \in Pools : pc'[p] \in {"remove", "check"} =>
               pc'[p] = pc[p] /\ list'[p] = list[p] /\ todo'[p] \subseteq todo[p]
      PROVE  VisitsListed'
  <2> SUFFICES ASSUME NEW p \in Pools, NEW n \in Nodes, n \in todo'[p], pc'[p] \in {"remove", "check"}
               PROVE  /\ list'[p][n] # NoNode
                      /\ pc'[p] = "remove" /\ node'[n] # NoNode => node'[n].pool = p
    BY Zenon DEF VisitsListed
  <2>1. pc'[p] = pc[p] /\ list'[p] = list[p] /\ n \in todo[p]
    BY <1>v, Zenon
  <2>2. node'[n] # NoNode => node[n] # NoNode /\ node'[n].pool = node[n].pool
    BY <1>v, Zenon DEF NodesPersist
  <2> QED BY <2>1, <2>2, Zenon DEF VisitsListed
<1>1. CASE Quiet
  <2>1. NodesPersist /\ UNCHANGED <<pc, list, todo>>
    BY <1>1 DEF Quiet, localVars
  <2> QED BY <1>v, <2>1
<1>2. CASE Restart
  <2>1. UNCHANGED node /\ \A p \in Pools : pc'[p] = "idle"
    BY <1>2, Zenon DEF Restart
  <2> QED BY <1>v, <2>1, SameNodes, Zenon
<1>f. ASSUME NEW p \in Pools, Finish(p), NodesPersist PROVE VisitsListed'
  <2>1. /\ pc'[p] = "idle"
        /\ \A q \in Pools \ {p} : pc'[q] = pc[q] /\ todo'[q] = todo[q] /\ list'[q] = list[q]
    BY <1>f, <1>t, Zenon DEF Finish, Goto
  <2> QED BY <1>f, <1>v, <2>1, Zenon
<1>3. ASSUME NEW p \in Pools, Returns(p) \/ Removed(p) PROVE VisitsListed'
  BY <1>3, <1>f, SameNodes, Zenon DEF Returns, Removed, nodeVars
<1>4. ASSUME NEW p \in Pools, NEW n \in Nodes, Visits(p, n) PROVE VisitsListed'
  <2>1. NodesPersist /\ UNCHANGED <<pc, list>> /\ \A q \in Pools : todo'[q] \subseteq todo[q]
    BY <1>4, <1>t, Zenon DEF Visits
  <2> QED BY <1>v, <2>1, Zenon
<1>5. ASSUME NEW p \in Pools, PoolEvent(p) \/ Scale(p) \/ ChangeRoles(p) \/ DeletePool(p) PROVE VisitsListed'
  <2>1. UNCHANGED <<node, pc, list, todo>>
    BY <1>5, Zenon DEF PoolEvent, Scale, ChangeRoles, DeletePool, localVars, nodeVars
  <2> QED BY <1>v, <2>1, SameNodes, Zenon
<1>6. ASSUME NEW p \in Pools, Take(p) PROVE VisitsListed'
  <2>1. UNCHANGED <<node, list, todo>> /\ pc'[p] \in {"idle", "list"} /\ \A q \in Pools \ {p} : pc'[q] = pc[q]
    BY <1>6, <1>t, Zenon DEF Take, Goto, nodeVars
  <2> QED BY <1>v, <2>1, SameNodes, Zenon
<1>7. ASSUME NEW p \in Pools, List(p) PROVE VisitsListed'
  <2>1. /\ UNCHANGED node /\ list'[p] = node /\ todo'[p] = Own(node, p)
        /\ \A q \in Pools \ {p} : pc'[q] = pc[q] /\ list'[q] = list[q] /\ todo'[q] = todo[q]
    BY <1>7, <1>t, Zenon DEF List, Goto, nodeVars
  <2>2. \A n \in Nodes : n \in Own(node, p) <=> node[n] # NoNode /\ node[n].pool = p
    BY Zenon DEF Own, Exists
  <2> SUFFICES ASSUME NEW q \in Pools, NEW n \in Nodes, n \in todo'[q]
               PROVE  /\ pc'[q] \in {"remove", "check"} => list'[q][n] # NoNode
                      /\ pc'[q] = "remove" /\ node'[n] # NoNode => node'[n].pool = q
    BY Zenon DEF VisitsListed
  <2>3. CASE q = p
    BY <2>1, <2>2, <2>3, Zenon
  <2>4. CASE q # p
    BY <2>1, <2>4, ZenonT(30) DEF VisitsListed
  <2> QED BY <2>3, <2>4, ZenonT(30)
<1>8. ASSUME NEW p \in Pools, Checked(p) \/ Sized(p) PROVE VisitsListed'
  <2>1. /\ UNCHANGED <<node, list>> /\ pc'[p] \in {"create", "roles"}
        /\ \A q \in Pools \ {p} : pc'[q] = pc[q] /\ todo'[q] = todo[q]
    BY <1>8, <1>t, Zenon DEF Checked, Sized, Goto, localVars, nodeVars
  <2> QED BY <1>v, <2>1, SameNodes, Zenon
<1>9. ASSUME NEW p \in Pools, Create(p) PROVE VisitsListed'
  <2>1. pc[p] = "create" /\ UNCHANGED <<pc, todo>>
    BY <1>9, Creates, Zenon
  <2>2. PICK n \in Nodes, h \in Hosts :
          /\ h \notin HostsOf(list[p]) /\ Fresh(n)
          /\ node'[n] # NoNode /\ node'[n].pool = p /\ node'[n].host = h
          /\ \A k \in Nodes \ {n} : node'[k] = node[k] /\ list'[p][k] = list[p][k]
          /\ list'[p][n] = node'[n]
          /\ kept'[p] = kept[p] \cup {n}
          /\ \A q \in Pools \ {p} : list'[q] = list[q] /\ kept'[q] = kept[q]
    BY <1>9, Creates, Zenon
  <2>3. \A q \in Pools : list[q][n] = NoNode
    BY <2>2, Zenon DEF Fresh
  <2>4. ASSUME NEW q \in Pools, NEW k \in Nodes, pc[q] \in {"remove", "check"}, k \in todo[q]
        PROVE  k # n /\ q # p /\ list'[q][k] = list[q][k] /\ node'[k] = node[k]
    <3>1. list[q][k] # NoNode
      BY <2>4, Zenon DEF VisitsListed
    <3>2. q # p
      BY <2>1, <2>4, Zenon
    <3>3. k # n
      BY <2>3, <3>1, Zenon
    <3> QED BY <2>2, <3>2, <3>3, Zenon
  <2> QED BY <2>1, <2>4 DEF VisitsListed
<1>10. ASSUME NEW p \in Pools, Trim(p) PROVE VisitsListed'
  <2>1. UNCHANGED <<pc, list, todo>>
    BY <1>10, Zenon DEF Trim
  <2> QED BY <1>10, <1>v, <2>1, TrimPersist, Zenon
<1> QED
  BY StepCases, <1>1, <1>2, <1>3, <1>4, <1>5, <1>6, <1>7, <1>8, <1>9, <1>10, Zenon

\* A node that is there was there before, in the same pool, or is a new one.
LEMMA NodesStay ==
  ASSUME TypeOK, [Next]_vars
  PROVE  \A n \in Nodes : node'[n] # NoNode /\ node[n] # NoNode => node'[n].pool = node[n].pool
<1>1. CASE NodesPersist
  BY <1>1, Zenon DEF NodesPersist
<1>2. ASSUME NEW p \in Pools, Create(p)
      PROVE  \A n \in Nodes : node'[n] # NoNode /\ node[n] # NoNode => node'[n].pool = node[n].pool
  <2>1. PICK n \in Nodes, h \in Hosts :
          /\ h \notin HostsOf(list[p]) /\ Fresh(n)
          /\ node'[n] # NoNode /\ node'[n].pool = p /\ node'[n].host = h
          /\ \A k \in Nodes \ {n} : node'[k] = node[k] /\ list'[p][k] = list[p][k]
          /\ list'[p][n] = node'[n]
          /\ kept'[p] = kept[p] \cup {n}
          /\ \A q \in Pools \ {p} : list'[q] = list[q] /\ kept'[q] = kept[q]
    BY <1>2, Creates, Zenon
  <2>2. node[n] = NoNode
    BY <2>1, Zenon DEF Fresh
  <2> QED BY <2>1, <2>2, Zenon
<1>3. ASSUME UNCHANGED node PROVE NodesPersist
  BY <1>3, SameNodes
<1>4. ASSUME NEW p \in Pools, Trim(p) PROVE NodesPersist
  BY <1>4, TrimPersist
<1> QED
  BY StepCases, <1>1, <1>2, <1>3, <1>4, Zenon
     DEF Quiet, Restart, Returns, Visits, PoolEvent, Scale, ChangeRoles, DeletePool, Take, List,
         Removed, Checked, Sized, nodeVars

\* Every step of a calm system keeps the nodes of the live pools.
LEMMA KeepStep ==
  ASSUME TypeOK, Calm, PhasesAgree, SizeInv, KeepInv, [Next]_vars
  PROVE  KeepInv'
<1>1. AllIntact /\ SameQuantity /\ NoneTooMany /\ VisitsListed /\ LiveKeep
  BY DEF KeepInv
<1>2. AllIntact' /\ Marked
  BY <1>1, IntactStep
<1>3. /\ SameQuantity' /\ UNCHANGED asked
      /\ \A p \in Pools : pool'[p].phase = "live" => pool[p].phase = "live"
  BY <1>1, QuantityStep, Zenon
<1>4. NoneTooMany'
  BY <1>1, <1>3, CountStep, Zenon
<1>5. VisitsListed'
  BY <1>1, VisitStep
<1>6. LiveKeep'
  <2> SUFFICES ASSUME NEW n \in Nodes, node'[n] # NoNode, node'[n].deleting
               PROVE  pool'[node'[n].pool].phase # "live"
    BY Zenon DEF LiveKeep
  <2>1. node[n] # NoNode /\ \/ node[n].deleting
                            \/ \E p \in Pools : pc[p] = "remove" /\ n \in todo[p]
                            \/ \E p \in Pools : Trim(p)
    BY <1>2, Zenon DEF Marked
  <2>2. node'[n].pool = node[n].pool /\ node[n].pool \in Pools
    <3>1. node[n] \in NodeType
      BY <2>1, Zenon DEF TypeOK
    <3>2. node[n].pool \in Pools
      BY <3>1, Zenon DEF NodeType
    <3> QED BY <2>1, <3>2, NodesStay, Zenon
  <2>3. pool[node[n].pool].phase # "live"
    <3>1. CASE node[n].deleting
      BY <1>1, <2>1, <3>1, Zenon DEF LiveKeep
    <3>2. ASSUME NEW p \in Pools, pc[p] = "remove", n \in todo[p] PROVE pool[node[n].pool].phase # "live"
      <4>1. node[n].pool = p
        BY <1>1, <2>1, <3>2, Zenon DEF VisitsListed
      <4>2. pool[p].phase # "live"
        BY <3>2, Zenon DEF PhasesAgree
      <4> QED BY <4>1, <4>2, Zenon
    <3>3. ASSUME NEW p \in Pools, Trim(p) PROVE FALSE
      BY <1>1, <3>3, NothingToTrim, Zenon
    <3> QED BY <2>1, <3>1, <3>2, <3>3, Zenon
  <2> QED BY <1>3, <2>2, <2>3, Zenon
<1> QED BY <1>2, <1>3, <1>4, <1>5, <1>6, Zenon DEF KeepInv

\* A pool that nobody scales or deletes keeps its nodes (NodesKept), for any
\* number of pools, nodes, failed calls, restarts and changes of roles, as long
\* as the machines work: the handler of another pool never touches them, and a
\* handler that repeats what an earlier one did in part never has a node too
\* many, although it decides on a stale cache that it has work.
THEOREM PoolsKeepNodes ==
  ASSUME Calm
  PROVE  Spec => []NodesKept
<1>1. Init => PhasesAgree /\ SizeInv /\ KeepInv
  <2> SUFFICES ASSUME Init PROVE PhasesAgree /\ SizeInv /\ KeepInv
    OBVIOUS
  <2>1. /\ \A p \in Pools : /\ poolCache[p].phase = "gone" /\ spec[p].phase = "gone"
                            /\ pool[p].phase = "live" /\ pc[p] = "idle"
                            /\ asked[p] = Quantity(pool[p])
        /\ \A p \in Pools, n \in Nodes : list[p][n] = NoNode
        /\ \A n \in Nodes : node[n] = NoNode
        /\ timers = {}
    BY Zenon DEF Init, NoPool, NoNodes
  <2>2. PhasesAgree
    BY <2>1, Zenon DEF PhasesAgree
  <2>3. KeepInv
    BY <2>1, Zenon DEF KeepInv, AllIntact, SameQuantity, NoneTooMany, VisitsListed, LiveKeep
  <2> QED BY <2>2, <2>3, SizeInit
<1>2. TypeOK /\ PhasesAgree /\ SizeInv /\ KeepInv /\ [Next]_vars => PhasesAgree' /\ SizeInv' /\ KeepInv'
  BY PhaseStep, SizeStep, KeepStep
<1>3. KeepInv => NodesKept
  BY Zenon DEF KeepInv, LiveKeep, NodesKept, Exists
<1> QED BY <1>1, <1>2, <1>3, TypeCorrect, PTL DEF Spec

-----------------------------------------------------------------------------
\* Only the visit of a node, its goroutine and a restart touch syncmap and goroutines.
LEMMA GoroutineSteps ==
  ASSUME [Next]_vars
  PROVE  \/ UNCHANGED <<syncmap, looping, leaving>>
         \/ Restart
         \/ \E p \in Pools, n \in Nodes : Check(p, n)
         \/ \E n \in Nodes : Requeue(n) \/ Leave(n)
<1>1. ASSUME NEW p \in Pools, Handler(p), ~ \E n \in Nodes : Check(p, n)
      PROVE  UNCHANGED goVars
  BY <1>1, Zenon DEF Handler, Take, List, Removed, Checked, Create, Trim, Sized, Reconciled,
     RemoveNode, UpdateNodeRoles
<1>2. ASSUME NEW p \in Pools, PoolEvent(p) PROVE UNCHANGED goVars
  BY <1>2, Zenon DEF PoolEvent
<1>3. ASSUME NEW n \in Nodes, MachineChanged(n) \/ Machine(n) \/ DeleteNode(n)
                                \/ ProvisionFails(n) \/ Outage(n)
      PROVE  UNCHANGED goVars
  BY <1>3, Zenon DEF MachineChanged, Machine, Provision, Finalize, ReadyUnknown, Ages,
     DeleteNode, ProvisionFails, Outage
<1>4. ASSUME NEW p \in Pools, Scale(p) \/ ChangeRoles(p) \/ DeletePool(p) \/ Fails(p)
      PROVE  UNCHANGED goVars
  BY <1>4, Zenon DEF Scale, ChangeRoles, DeletePool, Fails
<1>5. CASE Resync
  BY <1>5, Zenon DEF Resync, goVars
<1>6. ASSUME NEW n \in Nodes, DelayedDelete(n) PROVE UNCHANGED <<syncmap, looping, leaving>>
  BY <1>6, Zenon DEF DelayedDelete
<1>7. CASE UNCHANGED vars
  BY <1>7, Zenon DEF vars, goVars
<1>8. UNCHANGED goVars => UNCHANGED <<syncmap, looping, leaving>>
  BY DEF goVars
<1> QED
  BY <1>1, <1>2, <1>3, <1>4, <1>5, <1>6, <1>7, <1>8, Zenon DEF Next, Goroutine, Disturbance

\* syncmap holds exactly the nodes that have a goroutine: see OneRequeuePerNode.
THEOREM OneGoroutine == Spec => []OneRequeuePerNode
<1>1. Init => OneRequeuePerNode
  BY Zenon DEF Init, OneRequeuePerNode
<1>2. OneRequeuePerNode /\ [Next]_vars => OneRequeuePerNode'
  <2> SUFFICES ASSUME OneRequeuePerNode, [Next]_vars PROVE OneRequeuePerNode'
    OBVIOUS
  <2> USE DEF OneRequeuePerNode
  <2>1. CASE UNCHANGED <<syncmap, looping, leaving>>
    BY <2>1
  <2>2. CASE Restart
    BY <2>2, Zenon DEF Restart
  <2>3. ASSUME NEW p \in Pools, NEW n \in Nodes, Check(p, n) PROVE OneRequeuePerNode'
    <3>1. /\ UNCHANGED leaving
          /\ \/ UNCHANGED <<syncmap, looping>>
             \/ n \notin syncmap /\ syncmap' = syncmap \cup {n} /\ looping' = looping \cup {n}
      BY <2>3, Zenon DEF Check
    <3> QED BY <3>1, Zenon
  <2>4. ASSUME NEW n \in Nodes, Requeue(n) PROVE OneRequeuePerNode'
    BY <2>4, Zenon DEF Requeue
  <2>5. ASSUME NEW n \in Nodes, Leave(n) PROVE OneRequeuePerNode'
    BY <2>5, Zenon DEF Leave
  <2> QED BY <2>1, <2>2, <2>3, <2>4, <2>5, GoroutineSteps, Zenon
<1> QED BY <1>1, <1>2, PTL DEF Spec
=============================================================================

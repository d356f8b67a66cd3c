------------------------------ MODULE NodePool ------------------------------
(***************************************************************************)
(* pkg/controllers/management/nodepool/nodepool.go: the controller that    *)
(* keeps the nodes of every pool of a cluster at the pool's quantity.      *)
(* A pool's handler is run by one worker at a time (the work queue), the   *)
(* handlers of different pools by several; they share the API server, the  *)
(* lister's cache, which lags behind it, and the goroutines of deleteNode  *)
(* and requeue.  Every call to the API server is a step that may fail.     *)
(*   A node is a number: the "m-" name Kubernetes generates for it, never  *)
(* used again while anything refers to it.  A hostname is the number after *)
(* the prefix; all pools share the prefix, the case where names can clash. *)
(***************************************************************************)
EXTENDS Integers, FiniteSets

CONSTANTS
  Pools,
  Nodes,          \* names of nodes (numbers)
  Hosts,          \* hostname numbers, 1 .. n with n <= 9: their order is that of the strings
  Quantities,     \* values of Spec.Quantity
  RoleSets,       \* values of the role flags of a pool
  NoNode,
  DeleteNotReady, \* Spec.DeleteNotReadyAfterSecs is set
  Disturbances,   \* the changes of the surroundings that happen
  MaxChanges      \* bound: how many of them

AllRoles == {"etcd", "controlplane", "worker"}

ASSUME NodesAreNumbers == Nodes \subseteq Nat /\ IsFiniteSet(Nodes) /\ Hosts \subseteq 1 .. 9
ASSUME QuantitiesAssumption == Quantities \subseteq Int
ASSUME RoleSetsAssumption == RoleSets \subseteq SUBSET AllRoles
ASSUME DeleteNotReadyAssumption == DeleteNotReady \in BOOLEAN

NoConfig == {"nil"}
NoPool == [phase |-> "gone", quantity |-> 0, roles |-> {}]

VARIABLES
  pool, poolCache,   \* the pools: API server and lister
  node, nodeCache,   \* the nodes: API server and lister
  queue,             \* pools in the controller's work queue
  pc,                \* the handler of each pool
  spec, list, kept, todo,  \* its locals: nodePool, allNodes, nodes, nodes still to visit
  timers,            \* nodes with a delayed delete of deleteNode
  syncmap,           \* c.syncmap
  looping, leaving,  \* nodes whose requeue goroutine loops / has left the loop
  overdue,           \* outages <<n, since>> longer than DeleteNotReadyAfterSecs
  asked,             \* largest quantity asked for so far (history)
  changes

poolVars == <<pool, poolCache>>
nodeVars == <<node, nodeCache>>
localVars == <<spec, list, kept, todo>>
goVars == <<timers, syncmap, looping, leaving>>
vars == <<poolVars, nodeVars, queue, pc, localVars, goVars, overdue, asked, changes>>

PoolType == [phase : {"live", "deleting", "gone"}, quantity : Quantities \cup {0}, roles : SUBSET AllRoles]

\* state: "failed" when Provisioned, Initialized or ConfigSaved is False;
\* taint: the unreachable taint, with Ready "unknown" or still "known", and
\* since: which of the node's outages it is from (TimeAdded);
\* config: the roles in Status.NodeConfig, NoConfig while that is nil.
NodeType == [pool : Pools, host : Hosts, state : {"new", "ok", "failed"},
             taint : {"no", "known", "unknown"}, since : Nat,
             roles : SUBSET AllRoles, config : (SUBSET AllRoles) \cup {NoConfig},
             deleting : BOOLEAN]

ASSUME NoNodeAssumption == NoNode \notin NodeType

Exists(ns) == {n \in Nodes : ns[n] # NoNode}
Own(ns, p) == {n \in Exists(ns) : ns[n].pool = p}
HostsOf(ns) == {ns[n].host : n \in Exists(ns)}
NoNodes == [n \in Nodes |-> NoNode]

Quantity(s) == IF s.quantity < 0 THEN 0 ELSE s.quantity

Init ==
  /\ pool \in [Pools -> [phase : {"live"}, quantity : Quantities, roles : RoleSets]]
  /\ poolCache = [p \in Pools |-> NoPool]
  /\ node = NoNodes /\ nodeCache = NoNodes
  /\ queue = {}
  /\ pc = [p \in Pools |-> "idle"]
  /\ spec = [p \in Pools |-> NoPool]
  /\ list = [p \in Pools |-> NoNodes]
  /\ kept = [p \in Pools |-> {}] /\ todo = [p \in Pools |-> {}]
  /\ timers = {} /\ syncmap = {} /\ looping = {} /\ leaving = {}
  /\ overdue = {}
  /\ asked = [p \in Pools |-> Quantity(pool[p])]
  /\ changes = 0

Change(kind) == kind \in Disturbances /\ changes < MaxChanges /\ changes' = changes + 1

\* One more after all the others.
LastChange(kind) == kind \in Disturbances /\ changes = MaxChanges /\ changes' = changes + 1

-----------------------------------------------------------------------------
(* Informers: the caches and the work queue.                               *)

\* A pool's event queues it.
PoolEvent(p) ==
  /\ poolCache[p] # pool[p]
  /\ poolCache' = [poolCache EXCEPT ![p] = pool[p]]
  /\ queue' = queue \cup {p}
  /\ UNCHANGED <<pool, nodeVars, pc, localVars, goVars, overdue, asked, changes>>

\* machineChanged: a node's event queues its pool, a deletion all the pools.
MachineChanged(n) ==
  /\ nodeCache[n] # node[n]
  /\ nodeCache' = [nodeCache EXCEPT ![n] = node[n]]
  /\ queue' = queue \cup IF node[n] = NoNode THEN {p \in Pools : poolCache[p] # NoPool} ELSE {node[n].pool}
  /\ UNCHANGED <<poolVars, node, pc, localVars, goVars, overdue, asked, changes>>

\* The informer's periodic resync.
Resync ==
  /\ queue' = queue \cup {p \in Pools : poolCache[p] # NoPool}
  /\ UNCHANGED <<poolVars, nodeVars, pc, localVars, goVars, overdue, asked, changes>>

-----------------------------------------------------------------------------
(* The handler.                                                            *)

\* needRoleUpdate: the maps are equal only when both hold all three roles.
NeedRoleUpdate(n, s) == n.config # NoConfig /\ ~(n.config = AllRoles /\ s.roles = AllRoles)

\* createOrCheckNodes(nodePool, true) on the lister's nodes.
Changed(p, s, ns) ==
  \/ \E n \in Own(ns, p) : \/ ns[n].state = "failed"
                           \/ ns[n].taint # "no" /\ DeleteNotReady
                           \/ NeedRoleUpdate(ns[n], s)
  \/ Cardinality(Own(ns, p)) # Quantity(s)

\* time.Since(TimeAdded) > deleteNotReadyAfter, for a copy m of node n.
Overdue(n, m) == m.taint # "no" /\ <<n, m.since>> \in overdue

Goto(p, label) == pc' = [pc EXCEPT ![p] = label]

\* The handler returns; its locals are dropped.
Finish(p) ==
  /\ Goto(p, "idle")
  /\ spec' = [spec EXCEPT ![p] = NoPool]
  /\ list' = [list EXCEPT ![p] = NoNodes]
  /\ kept' = [kept EXCEPT ![p] = {}]
  /\ todo' = [todo EXCEPT ![p] = {}]

\* A worker takes the pool: Remove for a pool being deleted, Updated otherwise,
\* which goes on only if the simulation says that there is something to do.
Take(p) ==
  /\ p \in queue /\ pc[p] = "idle"
  /\ queue' = queue \ {p}
  /\ LET s == poolCache[p]
         active == \/ s.phase = "deleting"
                   \/ s.phase = "live" /\ Changed(p, s, nodeCache) IN
     /\ spec' = IF active THEN [spec EXCEPT ![p] = s] ELSE spec
     /\ Goto(p, IF active THEN "list" ELSE "idle")
  /\ UNCHANGED <<poolVars, nodeVars, list, kept, todo, goVars, overdue, asked, changes>>

\* Mutant: the real pass, too, works on the lister's copy.
ListCached(p) ==
  /\ pc[p] = "list"
  /\ list' = [list EXCEPT ![p] = nodeCache]
  /\ todo' = [todo EXCEPT ![p] = Own(nodeCache, p)]
  /\ kept' = [kept EXCEPT ![p] = Own(nodeCache, p)]
  /\ Goto(p, IF spec[p].phase = "deleting" THEN "remove" ELSE "check")
  /\ UNCHANGED <<poolVars, nodeVars, queue, spec, goVars, overdue, asked, changes>>

\* Mutant: the pool names of the listed nodes are not compared with the pool's.
ListEverything(p) ==
  /\ pc[p] = "list"
  /\ list' = [list EXCEPT ![p] = node]
  /\ todo' = [todo EXCEPT ![p] = Exists(node)]
  /\ kept' = [kept EXCEPT ![p] = Exists(node)]
  /\ Goto(p, IF spec[p].phase = "deleting" THEN "remove" ELSE "check")
  /\ UNCHANGED <<poolVars, nodeVars, queue, spec, goVars, overdue, asked, changes>>

\* nodes(nodePool, false): the nodes from the API server.
List(p) ==
  /\ pc[p] = "list"
  /\ list' = [list EXCEPT ![p] = node]
  /\ todo' = [todo EXCEPT ![p] = Own(node, p)]
  /\ kept' = [kept EXCEPT ![p] = Own(node, p)]
  /\ Goto(p, IF spec[p].phase = "deleting" THEN "remove" ELSE "check")
  /\ UNCHANGED <<poolVars, nodeVars, queue, spec, goVars, overdue, asked, changes>>

\* DeleteNamespaced: the node's finalizers keep it for a while.
Deleted(ns, n) == IF ns[n] = NoNode THEN ns ELSE [ns EXCEPT ![n].deleting = TRUE]

\* Mutant: isNodeReadyUnknown the wrong way round.
ExpiredKnown(p, n) == DeleteNotReady /\ list[p][n].taint = "known" /\ Overdue(n, list[p][n])

\* A listed node has been unreachable for too long.
Expired(p, n) == DeleteNotReady /\ list[p][n].taint = "unknown" /\ Overdue(n, list[p][n])

\* An API call of the handler fails: the handler returns the error and the
\* pool is queued again.
Fails(p) ==
  /\ \/ pc[p] \in {"list", "remove"}
     \/ pc[p] = "check" /\ \E n \in todo[p] : Expired(p, n)
     \/ pc[p] = "create" /\ Cardinality(kept[p]) < Quantity(spec[p])
     \/ pc[p] = "roles" /\ todo[p] # {}
  /\ Change("error")
  /\ queue' = queue \cup {p}
  /\ Finish(p)
  /\ UNCHANGED <<poolVars, nodeVars, goVars, overdue, asked>>

\* Remove: the pool's nodes are deleted one by one; deleting one that is gone
\* is an error.  With the last one the finalizer goes, and with it the pool.
RemoveNode(p, n) ==
  /\ pc[p] = "remove" /\ n \in todo[p]
  /\ node' = Deleted(node, n)
  /\ IF node[n] = NoNode
       THEN Finish(p) /\ queue' = queue \cup {p}
       ELSE todo' = [todo EXCEPT ![p] = @ \ {n}] /\ UNCHANGED <<pc, spec, list, kept, queue>>
  /\ UNCHANGED <<poolVars, nodeCache, goVars, overdue, asked, changes>>

\* Mutant: the finalizer is removed without waiting for the deletions.
RemovedEarly(p) ==
  /\ pc[p] = "remove"
  /\ pool' = [pool EXCEPT ![p] = NoPool]
  /\ Finish(p)
  /\ UNCHANGED <<poolCache, nodeVars, queue, goVars, overdue, asked, changes>>

Removed(p) ==
  /\ pc[p] = "remove" /\ todo[p] = {}
  /\ pool' = [pool EXCEPT ![p] = NoPool]
  /\ Finish(p)
  /\ UNCHANGED <<poolCache, nodeVars, queue, goVars, overdue, asked, changes>>

\* Mutant: a requeue goroutine for every visit.
CheckAlways(p, n) ==
  /\ pc[p] = "check" /\ n \in todo[p]
  /\ LET m == list[p][n]
         watch == DeleteNotReady /\ m.taint = "unknown" /\ ~Expired(p, n) IN
     /\ timers' = IF m.state = "failed" THEN timers \cup {n} ELSE timers
     /\ node' = IF Expired(p, n) THEN Deleted(node, n) ELSE node
     /\ syncmap' = IF watch THEN syncmap \cup {n} ELSE syncmap
     /\ looping' = IF watch THEN looping \cup {n} ELSE looping
  /\ todo' = [todo EXCEPT ![p] = @ \ {n}]
  /\ UNCHANGED <<poolVars, nodeCache, queue, pc, spec, list, kept, leaving, overdue, asked, changes>>

\* The first loop of createOrCheckNodes, for one node: a failed node is deleted
\* in two minutes; one that has been unreachable for too long now; one that is
\* unreachable gets a requeue goroutine unless it has one.
Check(p, n) ==
  /\ pc[p] = "check" /\ n \in todo[p]
  /\ LET m == list[p][n]
         expired == Expired(p, n)
         watch == DeleteNotReady /\ m.taint = "unknown" /\ ~expired /\ n \notin syncmap IN
     /\ timers' = IF m.state = "failed" THEN timers \cup {n} ELSE timers
     /\ node' = IF expired THEN Deleted(node, n) ELSE node
     /\ syncmap' = IF watch THEN syncmap \cup {n} ELSE syncmap
     /\ looping' = IF watch THEN looping \cup {n} ELSE looping
     /\ IF expired /\ node[n] = NoNode
          THEN Finish(p) /\ queue' = queue \cup {p}
          ELSE todo' = [todo EXCEPT ![p] = @ \ {n}] /\ UNCHANGED <<pc, spec, list, kept, queue>>
  /\ UNCHANGED <<poolVars, nodeCache, leaving, overdue, asked, changes>>

\* ... and once all nodes are visited.
Checked(p) ==
  /\ pc[p] = "check" /\ todo[p] = {}
  /\ Goto(p, "create")
  /\ UNCHANGED <<poolVars, nodeVars, queue, localVars, goVars, overdue, asked, changes>>

\* Nothing refers to the name n.
Fresh(n) ==
  /\ node[n] = NoNode /\ nodeCache[n] = NoNode
  /\ n \notin timers \cup syncmap \cup looping \cup leaving
  /\ \A p \in Pools : list[p][n] = NoNode /\ n \notin kept[p]

\* Mutant: createNode does not say which pool the node is for.
NewNodeNoPool(p, h) ==
  [pool |-> "", host |-> h, state |-> "new", taint |-> "no", since |-> 0,
   roles |-> spec[p].roles, config |-> NoConfig, deleting |-> FALSE]

NewNode(p, h) ==
  [pool |-> p, host |-> h, state |-> "new", taint |-> "no", since |-> 0, roles |-> spec[p].roles,
   config |-> NoConfig, deleting |-> FALSE]

\* Mutant: byName is filled with the nodes just made only.
CreateForgetful(p) ==
  /\ pc[p] = "create" /\ Cardinality(kept[p]) < Quantity(spec[p])
  /\ \E n \in Nodes, h \in Hosts :
       /\ Fresh(n) /\ \A k \in Nodes : Fresh(k) => n <= k
       /\ \A k \in Hosts : h <= k
       /\ node' = [node EXCEPT ![n] = NewNode(p, h)]
       /\ list' = [list EXCEPT ![p][n] = NewNode(p, h)]
       /\ kept' = [kept EXCEPT ![p] = @ \cup {n}]
       /\ overdue' = {o \in overdue : o[1] # n}
  /\ UNCHANGED <<poolVars, nodeCache, queue, pc, spec, todo, goVars, asked, changes>>

\* createNode with the first hostname that is not in byName.
Create(p) ==
  /\ pc[p] = "create" /\ Cardinality(kept[p]) < Quantity(spec[p])
  /\ \E n \in Nodes, h \in Hosts \ HostsOf(list[p]) :
       /\ Fresh(n) /\ \A k \in Nodes : Fresh(k) => n <= k
       /\ \A k \in Hosts \ HostsOf(list[p]) : h <= k
       /\ node' = [node EXCEPT ![n] = NewNode(p, h)]
       /\ list' = [list EXCEPT ![p][n] = NewNode(p, h)]
       /\ kept' = [kept EXCEPT ![p] = @ \cup {n}]
       /\ overdue' = {o \in overdue : o[1] # n}
  /\ UNCHANGED <<poolVars, nodeCache, queue, pc, spec, todo, goVars, asked, changes>>

\* The node with the last hostname is deleted; an error is not looked at.
Trim(p) ==
  /\ pc[p] = "create" /\ Cardinality(kept[p]) > Quantity(spec[p])
  /\ \E n \in kept[p] :
       /\ \A k \in kept[p] : list[p][k].host <= list[p][n].host
       /\ kept' = [kept EXCEPT ![p] = @ \ {n}]
       /\ \/ node' = Deleted(node, n) /\ UNCHANGED changes
          \/ Change("error") /\ UNCHANGED node
  /\ UNCHANGED <<poolVars, nodeCache, queue, pc, spec, list, todo, goVars, overdue, asked>>

Sized(p) ==
  /\ pc[p] = "create" /\ Cardinality(kept[p]) = Quantity(spec[p])
  /\ todo' = [todo EXCEPT ![p] = {n \in kept[p] : NeedRoleUpdate(list[p][n], spec[p])}]
  /\ Goto(p, "roles")
  /\ UNCHANGED <<poolVars, nodeVars, queue, spec, list, kept, goVars, overdue, asked, changes>>

\* updateNodeRoles: a node that is gone, or has changed since the List, is an
\* error.
UpdateNodeRoles(p, n) ==
  /\ pc[p] = "roles" /\ n \in todo[p]
  /\ IF node[n] # NoNode /\ node[n] = list[p][n]
       THEN /\ node' = [node EXCEPT ![n].config = spec[p].roles]
            /\ todo' = [todo EXCEPT ![p] = @ \ {n}]
            /\ UNCHANGED <<pc, spec, list, kept, queue>>
       ELSE /\ Finish(p)
            /\ queue' = queue \cup {p}
            /\ UNCHANGED node
  /\ UNCHANGED <<poolVars, nodeCache, goVars, overdue, asked, changes>>

Reconciled(p) ==
  /\ pc[p] = "roles" /\ todo[p] = {}
  /\ Finish(p)
  /\ UNCHANGED <<poolVars, nodeVars, queue, goVars, overdue, asked, changes>>

Handler(p) ==
  \/ Take(p) \/ List(p) \/ Removed(p) \/ Checked(p)
  \/ Create(p) \/ Trim(p) \/ Sized(p) \/ Reconciled(p)
  \/ \E n \in Nodes : RemoveNode(p, n) \/ Check(p, n) \/ UpdateNodeRoles(p, n)

-----------------------------------------------------------------------------
(* The goroutines.                                                         *)

\* deleteNode after its two minutes; an error is not looked at.
DelayedDelete(n) ==
  /\ n \in timers
  /\ timers' = timers \ {n}
  /\ node' = Deleted(node, n)
  /\ UNCHANGED <<poolVars, nodeCache, queue, pc, localVars, syncmap, looping, leaving, overdue, asked, changes>>

\* The condition under which requeue sleeps once more.
Waiting(n) ==
  nodeCache[n] # NoNode /\ nodeCache[n].taint # "no" /\ ~Overdue(n, nodeCache[n])

\* requeue: every five seconds the lister is asked.  The loop ends when the node
\* is gone, when it is reachable again, and, after queueing the pool, when it
\* has been unreachable for too long.
Requeue(n) ==
  /\ n \in looping
  /\ ~Waiting(n)
  /\ looping' = looping \ {n}
  /\ leaving' = leaving \cup {n}
  /\ queue' = IF nodeCache[n] # NoNode /\ Overdue(n, nodeCache[n])
                THEN queue \cup {nodeCache[n].pool} ELSE queue
  /\ UNCHANGED <<poolVars, nodeVars, pc, localVars, timers, syncmap, overdue, asked, changes>>

\* The end of requeue.
Leave(n) ==
  /\ n \in leaving
  /\ leaving' = leaving \ {n}
  /\ syncmap' = syncmap \ {n}
  /\ UNCHANGED <<poolVars, nodeVars, queue, pc, localVars, timers, looping, overdue, asked, changes>>

-----------------------------------------------------------------------------
(* The surroundings: users, the node controller, the machines.             *)

Scale(p) ==
  /\ Change("scale") /\ pool[p].phase = "live"
  /\ \E q \in Quantities \ {pool[p].quantity} :
       /\ pool' = [pool EXCEPT ![p].quantity = q]
       /\ asked' = [asked EXCEPT ![p] = IF q > @ THEN q ELSE @]
  /\ UNCHANGED <<poolCache, nodeVars, queue, pc, localVars, goVars, overdue>>

ChangeRoles(p) ==
  /\ Change("roles") /\ pool[p].phase = "live"
  /\ \E r \in RoleSets \ {pool[p].roles} : pool' = [pool EXCEPT ![p].roles = r]
  /\ UNCHANGED <<poolCache, nodeVars, queue, pc, localVars, goVars, overdue, asked>>

DeletePool(p) ==
  /\ Change("deletePool") /\ pool[p].phase = "live"
  /\ pool' = [pool EXCEPT ![p].phase = "deleting"]
  /\ UNCHANGED <<poolCache, nodeVars, queue, pc, localVars, goVars, overdue, asked>>

Alive(n) == node[n] # NoNode /\ ~node[n].deleting

DeleteNode(n) ==
  /\ Change("deleteNode") /\ Alive(n)
  /\ node' = Deleted(node, n)
  /\ UNCHANGED <<poolVars, nodeCache, queue, pc, localVars, goVars, overdue, asked>>

\* saveConfig of the node controller: a node without a role is a worker.
SavedConfig(n) == IF node[n].roles = {} THEN {"worker"} ELSE node[n].roles

\* The node controller: the machine is made and its configuration saved.  When
\* making it fails the configuration is saved all the same, if it can be.
Provision(n) ==
  /\ Alive(n) /\ node[n].state = "new"
  /\ node' = [node EXCEPT ![n].state = "ok", ![n].config = SavedConfig(n)]
  /\ UNCHANGED <<poolVars, nodeCache, queue, pc, localVars, goVars, overdue, asked, changes>>

ProvisionFails(n) ==
  /\ Change("fail") /\ Alive(n) /\ node[n].state = "new"
  /\ \E c \in {NoConfig, SavedConfig(n)} :
       node' = [node EXCEPT ![n].state = "failed", ![n].config = c]
  /\ UNCHANGED <<poolVars, nodeCache, queue, pc, localVars, goVars, overdue, asked>>

\* The node controller's finalizer has removed the machine.
Finalize(n) ==
  /\ node[n] # NoNode /\ node[n].deleting
  /\ node' = [node EXCEPT ![n] = NoNode]
  /\ UNCHANGED <<poolVars, nodeCache, queue, pc, localVars, goVars, overdue, asked, changes>>

\* The machine gets unreachable, or reachable again.
Outage(n) ==
  /\ Change("network") /\ Alive(n) /\ node[n].state = "ok"
  /\ \/ /\ node[n].taint = "no"
        /\ \E t \in {"known", "unknown"} :
             node' = [node EXCEPT ![n].taint = t, ![n].since = @ + 1]
     \/ node[n].taint # "no" /\ node' = [node EXCEPT ![n].taint = "no"]
  /\ UNCHANGED <<poolVars, nodeCache, queue, pc, localVars, goVars, overdue, asked>>

\* Ready becomes unknown in the end, and time passes, without any event.
ReadyUnknown(n) ==
  /\ Alive(n) /\ node[n].taint = "known"
  /\ node' = [node EXCEPT ![n].taint = "unknown"]
  /\ UNCHANGED <<poolVars, nodeCache, queue, pc, localVars, goVars, overdue, asked, changes>>

Ages(n) ==
  /\ Alive(n) /\ node[n].taint = "unknown" /\ ~Overdue(n, node[n])
  /\ overdue' = overdue \cup {<<n, node[n].since>>}
  /\ UNCHANGED <<poolVars, nodeVars, queue, pc, localVars, goVars, asked, changes>>

\* The server restarts: goroutines and locals are gone, the caches are listed
\* anew and every pool gets an event.
Restart ==
  /\ Change("restart") \/ LastChange("last restart")
  /\ poolCache' = pool /\ nodeCache' = node
  /\ queue' = {p \in Pools : pool[p] # NoPool}
  /\ pc' = [p \in Pools |-> "idle"]
  /\ spec' = [p \in Pools |-> NoPool]
  /\ list' = [p \in Pools |-> NoNodes]
  /\ kept' = [p \in Pools |-> {}] /\ todo' = [p \in Pools |-> {}]
  /\ timers' = {} /\ syncmap' = {} /\ looping' = {} /\ leaving' = {}
  /\ UNCHANGED <<pool, node, overdue, asked>>

Goroutine(n) == DelayedDelete(n) \/ Requeue(n) \/ Leave(n)
Machine(n) == Provision(n) \/ Finalize(n) \/ ReadyUnknown(n) \/ Ages(n)
Disturbance ==
  \/ \E p \in Pools : Scale(p) \/ ChangeRoles(p) \/ DeletePool(p) \/ Fails(p)
  \/ \E n \in Nodes : DeleteNode(n) \/ ProvisionFails(n) \/ Outage(n)
  \/ Restart

Next ==
  \/ \E p \in Pools : PoolEvent(p) \/ Handler(p)
  \/ \E n \in Nodes : MachineChanged(n) \/ Goroutine(n) \/ Machine(n)
  \/ Resync
  \/ Disturbance

Spec == Init /\ [][Next]_vars

\* Events are delivered, workers and goroutines run, machines get made, removed
\* and older; the informer resyncs every two hours.
Fairness ==
  /\ \A p \in Pools : WF_vars(PoolEvent(p)) /\ WF_vars(Handler(p))
  /\ \A n \in Nodes : /\ WF_vars(MachineChanged(n))
                      /\ WF_vars(DelayedDelete(n)) /\ WF_vars(Requeue(n)) /\ WF_vars(Leave(n))
                      /\ WF_vars(Provision(n)) /\ WF_vars(Finalize(n))
                      /\ WF_vars(ReadyUnknown(n)) /\ WF_vars(Ages(n))
  /\ WF_vars(Resync)

FairSpec == Spec /\ Fairness

-----------------------------------------------------------------------------
(* Properties *)

\* Type correctness.
TypeOK ==
  /\ pool \in [Pools -> PoolType] /\ poolCache \in [Pools -> PoolType]
  /\ node \in [Nodes -> NodeType \cup {NoNode}]
  /\ nodeCache \in [Nodes -> NodeType \cup {NoNode}]
  /\ queue \subseteq Pools
  /\ pc \in [Pools -> {"idle", "list", "remove", "check", "create", "roles"}]
  /\ spec \in [Pools -> PoolType]
  /\ list \in [Pools -> [Nodes -> NodeType \cup {NoNode}]]
  /\ kept \in [Pools -> SUBSET Nodes] /\ todo \in [Pools -> SUBSET Nodes]
  /\ timers \subseteq Nodes /\ syncmap \subseteq Nodes
  /\ looping \subseteq Nodes /\ leaving \subseteq Nodes
  /\ overdue \subseteq Nodes \X Nat
  /\ asked \in [Pools -> Nat]
  /\ changes \in Nat

\* The pool never has more nodes than it was asked to have at some time,
\* although the simulation looks at a cache in which nodes the handler has
\* just made are missing.
NeverMoreThanAsked == \A p \in Pools : Cardinality(Own(node, p)) <= asked[p]

\* Two nodes of a pool never have the same hostname, whatever fails between
\* two of the calls that make them.
HostnamesUnique ==
  \A n, m \in Exists(node) :
    n # m /\ node[n].pool = node[m].pool => node[n].host # node[m].host

\* When the pool's finalizer is gone all its nodes are deleted or on the way,
\* whatever the handler was doing when the pool was deleted.
RemovedPoolLeavesNothing ==
  \A n \in Exists(node) : pool[node[n].pool].phase = "gone" => node[n].deleting

\* A pool that nobody scales or deletes keeps its nodes (checked without failing
\* or unreachable machines): neither the removal of another pool, nor a retry
\* after an error or a restart that would first overshoot, deletes one.
NodesKept ==
  \A n \in Exists(node) : node[n].deleting => pool[node[n].pool].phase # "live"

\* requeue's comment: "one goroutine per node".  The map tells exactly which
\* nodes have one.
OneRequeuePerNode == syncmap = looping \cup leaving /\ looping \cap leaving = {}

Healthy(p, n) ==
  /\ ~node[n].deleting /\ node[n].state = "ok"
  /\ DeleteNotReady => node[n].taint = "no"
  /\ node[n].config = pool[p].roles

\* In the end every pool has as many nodes as it asks for, in its roles, none
\* failed or (if the pool says so) unreachable, in spite of failed calls,
\* restarts and stale caches; a pool that is being deleted goes away.
EventuallyReconciled ==
  <>[](\A p \in Pools :
        /\ pool[p].phase # "deleting"
        /\ Cardinality(Own(node, p)) = Quantity(pool[p])
        /\ \A n \in Own(node, p) : Healthy(p, n))

\* requeue's comment: it "checks every 5 seconds if the node is still
\* unreachable with one goroutine per node".  When the controller has nothing
\* left to do, every node that is unreachable, and not yet for too long, has
\* its goroutine.
UnreachableIsWatched ==
  \A n \in Exists(node) :
    LET p == node[n].pool IN
    /\ DeleteNotReady /\ node[n].taint = "unknown" /\ ~Overdue(n, node[n])
    /\ pool[p].phase = "live" /\ poolCache[p] = pool[p] /\ nodeCache = node
    /\ p \notin queue /\ pc[p] = "idle"
    => n \in looping \cup leaving
=============================================================================

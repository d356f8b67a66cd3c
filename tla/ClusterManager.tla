--------------------------- MODULE ClusterManager ---------------------------
(***************************************************************************)
(* pkg/clustermanager/manager.go: the sync.Map of cluster records of one   *)
(* Rancher server, and the goroutines that use it concurrently:            *)
(*   Sync     userControllersController.peersSync (always under u.Lock, so *)
(*            one sequential thread), the only caller of Manager.Start;    *)
(*   APIs     requests that call Manager.UserContext or Manager.record;    *)
(*   Remover  ClusterLifecycleCleanup.Remove, on the deletion of a cluster.*)
(* The map is keyed by cluster UID and no operation touches two keys, so   *)
(* the module follows the entry of one (non internal) cluster.  Every      *)
(* access to the map, and every call that leaves the process, is a step.   *)
(***************************************************************************)
EXTENDS Integers, FiniteSets

CONSTANTS
  APIs,        \* request goroutines
  Configs,     \* values of (APIEndpoint, CACert, ServiceAccountToken, LocalClusterAuthEndpoint)
  FirstConfigs,\* those a provisioned cluster can have in the beginning
  NoConfig,    \* the connection data are still empty
  Records,     \* identities of *record values (numbers)
  None,
  Sync, Remover,
  Disturbances,\* the changes of the surroundings that happen
  MaxChanges   \* bound: how many of them

ASSUME ThreadsDistinct == Sync \notin APIs /\ Remover \notin APIs /\ Sync # Remover
ASSUME NoneDistinct == None \notin Records /\ NoConfig \notin Configs
ASSUME FirstAreConfigs == FirstConfigs \subseteq Configs
ASSUME RecordsAreNumbers == Records \subseteq Nat
ASSUME DisturbancesKnown == Disturbances \subseteq {"reconfigure", "delete", "owner", "network"}

Threads == APIs \cup {Sync, Remover}

VARIABLES
  obj,        \* the cluster object in the API server
  ready,      \* its Ready condition is not False
  cache,      \* the copy of it in the lister's cache (an earlier value of obj)
  wantOwner,  \* what amOwner answers for this cluster
  reachable,  \* the downstream cluster's API can be contacted
  controllers,\* the map's entry for the cluster: a record or None
  rec,        \* the records
  pc, snap, mine, own, ret, made, \* the goroutines: program counter and locals
  changes

envVars == <<obj, ready, cache, wantOwner, reachable, changes>>
locals  == <<snap, mine, own, ret, made>>
vars    == <<envVars, controllers, rec, pc, locals>>

Clusters == [phase : {"live", "deleting", "gone"}, cfg : Configs \cup {NoConfig},
             provisioned : BOOLEAN]

NoCluster == [phase |-> "gone", cfg |-> NoConfig, provisioned |-> FALSE]

PCs == {"idle", "reload", "load", "stopLoad", "stopCancel", "stopDelete",
        "toRecord", "store", "startController", "locked", "syncing", "mark",
        "ok", "fail", "removed"}

RecordType == [cfg : Configs \cup {NoConfig}, started : BOOLEAN, owner : BOOLEAN,
               cancelled : BOOLEAN]

NewRecord(cfg) == [cfg |-> cfg, started |-> FALSE, owner |-> FALSE,
                   cancelled |-> FALSE]

\* The record's controllers run: cluster.Start succeeded and the context is not cancelled.
Live(r) == rec[r].started /\ ~rec[r].cancelled

\* A record nobody can reach any more is garbage, and its identity may be reused.
Unreachable(r) == r # controllers /\ ~Live(r) /\ \A t \in Threads : mine[t] # r

Init ==
  /\ \/ \E c \in FirstConfigs : obj = [phase |-> "live", cfg |-> c, provisioned |-> TRUE]
     \/ obj = [phase |-> "live", cfg |-> NoConfig, provisioned |-> FALSE]
  /\ ready = TRUE
  /\ cache = obj
  /\ wantOwner \in BOOLEAN
  /\ reachable \in BOOLEAN
  /\ controllers = None
  /\ rec = [r \in Records |-> NewRecord(NoConfig)]
  /\ pc = [t \in Threads |-> "idle"]
  /\ snap = [t \in Threads |-> NoCluster]
  /\ mine = [t \in Threads |-> None]
  /\ own = FALSE
  /\ ret = [t \in Threads |-> "ok"]
  /\ made = [t \in Threads |-> FALSE]
  /\ changes = 0

Goto(t, label) == pc' = [pc EXCEPT ![t] = label]

-----------------------------------------------------------------------------
(* The cluster object, its cached copy and the surroundings.               *)

Change(kind) == kind \in Disturbances /\ changes < MaxChanges /\ changes' = changes + 1

\* Provisioning, agent registration and credential rotation rewrite the status.
Reconfigure ==
  /\ Change("reconfigure")
  /\ obj.phase = "live"
  /\ \/ \E c \in Configs : obj' = [obj EXCEPT !.cfg = c, !.provisioned = TRUE]
     \/ obj' = [obj EXCEPT !.provisioned = FALSE]
  /\ obj' # obj
  /\ UNCHANGED <<ready, cache, wantOwner, reachable, controllers, rec, pc, locals>>

\* The user deletes the cluster; finalizers keep the object.
Delete ==
  /\ Change("delete")
  /\ obj.phase = "live"
  /\ obj' = [obj EXCEPT !.phase = "deleting"]
  /\ UNCHANGED <<ready, cache, wantOwner, reachable, controllers, rec, pc, locals>>

Informer ==
  /\ cache # obj
  /\ cache' = obj
  /\ UNCHANGED <<obj, ready, wantOwner, reachable, changes, controllers, rec, pc, locals>>

\* A change of the set of peers moves the ownership of the cluster.
MoveOwner ==
  /\ Change("owner")
  /\ wantOwner' = ~wantOwner
  /\ UNCHANGED <<obj, ready, cache, reachable, controllers, rec, pc, locals>>

Network ==
  /\ Change("network")
  /\ reachable' = ~reachable
  /\ UNCHANGED <<obj, ready, cache, wantOwner, controllers, rec, pc, locals>>

-----------------------------------------------------------------------------
(* Entry points.                                                           *)

\* peersSync, the clusters to run: Start(ctx, cluster, amOwner).
PeersSyncStart ==
  /\ pc[Sync] = "idle"
  /\ cache.phase = "live" /\ cache.provisioned
  /\ own' = wantOwner
  /\ Goto(Sync, "reload")
  /\ UNCHANGED <<envVars, controllers, rec, snap, mine, ret, made>>

\* peersSync, a cluster being deleted or not provisioned: Stop(cluster).
PeersSyncStop ==
  /\ pc[Sync] = "idle"
  /\ \/ cache.phase = "deleting"
     \/ cache.phase = "live" /\ ~cache.provisioned
  /\ ret' = [ret EXCEPT ![Sync] = "ok"]
  /\ Goto(Sync, "stopLoad")
  /\ UNCHANGED <<envVars, controllers, rec, snap, mine, own, made>>

\* Start: "reload cluster, always use the cached one".
Reload ==
  /\ pc[Sync] = "reload"
  /\ snap' = [snap EXCEPT ![Sync] = cache]
  /\ Goto(Sync, IF cache.phase = "gone" THEN "fail" ELSE "load")
  /\ UNCHANGED <<envVars, controllers, rec, mine, own, ret, made>>

\* UserContext and record: the cached cluster, start(background, cluster, false, false).
UserContext(t) ==
  /\ t \in APIs
  /\ pc[t] = "idle"
  /\ cache.phase # "gone"
  /\ snap' = [snap EXCEPT ![t] = cache]
  /\ Goto(t, "load")
  /\ UNCHANGED <<envVars, controllers, rec, mine, own, ret, made>>

\* ClusterLifecycleCleanup.Remove of an imported (or the local) cluster first
\* gets a UserContext to clean the downstream cluster up.
RemoveImported ==
  /\ pc[Remover] = "idle"
  /\ cache.phase = "deleting" /\ obj.phase = "deleting"
  /\ snap' = [snap EXCEPT ![Remover] = cache]
  /\ Goto(Remover, "load")
  /\ UNCHANGED <<envVars, controllers, rec, mine, own, ret, made>>

\* Remove of any other cluster goes straight to Manager.Stop.
RemoveOther ==
  /\ pc[Remover] = "idle"
  /\ cache.phase = "deleting" /\ obj.phase = "deleting"
  /\ ret' = [ret EXCEPT ![Remover] = "removed"]
  /\ Goto(Remover, "stopLoad")
  /\ UNCHANGED <<envVars, controllers, rec, snap, mine, own, made>>

\* Remove after UserContext and the downstream clean-up: ClusterUnavailable is
\* ignored, any other error makes the handler retry from the beginning.
RemoveCleaned ==
  /\ pc[Remover] \in {"ok", "fail"}
  /\ \/ /\ ret' = [ret EXCEPT ![Remover] = "removed"]
        /\ Goto(Remover, "stopLoad")
     \/ /\ pc[Remover] = "ok" /\ ~reachable
        /\ Goto(Remover, "idle")
        /\ UNCHANGED ret
  /\ mine' = [mine EXCEPT ![Remover] = None]
  /\ snap' = [snap EXCEPT ![Remover] = NoCluster]
  /\ made' = [made EXCEPT ![Remover] = FALSE]
  /\ UNCHANGED <<envVars, controllers, rec, own>>

\* Remove returned nil: the finalizer goes and, with it, the object.
RemoveDone ==
  /\ pc[Remover] = "removed"
  /\ obj' = [obj EXCEPT !.phase = "gone"]
  /\ Goto(Remover, "idle")
  /\ UNCHANGED <<ready, cache, wantOwner, reachable, changes, controllers, rec, locals>>

Return(t) ==
  /\ t # Remover
  /\ pc[t] \in {"ok", "fail"}
  /\ mine' = [mine EXCEPT ![t] = None]
  /\ snap' = [snap EXCEPT ![t] = NoCluster]
  /\ made' = [made EXCEPT ![t] = FALSE]
  /\ own' = (t # Sync /\ own)
  /\ Goto(t, "idle")
  /\ UNCHANGED <<envVars, controllers, rec, ret>>

-----------------------------------------------------------------------------
(* Manager.Stop: Load, cancel and Delete are three steps on the map.       *)

StopLoad(t) ==
  /\ pc[t] = "stopLoad"
  /\ IF controllers = None
       THEN /\ Goto(t, ret[t])
            /\ mine' = [mine EXCEPT ![t] = None]
            /\ ret' = [ret EXCEPT ![t] = "ok"]
       ELSE /\ Goto(t, "stopCancel")
            /\ mine' = [mine EXCEPT ![t] = controllers]
            /\ UNCHANGED ret
  /\ UNCHANGED <<envVars, controllers, rec, snap, own, made>>

StopCancel(t) ==
  /\ pc[t] = "stopCancel"
  /\ rec' = [rec EXCEPT ![mine[t]].cancelled = TRUE]
  /\ Goto(t, "stopDelete")
  /\ UNCHANGED <<envVars, controllers, locals>>

\* Mutant: Stop cancels the record and leaves it in the map.
StopDeleteNothing(t) ==
  /\ pc[t] = "stopDelete"
  /\ mine' = [mine EXCEPT ![t] = None]
  /\ Goto(t, ret[t])
  /\ ret' = [ret EXCEPT ![t] = "ok"]
  /\ UNCHANGED <<envVars, controllers, rec, snap, own, made>>

\* Delete(cluster.UID) drops whatever record is in the map by now.
StopDelete(t) ==
  /\ pc[t] = "stopDelete"
  /\ controllers' = None
  /\ mine' = [mine EXCEPT ![t] = None]
  /\ Goto(t, ret[t])
  /\ ret' = [ret EXCEPT ![t] = "ok"]
  /\ UNCHANGED <<envVars, rec, snap, own, made>>

-----------------------------------------------------------------------------
(* Manager.start                                                           *)

\* Mutant: a change of owner does not restart the controllers.
ChangedConfigOnly(r, t) == rec[r].cfg # snap[t].cfg

\* Mutant: new connection data do not restart the controllers.
ChangedOwnerOnly(r, t) == t = Sync /\ rec[r].started /\ rec[r].owner # own

Changed(r, t) ==
  \/ rec[r].cfg # snap[t].cfg
  \/ t = Sync /\ rec[r].started /\ own # rec[r].owner

Load(t) ==
  /\ pc[t] = "load"
  /\ IF controllers = None
       THEN Goto(t, "toRecord") /\ UNCHANGED <<mine, ret, made>>
       ELSE IF Changed(controllers, t)
         THEN /\ ret' = [ret EXCEPT ![t] = "toRecord"]
              /\ Goto(t, "stopLoad")
              /\ UNCHANGED <<mine, made>>
         ELSE /\ mine' = [mine EXCEPT ![t] = controllers]
              /\ made' = [made EXCEPT ![t] = FALSE]
              /\ Goto(t, "startController")
              /\ UNCHANGED ret
  /\ UNCHANGED <<envVars, controllers, rec, snap, own>>

\* Mutant: a cluster being deleted is still connected to.
NilConfigIgnoresDeletion(c) == c.cfg = NoConfig \/ ~c.provisioned

\* ToRESTConfig gives no configuration.
NilConfig(c) == c.phase # "live" \/ c.cfg = NoConfig \/ ~c.provisioned

\* toRecord: no configuration is ClusterUnavailable; an error (no dialer to the
\* cluster, say) marks the cluster unavailable; otherwise a fresh record.
ToRecord(t) ==
  /\ pc[t] = "toRecord"
  /\ \/ /\ NilConfig(snap[t])
        /\ Goto(t, "fail")
        /\ UNCHANGED <<rec, mine>>
     \/ /\ ~NilConfig(snap[t]) /\ ~reachable
        /\ Goto(t, "mark")
        /\ UNCHANGED <<rec, mine>>
     \/ /\ ~NilConfig(snap[t])
        /\ \E r \in Records :
             /\ Unreachable(r)
             /\ \A q \in Records : Unreachable(q) => r <= q
             /\ rec' = [rec EXCEPT ![r] = NewRecord(snap[t].cfg)]
             /\ mine' = [mine EXCEPT ![t] = r]
        /\ Goto(t, "store")
  /\ snap' = [snap EXCEPT ![t] = NoCluster]
  /\ UNCHANGED <<envVars, controllers, own, ret, made>>

\* Mutant: the loser of LoadOrStore goes on with no record at all.
LoadOrStoreLoses(t) ==
  /\ pc[t] = "store"
  /\ IF controllers = None
       THEN controllers' = mine[t] /\ UNCHANGED mine
       ELSE mine' = [mine EXCEPT ![t] = 0] /\ UNCHANGED controllers
  /\ made' = [made EXCEPT ![t] = TRUE]
  /\ Goto(t, "startController")
  /\ UNCHANGED <<envVars, rec, snap, own, ret>>

LoadOrStore(t) ==
  /\ pc[t] = "store"
  /\ IF controllers = None
       THEN controllers' = mine[t] /\ UNCHANGED mine
       ELSE mine' = [mine EXCEPT ![t] = controllers] /\ UNCHANGED controllers
  /\ made' = [made EXCEPT ![t] = TRUE]
  /\ Goto(t, "startController")
  /\ UNCHANGED <<envVars, rec, snap, own, ret>>

\* An error of startController: start returns it as it is for a record it
\* found, and marks the cluster unavailable for a record it made.
AfterError(t) == IF made[t] THEN "mark" ELSE "fail"

\* startController up to the lock: nothing without controllers, else the probe.
StartController(t) ==
  /\ pc[t] = "startController"
  /\ Goto(t, IF t # Sync THEN "ok"
             ELSE IF reachable THEN "locked" ELSE AfterError(t))
  /\ UNCHANGED <<envVars, controllers, rec, locals>>

\* With the record's mutex (only the Sync thread ever takes it): started, or
\* doStart up to Register or RegisterFollower, whose error stops the record.
Locked(t) ==
  /\ pc[t] = "locked"
  /\ \/ /\ rec[mine[t]].started
        /\ Goto(t, "ok")
        /\ UNCHANGED ret
     \/ /\ ~rec[mine[t]].started
        /\ Goto(t, "syncing")
        /\ UNCHANGED ret
     \/ /\ ~rec[mine[t]].started /\ ~reachable
        /\ ret' = [ret EXCEPT ![t] = AfterError(t)]
        /\ Goto(t, "stopLoad")
  /\ UNCHANGED <<envVars, controllers, rec, snap, mine, own, made>>

\* doStart waits for cluster.Start: the caches sync and the controllers run,
\* or it fails (the context was cancelled, the cluster went away), or the 30
\* seconds are over, which cancels the record's context.
DoStart(t) ==
  /\ pc[t] = "syncing"
  /\ LET r == mine[t] IN
     \/ /\ reachable /\ ~rec[r].cancelled
        /\ rec' = [rec EXCEPT ![r].started = TRUE, ![r].owner = own]
        /\ Goto(t, "ok")
        /\ UNCHANGED ret
     \/ /\ ~reachable \/ rec[r].cancelled
        /\ \/ UNCHANGED rec
           \/ rec' = [rec EXCEPT ![r].cancelled = TRUE]
        /\ ret' = [ret EXCEPT ![t] = AfterError(t)]
        /\ Goto(t, "stopLoad")
  /\ UNCHANGED <<envVars, controllers, snap, mine, own, made>>

\* markUnavailable: nothing when the Get fails, as it does for a cluster that
\* is gone; otherwise Ready=False unless it is already (the Update may fail and
\* its error is dropped), then Stop.
MarkUnavailable(t) ==
  /\ pc[t] = "mark"
  /\ \/ Goto(t, "fail") /\ UNCHANGED <<ready, ret>>
     \/ /\ obj.phase # "gone"
        /\ ready' = FALSE \/ UNCHANGED ready
        /\ ret' = [ret EXCEPT ![t] = "fail"]
        /\ Goto(t, "stopLoad")
  /\ mine' = [mine EXCEPT ![t] = None]
  /\ UNCHANGED <<obj, cache, wantOwner, reachable, changes, controllers, rec, snap, own, made>>

-----------------------------------------------------------------------------
Step(t) ==
  \/ StopLoad(t) \/ StopCancel(t) \/ StopDelete(t)
  \/ Load(t) \/ ToRecord(t) \/ LoadOrStore(t)
  \/ StartController(t) \/ Locked(t) \/ DoStart(t) \/ MarkUnavailable(t)
  \/ Return(t)

SyncEntry == PeersSyncStart \/ PeersSyncStop \/ Reload
Remove == RemoveImported \/ RemoveOther \/ RemoveCleaned \/ RemoveDone
Environment == Reconfigure \/ Delete \/ Informer \/ MoveOwner \/ Network

Next ==
  \/ \E t \in Threads : Step(t)
  \/ \E t \in APIs : UserContext(t)
  \/ SyncEntry
  \/ Remove
  \/ Environment

Spec == Init /\ [][Next]_vars

\* Goroutines that have begun run on, the timer of usercontroller.go calls
\* peersSync again and again, the Remove handler is retried, caches catch up.
\* Requests, deletions and outages happen or do not.
Fairness ==
  /\ \A t \in Threads : WF_vars(Step(t))
  /\ WF_vars(SyncEntry)
  /\ WF_vars(Remove)
  /\ WF_vars(Informer)

FairSpec == Spec /\ Fairness
-----------------------------------------------------------------------------
(* Properties *)

\* Type correctness of the manager's state.
TypeOK ==
  /\ obj \in Clusters /\ cache \in Clusters /\ ready \in BOOLEAN
  /\ wantOwner \in BOOLEAN /\ reachable \in BOOLEAN /\ changes \in Nat
  /\ controllers \in Records \cup {None}
  /\ rec \in [Records -> RecordType]
  /\ pc \in [Threads -> PCs]
  /\ snap \in [Threads -> Clusters]
  /\ mine \in [Threads -> Records \cup {None}]
  /\ own \in BOOLEAN
  /\ ret \in [Threads -> {"ok", "fail", "mark", "toRecord", "removed"}]
  /\ made \in [Threads -> BOOLEAN]

InStop(t) == pc[t] \in {"stopLoad", "stopCancel", "stopDelete"}

\* A cancelled record does not stay in the map: while one is there, some
\* goroutine is inside Stop and will delete it.  (A cancelled record left
\* behind with started=true would make every later Start a no-op, and the
\* cluster would have no controllers until its configuration changes.)
NoZombieRecord ==
  controllers # None /\ rec[controllers].cancelled => \E t \in Threads : InStop(t)

\* When Start returns nil, the record it used has been started in the mode the
\* caller asked for, whatever requests did to the map since Start looked at it.
StartedAsAsked ==
  pc[Sync] = "ok" /\ mine[Sync] # None =>
     rec[mine[Sync]].started /\ rec[mine[Sync]].owner = own

Settled == obj.phase = "live" /\ obj.provisioned /\ obj.cfg # NoConfig /\ reachable

Served ==
  /\ controllers # None
  /\ Live(controllers)
  /\ rec[controllers].cfg = obj.cfg
  /\ rec[controllers].owner = wantOwner

\* Once the cluster is provisioned and reachable for good, its record in the
\* map ends up running, for the current configuration and in the current mode,
\* in spite of requests that still act on older copies of the cluster.
EventuallyServed == <>[]Settled => <>[]Served

\* A deleted cluster goes away even when it can no longer be contacted: Remove
\* keeps failing while a record is in the map, until peersSync has stopped it.
RemovalCompletes == obj.phase = "deleting" ~> obj.phase = "gone"

\* RegisterEarly's comment: the clean-up controller is responsible for
\* "de-registering k8s controllers, on cluster.remove".  When the cluster is
\* gone from the API server and from the cache, and peersSync is done with it,
\* no controllers of it run.
RemovedMeansStopped ==
  obj.phase = "gone" /\ cache.phase = "gone" /\ pc[Sync] = "idle" =>
     \A r \in Records : ~Live(r)
=============================================================================

---------------------------- MODULE Provisioner ----------------------------
(***************************************************************************)
(* controllers/management/clusterprovisioner: the lifecycle of a cluster   *)
(* that is hosted by a provider, and the Engine it drives.  The generic    *)
(* configuration is a number; RKE's nodes, restores and certificates are   *)
(* left out.                                                               *)
(***************************************************************************)
EXTENDS Lifecycle, Engine

CONSTANTS
  Cluster,
  Compared  \* the part of a configuration that getSpec compares: for EKS the Kubernetes
            \* version, otherwise all of it

VARIABLES
  backoff,   \* the cluster is in backoff since its last failure
  sleeping,  \* the goroutine of backoffFailure is waiting to queue the cluster
  schema,    \* the goroutine waitForSchema is running
  overdue,   \* the annotation is updating/<time>, the time more than 20 seconds ago
  back       \* history: a user has gone back to an earlier configuration

pvVars == <<backoff, sleeping, schema, overdue, back>>
vars == <<lcVars, enVars, pvVars>>

\* The configuration that is asked for, Status.AppliedSpec, FailedSpec (0: none) and
\* Driver (TRUE: set), the condition ServiceAccountMigrated, the annotation
\* KontainerEngineUpdate.
ClusterData ==
  [spec : Configs, applied : Configs \cup {0}, failed : Configs \cup {0},
   driver : BOOLEAN, migrated : BOOLEAN, anno : {"none", "updating", "updated"}]

NewCluster ==
  [spec |-> 1, applied |-> 0, failed |-> 0,
   driver |-> FALSE, migrated |-> FALSE, anno |-> "none"]

ASSUME ComparedParts == Compared \in [Configs -> Configs]
ASSUME OneCluster == Objects = {Cluster} /\ Data = ClusterData /\ NewData = NewCluster

This == obj[Cluster]
Mine == mine[Cluster]

\* A user has just created the cluster.
Init ==
  /\ obj = [b \in Objects |-> [Absent EXCEPT !.there = TRUE]]
  /\ cache = [b \in Objects |-> Absent] /\ mine = cache
  /\ old = Objects /\ conflict = {} /\ queue = {}
  /\ pc = [b \in Objects |-> "idle"] /\ tries = [b \in Objects |-> 0]
  /\ EnInit
  /\ backoff = FALSE /\ sleeping = FALSE /\ schema = FALSE /\ overdue = FALSE
  /\ back = FALSE

\* The engine is called, or is idle again.
Engine(label) == epc' = label /\ c' = Blank /\ UNCHANGED <<store, cloud, gaveUp, faults>>

\* A step that fails without an Update, one that leaves the API's objects alone.
Local == UNCHANGED <<obj, cache, old, conflict, tries>>

\* driverCreate, driverRemove: an Update whose error is ignored.
TryUpdate == IF Cluster \in conflict THEN UNCHANGED <<obj, old>> ELSE Store(Cluster, Mine)

\* The adapter's update of the handler's copy, in which the conditions, which are left
\* out here, may have changed.
Record == UNCHANGED <<obj, old>> \/ Update(Cluster, This)

-----------------------------------------------------------------------------
(* Create                                                                  *)

\* Mutant: the driver is set, and saved with the result.
PendingUnsaved ==
  /\ pc[Cluster] = "create"
  /\ Continue(Cluster, "getSpec", [Mine EXCEPT !.data.driver = TRUE])
  /\ UNCHANGED <<obj, cache, old, conflict, tries, enVars, pvVars>>

\* pending: the driver is saved before anything is provisioned.
Pending ==
  /\ pc[Cluster] = "create"
  /\ IF Mine.data.driver
     THEN Continue(Cluster, "getSpec", Mine) /\ UNCHANGED <<obj, old>>
     ELSE LET new == [Mine EXCEPT !.data.driver = TRUE]
          IN  Update(Cluster, new) /\ Continue(Cluster, "getSpec", new)
  /\ UNCHANGED <<cache, conflict, tries, enVars, pvVars>>

-----------------------------------------------------------------------------
(* Updated                                                                 *)

NeedsUpdate == cache[Cluster].there /\ ~cache[Cluster].deleting /\ cache[Cluster].init

\* sync calls Updated.
SyncUpdated ==
  /\ NeedsUpdate
  /\ pc[Cluster] = "idle" /\ Cluster \in queue
  /\ queue' = queue \ {Cluster}
  /\ pc' = [pc EXCEPT ![Cluster] = "updated"]
  /\ mine' = [mine EXCEPT ![Cluster] = cache[Cluster]]
  /\ conflict' = old
  /\ UNCHANGED <<obj, cache, old, tries, enVars, pvVars>>

\* The annotation is written to the object as it is now; the adapter's own update of the
\* old copy fails if a condition has changed.
StartUpdating ==
  /\ pc[Cluster] = "updated" /\ Mine.data.anno = "none"
  /\ Store(Cluster, [This EXCEPT !.data.anno = "updating"])
  /\ schema' = TRUE /\ overdue' = FALSE
  /\ Return(Cluster) \/ Retry(Cluster)
  /\ UNCHANGED <<cache, enVars, backoff, sleeping, back>>

WaitUpdating ==
  /\ pc[Cluster] = "updated" /\ Mine.data.anno = "updating" /\ ~overdue
  /\ Return(Cluster) /\ Record
  /\ UNCHANGED <<cache, enVars, pvVars>>

\* Mutant: the goroutine is waited for, however long it takes.
TakeOverNever ==
  /\ pc[Cluster] = "updated" /\ Mine.data.anno = "updating" /\ overdue
  /\ Return(Cluster)
  /\ UNCHANGED <<obj, cache, old, enVars, pvVars>>

TakeOver ==
  /\ pc[Cluster] = "updated" /\ Mine.data.anno = "updating" /\ overdue
  /\ Update(Cluster, [Mine EXCEPT !.data.anno = "updated"])
  /\ overdue' = FALSE
  /\ Return(Cluster)
  /\ UNCHANGED <<cache, enVars, backoff, sleeping, schema, back>>

\* waitForSchema ends, with the schema or without it.  A failure is logged.
SchemaDone ==
  /\ schema /\ schema' = FALSE
  /\ \/ /\ This.there
        /\ WriteBy(Cluster, [This EXCEPT !.data.anno = "updated"])
        /\ overdue' = FALSE
        /\ UNCHANGED faults
     \/ /\ ~This.there /\ UNCHANGED <<obj, old, conflict, faults, overdue>>
     \/ /\ Fault /\ UNCHANGED <<obj, old, conflict, overdue>>
  /\ queue' = queue \cup {Cluster}
  /\ UNCHANGED <<cache, mine, pc, tries, store, cloud, epc, c, want, gaveUp,
                 backoff, sleeping, back>>

\* reconcileCluster begins with the service account of an older version.
Reconcile ==
  /\ pc[Cluster] = "updated" /\ Mine.data.anno = "updated"
  /\ IF Mine.data.migrated
     THEN Continue(Cluster, "getSpec", Mine) /\ UNCHANGED enVars
     ELSE Continue(Cluster, "migrate", Mine) /\ Engine("generate") /\ UNCHANGED want
  /\ Local /\ UNCHANGED pvVars

Migrated ==
  /\ pc[Cluster] = "migrate" /\ epc = "ok"
  /\ LET new == [Mine EXCEPT !.data.migrated = TRUE]
     IN  Update(Cluster, new) /\ Continue(Cluster, "getSpec", new)
  /\ Engine("idle")
  /\ UNCHANGED <<cache, conflict, tries, want, pvVars>>

-----------------------------------------------------------------------------
(* reconcileCluster                                                        *)

\* getSpec finds no difference.
Same(data) == data.applied # 0 /\ Compared[data.applied] = Compared[data.spec]

\* There is nothing to do, but to save the conditions.
NothingToDo ==
  /\ pc[Cluster] = "getSpec" /\ Same(Mine.data)
  /\ IF Mine.init THEN Return(Cluster) /\ Record /\ UNCHANGED cache
                  ELSE Continue(Cluster, "setInitialized", Mine) /\ Local
  /\ UNCHANGED <<enVars, pvVars>>

InBackoff == backoff /\ Mine.data.failed = Mine.data.spec

\* A ForgetError; the goroutine sleeps for the time of the backoff.
BackoffFailure ==
  /\ pc[Cluster] = "getSpec" /\ ~Same(Mine.data)
  /\ InBackoff
  /\ sleeping' = TRUE
  /\ Return(Cluster) /\ Record
  /\ UNCHANGED <<cache, enVars, backoff, schema, overdue, back>>

\* The engine is given the spec of the handler's copy.  The copy is stored, and has to
\* be current before an update, but not before a creation.
Provision ==
  /\ pc[Cluster] = "getSpec" /\ ~Same(Mine.data)
  /\ ~InBackoff
  /\ want' = Mine.data.spec
  /\ IF Mine.init
     THEN Update(Cluster, Mine) /\ Continue(Cluster, "driverUpdate", Mine) /\ Engine("update")
     ELSE TryUpdate /\ Continue(Cluster, "driverCreate", Mine) /\ Engine("create")
  /\ UNCHANGED <<cache, conflict, tries, pvVars>>

\* Mutant: the spec is not passed on.
UpdateExistingBare ==
  /\ pc[Cluster] = "driverCreate" /\ epc = "exists"
  /\ Continue(Cluster, "driverUpdate", Mine) /\ Engine("update")
  /\ want' = 0
  /\ Local /\ UNCHANGED pvVars

\* driverCreate has found the cluster.
UpdateExisting ==
  /\ pc[Cluster] = "driverCreate" /\ epc = "exists"
  /\ Continue(Cluster, "driverUpdate", Mine) /\ Engine("update")
  /\ Local /\ UNCHANGED <<want, pvVars>>

\* The cluster is read again.
Reload ==
  /\ \/ pc[Cluster] = "driverCreate" /\ epc \in {"ok", "failed"}
     \/ pc[Cluster] = "driverUpdate" /\ epc \in Results
  /\ Continue(Cluster, IF epc = "ok" THEN "succeeded" ELSE "failed", This)
  /\ conflict' = {}
  /\ Engine("idle")
  /\ UNCHANGED <<obj, cache, old, tries, want, pvVars>>

\* recordFailure after an error, which is returned; a failure to record it is masked.
RecordFailure ==
  /\ pc[Cluster] = "failed"
  /\ backoff' = TRUE
  /\ \/ Update(Cluster, [Mine EXCEPT !.data.failed = want])
     \/ Cluster \in conflict /\ UNCHANGED <<obj, old>>
  /\ Retry(Cluster) /\ want' = 0
  /\ UNCHANGED <<cache, store, cloud, epc, c, gaveUp, faults, sleeping, schema, overdue, back>>

\* recordFailure without one.
RecordSuccess ==
  /\ pc[Cluster] = "succeeded"
  /\ backoff' = FALSE
  /\ LET new == [Mine EXCEPT !.data.failed = 0]
     IN  /\ IF Mine = new THEN UNCHANGED <<obj, old>> ELSE Update(Cluster, new)
         /\ Continue(Cluster, "save", new)
  /\ UNCHANGED <<cache, conflict, tries, enVars, sleeping, schema, overdue, back>>

\* Mutant: the spec that is recorded is the one of the object, not of the engine.
SaveCurrent ==
  /\ pc[Cluster] = "save"
  /\ LET new == [This EXCEPT !.data.applied = This.data.spec]
     IN  /\ Store(Cluster, new)
         /\ IF new.init
            THEN Return(Cluster) \/ Retry(Cluster)
            ELSE Continue(Cluster, "setInitialized", new) /\ conflict' = {} /\ UNCHANGED tries
  /\ want' = 0
  /\ UNCHANGED <<cache, store, cloud, epc, c, gaveUp, faults, pvVars>>

\* The applied spec is written to the object as it is now.  The adapter's update of the
\* conditions comes last, and may fail.
Save ==
  /\ pc[Cluster] = "save"
  /\ LET new == [This EXCEPT !.data.applied = want]
     IN  /\ Store(Cluster, new)
         /\ IF new.init
            THEN Return(Cluster) \/ Retry(Cluster)
            ELSE Continue(Cluster, "setInitialized", new) /\ conflict' = {} /\ UNCHANGED tries
  /\ want' = 0
  /\ UNCHANGED <<cache, store, cloud, epc, c, gaveUp, faults, pvVars>>

-----------------------------------------------------------------------------
(* Remove                                                                  *)

Remove ==
  /\ pc[Cluster] = "finalize"
  /\ IF Mine.data.driver
     THEN TryUpdate /\ Continue(Cluster, "remove", Mine) /\ Engine("remove") /\ UNCHANGED want
     ELSE Continue(Cluster, "removeFinalizer", Mine) /\ UNCHANGED <<obj, old, enVars>>
  /\ UNCHANGED <<cache, conflict, tries, pvVars>>

\* The cluster is read again, and its finalizer removed.
Removed ==
  /\ pc[Cluster] = "remove" /\ epc = "ok"
  /\ Continue(Cluster, "removeFinalizer", This)
  /\ conflict' = {}
  /\ Engine("idle")
  /\ UNCHANGED <<obj, cache, old, tries, want, pvVars>>

-----------------------------------------------------------------------------
Adapter ==
  /\ \/ ~NeedsUpdate /\ Sync(Cluster)
     \/ AddFinalizer(Cluster) \/ SetInitialized(Cluster)
     \/ RemoveFinalizer(Cluster)
  /\ UNCHANGED <<enVars, pvVars>>

\* The next step ends with an Update, of the handler or the adapter.
Updates ==
  CASE pc[Cluster] = "create"    -> ~Mine.data.driver
    [] pc[Cluster] = "getSpec"   -> Mine.init
    [] pc[Cluster] = "succeeded" -> Mine.data.failed # 0
    [] OTHER -> pc[Cluster] \notin {"finalize", "remove"}

\* An Update of an old copy, a call that fails, the engine's error in a migration or a
\* removal.  The adapter saves the conditions after an error, too, and ignores its own.
HandlerFails ==
  /\ pc[Cluster] \notin {"idle", "driverCreate", "driverUpdate", "failed"}
  /\ IF pc[Cluster] = "removeFinalizer" THEN RemoveFinalizerAgain(Cluster)
                                        ELSE Retry(Cluster) /\ Record /\ UNCHANGED cache
  /\ \/ pc[Cluster] \in {"migrate", "remove"} /\ epc = "failed" /\ UNCHANGED faults
     \/ Updates /\ epc \in {"idle", "ok"} /\ Cluster \in conflict /\ UNCHANGED faults
     \/ epc \in {"idle", "ok"} /\ Fault
  /\ epc' = "idle" /\ c' = Blank /\ want' = 0
  /\ UNCHANGED <<store, cloud, gaveUp, pvVars>>

Handler ==
  \/ Adapter \/ Pending \/ SyncUpdated \/ StartUpdating \/ WaitUpdating \/ TakeOver
  \/ Reconcile \/ Migrated \/ NothingToDo \/ BackoffFailure \/ Provision
  \/ UpdateExisting \/ Reload \/ RecordFailure \/ RecordSuccess \/ Save
  \/ Remove \/ Removed \/ HandlerFails

Engines == EngineStep /\ UNCHANGED <<lcVars, pvVars>>

-----------------------------------------------------------------------------
(* Informers, timers, users                                                *)

SecretArrives == SecretEvent /\ UNCHANGED <<lcVars, pvVars>>
EventArrives  == Informer(Cluster) /\ UNCHANGED <<enVars, pvVars>>

\* The informer's resync, every two hours.
Resync ==
  /\ cache[Cluster].there /\ queue = {} /\ old = {} /\ pc[Cluster] = "idle"
  /\ queue' = {Cluster}
  /\ UNCHANGED <<obj, cache, old, mine, conflict, pc, tries, enVars, pvVars>>

BackoffOver ==
  /\ backoff /\ backoff' = FALSE
  /\ UNCHANGED <<lcVars, enVars, sleeping, schema, overdue, back>>

Wake ==
  /\ sleeping /\ ~backoff
  /\ sleeping' = FALSE /\ queue' = {Cluster}
  /\ UNCHANGED <<obj, cache, old, mine, conflict, pc, tries, enVars, backoff, schema, overdue,
                 back>>

TwentySeconds ==
  /\ This.data.anno = "updating" /\ ~overdue
  /\ overdue' = TRUE
  /\ UNCHANGED <<lcVars, enVars, backoff, sleeping, schema, back>>

Timers == BackoffOver \/ Wake \/ TwentySeconds

\* Users ask for another configuration, an earlier one included, or delete the cluster;
\* others write to it.
UserWrites ==
  /\ This.there
  /\ \/ \E k \in Configs \ {This.data.spec} :
          /\ ~This.deleting
          /\ WriteBy(Cluster, [This EXCEPT !.data.spec = k])
          /\ IF k > This.data.spec THEN UNCHANGED <<faults, back>> ELSE Fault /\ back' = TRUE
     \/ Fault /\ WriteBy(Cluster, This) /\ UNCHANGED back
     \/ DeleteBy(Cluster) /\ UNCHANGED <<faults, back>>
  /\ UNCHANGED <<cache, mine, queue, pc, tries, store, cloud, epc, c, want, gaveUp,
                 backoff, sleeping, schema, overdue>>

Restart ==
  /\ Fault /\ LCRestart /\ EnRestart
  /\ backoff' = FALSE /\ sleeping' = FALSE /\ schema' = FALSE
  /\ UNCHANGED <<overdue, back>>

-----------------------------------------------------------------------------
Next ==
  \/ Handler \/ Engines \/ SecretArrives \/ EventArrives \/ SchemaDone
  \/ Resync \/ Timers \/ UserWrites \/ Restart

Spec == Init /\ [][Next]_vars

\* Worker, informers, goroutines and timers go on.  The worker is in its handler or in the
\* engine it waits for.
Fairness ==
  /\ WF_vars(Handler \/ Engines)
  /\ WF_vars(SecretArrives) /\ WF_vars(EventArrives)
  /\ WF_vars(SchemaDone \/ Timers)
  /\ WF_vars(Resync)

FairSpec == Spec /\ Fairness
-----------------------------------------------------------------------------
(* Properties *)

\* Type correctness of the cluster, the handler, the engine and its Secret; the driver
\* always has a configuration.
TypeOK ==
  /\ LCTypeOK /\ EnTypeOK
  /\ pc \in [Objects -> {"idle", "addFinalizer", "create", "setInitialized", "updated",
                         "migrate", "getSpec", "driverCreate", "driverUpdate", "succeeded",
                         "failed", "save", "finalize", "remove", "removeFinalizer"}]
  /\ want = 0 => pc[Cluster] \notin {"driverCreate", "driverUpdate", "succeeded", "failed", "save"}
  /\ backoff \in BOOLEAN /\ sleeping \in BOOLEAN
  /\ schema \in BOOLEAN /\ overdue \in BOOLEAN /\ back \in BOOLEAN

\* A cluster that is gone has left nothing at the provider, whenever it was deleted and
\* the server restarted, unless the removal was forced ("Check for stray resources on
\* cloud provider"): the driver, the finalizer and the Secret have to be stored before
\* Driver.Create is called.
NoStrayCluster == cloud # 0 => This.there \/ gaveUp

\* A spec that Status.AppliedSpec records as applied is the one the driver was last called
\* with: getSpec would never look at it again.  Failed calls may have taken effect, a
\* handler may work on an old copy, and writes of the status may fail.  Only a user who
\* goes back to an earlier configuration can make it false: getSpec does not know of a
\* call that was not recorded.
AppliedIsApplied ==
  This.there /\ ~This.deleting /\ ~back /\ This.data.applied = This.data.spec
    => cloud = This.data.spec

\* Update: "Cluster %s has not been created."
Stuck == This.init /\ secret # NoSecret /\ secret.status = "Creating"

\* Whatever the users ask for, going back included, is provisioned and recorded, after
\* failures, restarts and backoffs, or the engine refuses every update because a Create
\* that a handler repeated from an old copy was interrupted.
EventuallyProvisioned == <>[](This.there => Same(This.data) \/ Stuck)

\* A cluster that is deleted does not stay, whatever has been lost and wherever the server
\* was restarted.
RemovalEnds == <>[]~(This.there /\ This.deleting)
=============================================================================

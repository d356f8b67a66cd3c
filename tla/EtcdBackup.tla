----------------------------- MODULE EtcdBackup -----------------------------
(***************************************************************************)
(* controllers/management/etcdbackup: the backups of one cluster.  Each    *)
(* backup is an object with a Lifecycle; every five minutes                *)
(* doClusterBackupSync creates a backup if one is due and deletes those    *)
(* that have expired.  Time is counted in these five minutes.              *)
(***************************************************************************)
EXTENDS Lifecycle

CONSTANTS
  Interval,   \* a backup is due when the newest is older
  Retention,  \* backups are kept for Retention intervals
  S3,         \* snapshots are kept in S3, not on the nodes
  MaxFaults   \* bound: failed calls and saves, deletions and writes by users, restarts,
              \* saves that take longer than five minutes

ASSUME TimesAreNumbers == Interval \in Nat /\ Retention \in Nat

VARIABLES
  age,      \* time since the last update of the condition Completed
  files,    \* the snapshots that exist
  gaveUp,   \* backups whose snapshot Remove could not delete
  sched,    \* doClusterBackupSync: "wait", "list", "create", "rotate"
  rotating, \* the expired backups it has still to delete
  faults,
  slow      \* some save has taken longer than five minutes

ebVars == <<age, files, gaveUp, sched, rotating, faults, slow>>
vars == <<lcVars, ebVars>>

Keep == Retention * Interval
Oldest == Keep + 1  \* ages are counted up to here

\* The conditions Created and Completed.
NewBackup == [created |-> FALSE, completed |-> "none"]
BackupData == {NewBackup} \cup [created : {TRUE}, completed : {"Unknown", "True", "False"}]

ASSUME DataIsBackupData == Data = BackupData /\ NewData = NewBackup

Init ==
  /\ LCInit
  /\ age = [b \in Objects |-> 0]
  /\ files = {} /\ gaveUp = {}
  /\ sched = "wait" /\ rotating = {}
  /\ faults = 0 /\ slow = FALSE

Fault == faults < MaxFaults /\ faults' = faults + 1

-----------------------------------------------------------------------------
(* Create and Remove                                                       *)

Finished(o) == o.data.completed \in {"True", "False"}

\* Mutant: Completed is not set together with Created.
CreateBare(b) ==
  /\ pc[b] = "create" /\ ~Finished(mine[b])
  /\ LET new == [mine[b] EXCEPT !.data.created = TRUE]
     IN  Update(b, new) /\ Continue(b, "save", new)
  /\ UNCHANGED <<cache, conflict, tries, ebVars>>

\* Mutant: Create does not look at the result.
CreateAgain(b) ==
  /\ pc[b] = "create"
  /\ LET new == [mine[b] EXCEPT !.data = [created |-> TRUE, completed |-> "Unknown"]]
     IN  Update(b, new) /\ Continue(b, "save", new)
  /\ UNCHANGED <<cache, conflict, tries, ebVars>>

\* A backup that has its result is not saved again; one whose configuration was
\* copied before is not given a new filename.
Create(b) ==
  /\ pc[b] = "create"
  /\ \/ /\ Finished(mine[b])
        /\ Continue(b, "setInitialized", mine[b])
        /\ UNCHANGED <<obj, old>>
     \/ /\ ~Finished(mine[b]) /\ mine[b].data.created
        /\ Continue(b, "save", mine[b])
        /\ UNCHANGED <<obj, old>>
     \/ /\ ~Finished(mine[b]) /\ ~mine[b].data.created
        /\ LET new == [mine[b] EXCEPT !.data = [created |-> TRUE, completed |-> "Unknown"]]
           IN  Update(b, new) /\ Continue(b, "save", new)
  /\ UNCHANGED <<cache, conflict, tries, ebVars>>

\* ETCDSave with its five attempts, inside Completed.Do.  One that fails may have
\* made the snapshot on some of the nodes.
Save(b) ==
  /\ pc[b] = "save"
  /\ \/ /\ files' = files \cup {b}
        /\ Continue(b, "saved", [mine[b] EXCEPT !.data.completed = "True"])
        /\ UNCHANGED faults
     \/ /\ Fault
        /\ files' \in {files, files \cup {b}}
        /\ Continue(b, "saved", [mine[b] EXCEPT !.data.completed = "False"])
  /\ UNCHANGED <<obj, cache, old, conflict, tries, age, gaveUp, sched, rotating, slow>>

\* A failed save is stored and returned as an error.
Saved(b) ==
  /\ pc[b] = "saved"
  /\ Update(b, mine[b])
  /\ age' = [age EXCEPT ![b] = 0]
  /\ IF mine[b].data.completed = "True"
     THEN Continue(b, "setInitialized", mine[b]) /\ UNCHANGED <<conflict, tries>>
     ELSE Retry(b)
  /\ UNCHANGED <<cache, files, gaveUp, sched, rotating, faults, slow>>

\* Mutant: Remove gives up without an error and without the end of the deletion.
RemoveGivesUp(b) ==
  /\ pc[b] = "finalize"
  /\ \/ /\ files' = IF S3 THEN files \ {b} ELSE files
        /\ Continue(b, "removeFinalizer", mine[b])
        /\ UNCHANGED <<faults, gaveUp, conflict, tries>>
     \/ /\ Fault
        /\ gaveUp' = gaveUp \cup {b}
        /\ Return(b)
        /\ UNCHANGED files
  /\ UNCHANGED <<obj, cache, old, age, sched, rotating, slow>>

\* ETCDSave is given the name of Spec.Filename, which has a timestamp, and so is
\* deleteS3Snapshot; ETCDRemoveSnapshot is given the object's name, and removes no
\* file that Create has made.  In the end Remove gives up.
Remove(b) ==
  /\ pc[b] = "finalize"
  /\ \/ /\ files' = IF S3 THEN files \ {b} ELSE files
        /\ UNCHANGED <<faults, gaveUp>>
     \/ /\ Fault
        /\ gaveUp' = gaveUp \cup {b}
        /\ UNCHANGED files
  /\ Continue(b, "removeFinalizer", mine[b])
  /\ UNCHANGED <<obj, cache, old, conflict, tries, age, sched, rotating, slow>>

\* An update of an old copy, a cluster without configuration, a call that fails.
HandlerFails(b) ==
  /\ Fails(b) \/ RemoveFinalizerAgain(b)
  /\ \/ b \in conflict /\ UNCHANGED faults
     \/ Fault
  /\ UNCHANGED <<age, files, gaveUp, sched, rotating, slow>>

Adapter(b) ==
  /\ \/ Sync(b) \/ AddFinalizer(b) \/ SetInitialized(b)
     \/ RemoveFinalizer(b)
  /\ UNCHANGED ebVars

Handler(b) ==
  Adapter(b) \/ Create(b) \/ Save(b) \/ Saved(b) \/ Remove(b) \/ HandlerFails(b)

-----------------------------------------------------------------------------
(* doClusterBackupSync                                                     *)

\* A backup without a result has no time of completion: it is older than any.
CompletedAge(b) == IF Finished(cache[b]) THEN age[b] ELSE Oldest

Listed == {b \in Objects : cache[b].there}

\* rotateExpiredBackups
Expired == {b \in Listed : CompletedAge(b) > Keep}

\* Mutant: the first backup is left to somebody else.
BackupSyncNotFirst ==
  /\ sched = "list"
  /\ sched' = IF Listed # {} /\ \A b \in Listed : CompletedAge(b) > Interval
              THEN "create" ELSE "rotate"
  /\ rotating' = Expired
  /\ UNCHANGED <<lcVars, age, files, gaveUp, faults, slow>>

\* A backup is due if all are too old, also when there is none.
BackupSync ==
  /\ sched = "list"
  /\ sched' = IF \A b \in Listed : CompletedAge(b) > Interval THEN "create" ELSE "rotate"
  /\ rotating' = Expired
  /\ UNCHANGED <<lcVars, age, files, gaveUp, faults, slow>>

\* The cluster is not ready or has backups disabled at the moment, or a call fails.
BackupSyncSkips ==
  /\ Fault
  /\ sched \in {"list", "create", "rotate"}
  /\ sched' = "wait" /\ rotating' = {}
  /\ UNCHANGED <<lcVars, age, files, gaveUp, slow>>

\* Mutant: the backups are listed again before the rotation, the new one with them.
CreateNewBackupRelists ==
  /\ sched = "create"
  /\ \E x \in Objects : Unused(x) /\ x \notin rotating
  /\ LET b == CHOOSE x \in Objects : Unused(x) /\ x \notin rotating
     IN  /\ WriteBy(b, [Absent EXCEPT !.there = TRUE])
         /\ age' = [age EXCEPT ![b] = 0]
         /\ files' = files \ {b}
         /\ gaveUp' = gaveUp \ {b}
         /\ rotating' = rotating \cup {b}
  /\ sched' = "rotate"
  /\ UNCHANGED <<cache, mine, queue, pc, tries, faults, slow>>

\* Names are generated; one that is not used any more stands for a new one, its
\* history is forgotten.
CreateNewBackup ==
  /\ sched = "create"
  /\ \E x \in Objects : Unused(x) /\ x \notin rotating
  /\ LET b == CHOOSE x \in Objects : Unused(x) /\ x \notin rotating
     IN  /\ WriteBy(b, [Absent EXCEPT !.there = TRUE])
         /\ age' = [age EXCEPT ![b] = 0]
         /\ files' = files \ {b}
         /\ gaveUp' = gaveUp \ {b}
  /\ sched' = "rotate"
  /\ UNCHANGED <<cache, mine, queue, pc, tries, rotating, faults, slow>>

\* The deletion of a backup that has gone fails, and ends this pass.
RotateExpired ==
  /\ sched = "rotate" /\ rotating # {}
  /\ \E b \in rotating :
       IF obj[b].there
       THEN DeleteBy(b) /\ rotating' = rotating \ {b} /\ UNCHANGED sched
       ELSE rotating' = {} /\ sched' = "wait" /\ UNCHANGED <<obj, old, conflict>>
  /\ UNCHANGED <<cache, mine, queue, pc, tries, age, files, gaveUp, faults, slow>>

SyncEnds ==
  /\ sched = "rotate" /\ rotating = {}
  /\ sched' = "wait"
  /\ UNCHANGED <<lcVars, age, files, gaveUp, rotating, faults, slow>>

\* Five minutes pass when there is nothing left to do, or nothing but slow saves.
Tick ==
  /\ sched = "wait"
  /\ old = {}
  /\ \A b \in Objects : pc[b] = "save" \/ (pc[b] = "idle" /\ b \notin queue)
  /\ IF \E b \in Objects : pc[b] = "save" THEN Fault /\ slow' = TRUE
                                        ELSE UNCHANGED <<faults, slow>>
  /\ age' = [b \in Objects |-> IF ~Finished(obj[b]) /\ ~Finished(cache[b]) THEN 0
                              ELSE IF age[b] < Oldest THEN age[b] + 1 ELSE Oldest]
  /\ sched' = "list"
  /\ UNCHANGED <<lcVars, files, gaveUp, rotating>>

-----------------------------------------------------------------------------
(* Surroundings                                                            *)

EventArrives(b) == Informer(b) /\ UNCHANGED ebVars

\* Users delete or change a backup.
UserDeletes(b) ==
  /\ Fault /\ obj[b].there /\ DeleteBy(b)
  /\ UNCHANGED <<cache, mine, queue, pc, tries, age, files, gaveUp, sched, rotating, slow>>

UserWrites(b) ==
  /\ Fault /\ obj[b].there /\ WriteBy(b, obj[b])
  /\ UNCHANGED <<cache, mine, queue, pc, tries, age, files, gaveUp, sched, rotating, slow>>

Restart ==
  /\ Fault /\ LCRestart
  /\ sched' = "wait" /\ rotating' = {}
  /\ UNCHANGED <<age, files, gaveUp, slow>>

-----------------------------------------------------------------------------
Scheduler == BackupSync \/ BackupSyncSkips \/ CreateNewBackup \/ RotateExpired \/ SyncEnds

Next ==
  \/ \E b \in Objects :
       \/ Handler(b) \/ EventArrives(b)
       \/ UserDeletes(b) \/ UserWrites(b)
  \/ Scheduler \/ Tick \/ Restart

Spec == Init /\ [][Next]_vars

\* Workers and the informer go on, the ticker ticks.
Fairness ==
  /\ \A b \in Objects : WF_vars(Handler(b)) /\ WF_vars(EventArrives(b))
  /\ WF_vars(Scheduler) /\ WF_vars(Tick)

FairSpec == Spec /\ Fairness
-----------------------------------------------------------------------------
(* Properties *)

\* Type correctness of the backups, the handlers and the scheduler.
TypeOK ==
  /\ LCTypeOK
  /\ pc \in [Objects -> {"idle", "addFinalizer", "create", "save", "saved",
                         "setInitialized", "finalize", "removeFinalizer"}]
  /\ age \in [Objects -> 0..Oldest]
  /\ files \subseteq Objects /\ gaveUp \subseteq Objects
  /\ sched \in {"wait", "list", "create", "rotate"}
  /\ rotating \subseteq Objects

\* "Number of backups to keep": a backup that is gone has left no snapshot, unless
\* Remove had to give up, although the backup may be deleted at any moment of
\* Create.  The finalizer has to be there before the snapshot and go after it.
NoOrphanSnapshot ==
  \A b \in files : obj[b].there \/ b \in gaveUp

\* A result is never replaced: a handler that repeats Create from an old copy, or
\* after a restart, may save again but cannot overwrite it.
ResultIsFinal ==
  [][\A b \in Objects :
       obj[b].there /\ obj'[b].there /\ Finished(obj[b]) => obj'[b].data = obj[b].data]_vars

\* "rotate old backups": as long as no save takes more than five minutes
\* the rotation deletes no backup but those that were completed, one way or the
\* other, more than Retention intervals ago.
RotatesOnlyOld ==
  [][\A b \in Objects :
       ~slow /\ b \in rotating /\ b \notin rotating' /\ sched' = "rotate" =>
         Finished(obj[b]) /\ age[b] > Keep]_vars

Recent == \E b \in Objects :
  /\ obj[b].there /\ ~obj[b].deleting
  /\ obj[b].data.completed = "True" /\ age[b] <= Interval

\* The cluster has a recent successful backup
\* again and again, after failed saves, slow ones, restarts and deletions.
AlwaysRecentAgain == []<>Recent

\* A deleted backup goes away.
DeletionEnds ==
  \A b \in Objects : (obj[b].there /\ obj[b].deleting) ~> ~(obj[b].there /\ obj[b].deleting)
=============================================================================

-------------------------- MODULE EtcdBackupProofs --------------------------
(***************************************************************************)
(* Proofs about etcd backups, for any number of backups and of faults:     *)
(* types, that a result is final, that a backup which is gone has left no  *)
(* snapshot in S3, and that the rotation deletes old backups only.         *)
(***************************************************************************)
EXTENDS EtcdBackup, TLAPS

\* An object of the right type has these fields.
LEMMA Fields ==
  ASSUME NEW o \in ObjectType
  PROVE  /\ o = [there |-> o.there, deleting |-> o.deleting, fin |-> o.fin,
                 init |-> o.init, data |-> o.data]
         /\ o.there \in BOOLEAN /\ o.deleting \in BOOLEAN
         /\ o.fin \in BOOLEAN /\ o.init \in BOOLEAN /\ o.data \in BackupData
  BY DataIsBackupData DEF ObjectType

\* The object that is not there has the type of objects.
LEMMA AbsentType == Absent \in ObjectType
  BY DataIsBackupData DEF Absent, ObjectType, BackupData

\* The objects the handlers and the scheduler make of others.
LEMMA MadeType ==
  ASSUME NEW o \in ObjectType
  PROVE  /\ [o EXCEPT !.fin = TRUE] \in ObjectType
         /\ [o EXCEPT !.init = TRUE] \in ObjectType
         /\ [o EXCEPT !.deleting = TRUE] \in ObjectType
         /\ [o EXCEPT !.there = TRUE] \in ObjectType
         /\ \A d \in BackupData : [o EXCEPT !.data = d] \in ObjectType
  BY DataIsBackupData, Zenon DEF ObjectType

-----------------------------------------------------------------------------
(* Types *)

Labels == {"idle", "addFinalizer", "create", "save", "saved",
           "setInitialized", "finalize", "removeFinalizer"}

HandlerType ==
  /\ mine \in [Objects -> ObjectType]
  /\ conflict \subseteq Objects /\ queue \subseteq Objects
  /\ tries \in [Objects -> 0..2]
  /\ pc \in [Objects -> Labels]
StoreType ==
  /\ obj \in [Objects -> ObjectType] /\ cache \in [Objects -> ObjectType]
  /\ old \subseteq Objects
OwnType ==
  /\ age \in [Objects -> 0..Oldest]
  /\ files \subseteq Objects /\ gaveUp \subseteq Objects
  /\ sched \in {"wait", "list", "create", "rotate"}
  /\ rotating \subseteq Objects

\* TypeOK in three parts: what handlers, the API server and the scheduler change.
LEMMA TypeParts == TypeOK <=> HandlerType /\ StoreType /\ OwnType
  BY DEF TypeOK, LCTypeOK, HandlerType, StoreType, OwnType, Labels

\* Ages are natural numbers.
LEMMA OldestType == Oldest \in Nat /\ Keep \in Nat
  BY TimesAreNumbers DEF Oldest, Keep

\* A handler that ends keeps the types.
LEMMA EndsType ==
  ASSUME HandlerType, NEW b \in Objects, Ends(b),
         queue' = queue \/ queue' = queue \cup {b}
  PROVE  HandlerType'
  BY AbsentType DEF HandlerType, Ends, Labels

\* A handler that goes on with a copy of the right type keeps the types.
LEMMA ContinueType ==
  ASSUME HandlerType, NEW b \in Objects, NEW l \in Labels, NEW o \in ObjectType,
         Continue(b, l, o), UNCHANGED <<conflict, tries>>
  PROVE  HandlerType'
  BY DEF HandlerType, Continue, Labels

\* So does a new version of an object in the API server.
LEMMA StoredType ==
  ASSUME StoreType, NEW b \in Objects, NEW o \in ObjectType, Store(b, o), UNCHANGED cache
  PROVE  StoreType'
  BY DEF StoreType, Store

\* So does a deletion.
LEMMA DeletedType ==
  ASSUME StoreType, conflict \subseteq Objects, NEW b \in Objects, DeleteBy(b), UNCHANGED cache
  PROVE  StoreType' /\ conflict' \subseteq Objects
  <1>. obj[b] \in ObjectType  BY DEF StoreType
  <1>1. [obj[b] EXCEPT !.deleting = TRUE] \in ObjectType /\ Absent \in ObjectType
    BY MadeType, AbsentType, Zenon
  <1>2. CASE obj[b].deleting
    BY <1>2 DEF DeleteBy, StoreType
  <1>3. CASE ~obj[b].deleting
    <2>1. PICK o \in ObjectType : WriteBy(b, o)
      BY <1>1, <1>3 DEF DeleteBy
    <2>. QED  BY <2>1, StoredType DEF WriteBy
  <1>. QED  BY <1>2, <1>3

\* TypeOK is not inductive: a backup gets a result only if it has been created.
SaveIsCreated == \A b \in Objects : pc[b] = "save" => mine[b].data.created

\* Each step keeps the types.
LEMMA TypeStep == TypeOK /\ SaveIsCreated /\ [Next]_vars => TypeOK'
<1>. SUFFICES ASSUME TypeOK, SaveIsCreated, [Next]_vars
              PROVE  HandlerType' /\ StoreType' /\ OwnType'
  BY DEF TypeOK, LCTypeOK, HandlerType, StoreType, OwnType, Labels
<1>. HandlerType /\ StoreType /\ OwnType
  BY TypeParts
<1>. \A c \in Objects : obj[c] \in ObjectType /\ cache[c] \in ObjectType /\ mine[c] \in ObjectType
  BY DEF HandlerType, StoreType
<1>. USE DEF ebVars, lcVars
<1>1. ASSUME NEW b \in Objects, Adapter(b)
      PROVE  HandlerType' /\ StoreType' /\ OwnType'
  <2>. OwnType'
    BY <1>1 DEF Adapter, OwnType
  <2>1. CASE Sync(b)
    <3>1. FirstStep(cache[b]) \in Labels
      BY DEF FirstStep, Labels
    <3>. QED  BY <2>1, <3>1 DEF Sync, HandlerType, StoreType
  <2>2. CASE AddFinalizer(b)
    <3>. DEFINE new == [mine[b] EXCEPT !.fin = TRUE]
    <3>1. new \in ObjectType  BY MadeType, Zenon
    <3>2. Store(b, new) /\ Continue(b, "create", new) /\ UNCHANGED <<cache, conflict, tries>>
      BY <2>2 DEF AddFinalizer, Update
    <3>. HIDE DEF new
    <3>. QED  BY <3>1, <3>2, StoredType, ContinueType DEF Labels
  <2>3. CASE SetInitialized(b)
    <3>1. [mine[b] EXCEPT !.init = TRUE] \in ObjectType  BY MadeType, Zenon
    <3>. QED  BY <2>3, <3>1, StoredType, EndsType DEF SetInitialized, Update, Return
  <2>4. CASE RemoveFinalizer(b)
    BY <2>4, AbsentType, StoredType, EndsType DEF RemoveFinalizer, Update, Return
  <2>. QED  BY <1>1, <2>1, <2>2, <2>3, <2>4 DEF Adapter
<1>2. ASSUME NEW b \in Objects, Create(b)
      PROVE  HandlerType' /\ StoreType' /\ OwnType'
  <2>. OwnType'
    BY <1>2 DEF Create, OwnType
  <2>. DEFINE new == [mine[b] EXCEPT !.data = [created |-> TRUE, completed |-> "Unknown"]]
  <2>1. new \in ObjectType  BY MadeType, Zenon DEF BackupData
  <2>2. UNCHANGED <<cache, conflict, tries>>
        /\ \/ Continue(b, "setInitialized", mine[b]) /\ UNCHANGED <<obj, old>>
           \/ Continue(b, "save", mine[b]) /\ UNCHANGED <<obj, old>>
           \/ Store(b, new) /\ Continue(b, "save", new)
    BY <1>2 DEF Create, Update
  <2>. HIDE DEF new
  <2>3. HandlerType'
    BY <2>1, <2>2, ContinueType DEF Labels
  <2>. QED  BY <2>1, <2>2, <2>3, StoredType DEF StoreType
<1>3. ASSUME NEW b \in Objects, Save(b)
      PROVE  HandlerType' /\ StoreType' /\ OwnType'
  <2>. OwnType' /\ StoreType'
    BY <1>3 DEF Save, OwnType, StoreType
  <2>1. mine[b].data \in [created : {TRUE}, completed : {"Unknown", "True", "False"}]
    <3>1. mine[b].data \in BackupData  BY Fields
    <3>2. mine[b].data.created  BY <1>3 DEF Save, SaveIsCreated
    <3>3. mine[b].data # NewBackup
      <4>1. NewBackup.created = FALSE  BY DEF NewBackup
      <4>. QED  BY <3>2, <4>1, Zenon
    <3>. QED  BY <3>1, <3>3, Zenon DEF BackupData
  <2>2. ASSUME NEW r \in {"True", "False"}
        PROVE  [mine[b] EXCEPT !.data.completed = r] \in ObjectType
    <3>1. [mine[b].data EXCEPT !.completed = r] \in BackupData
      BY <2>1, Zenon DEF BackupData
    <3>2. [mine[b] EXCEPT !.data = [mine[b].data EXCEPT !.completed = r]] \in ObjectType
      BY <3>1, MadeType, Zenon
    <3>. QED  BY <3>2
  <2>3. PICK r \in {"True", "False"} : Continue(b, "saved", [mine[b] EXCEPT !.data.completed = r])
    BY <1>3 DEF Save
  <2>. DEFINE new == [mine[b] EXCEPT !.data.completed = r]
  <2>4. new \in ObjectType  BY <2>2
  <2>5. Continue(b, "saved", new) /\ UNCHANGED <<conflict, tries>>
    BY <1>3, <2>3 DEF Save
  <2>. HIDE DEF new
  <2>. QED  BY <2>4, <2>5, ContinueType DEF Labels
<1>4. ASSUME NEW b \in Objects, Saved(b)
      PROVE  HandlerType' /\ StoreType' /\ OwnType'
  <2>. StoreType'
    BY <1>4, StoredType DEF Saved, Update
  <2>. OwnType'
    BY <1>4, OldestType DEF Saved, OwnType
  <2>1. CASE mine[b].data.completed = "True"
    BY <1>4, <2>1, ContinueType DEF Saved, Labels
  <2>2. CASE mine[b].data.completed # "True"
    BY <1>4, <2>2, EndsType DEF Saved, Retry
  <2>. QED  BY <2>1, <2>2
<1>5. ASSUME NEW b \in Objects, Remove(b)
      PROVE  HandlerType' /\ StoreType' /\ OwnType'
  <2>. HandlerType'
    BY <1>5, ContinueType DEF Remove, Labels
  <2>. QED  BY <1>5 DEF Remove, StoreType, OwnType
<1>6. ASSUME NEW b \in Objects, HandlerFails(b)
      PROVE  HandlerType' /\ StoreType' /\ OwnType'
  <2>. StoreType' /\ OwnType'
    BY <1>6 DEF HandlerFails, Fails, RemoveFinalizerAgain, StoreType, OwnType
  <2>1. CASE Fails(b)
    BY <2>1, EndsType DEF Fails, Retry
  <2>2. CASE RemoveFinalizerAgain(b)
    <3>1. CASE obj[b].there /\ tries[b] < 2
      BY <2>2, <3>1 DEF RemoveFinalizerAgain, Continue, HandlerType, Labels
    <3>2. CASE ~(obj[b].there /\ tries[b] < 2)
      BY <2>2, <3>2, EndsType DEF RemoveFinalizerAgain, Retry
    <3>. QED  BY <3>1, <3>2
  <2>. QED  BY <1>6, <2>1, <2>2 DEF HandlerFails
<1>7. ASSUME NEW b \in Objects, EventArrives(b)
      PROVE  HandlerType' /\ StoreType' /\ OwnType'
  BY <1>7 DEF EventArrives, Informer, HandlerType, StoreType, OwnType
<1>8. ASSUME NEW b \in Objects, UserDeletes(b)
      PROVE  HandlerType' /\ StoreType' /\ OwnType'
  <2>. StoreType' /\ conflict' \subseteq Objects
    BY <1>8, DeletedType DEF UserDeletes, HandlerType
  <2>. QED  BY <1>8 DEF UserDeletes, HandlerType, OwnType
<1>9. ASSUME NEW b \in Objects, UserWrites(b)
      PROVE  HandlerType' /\ StoreType' /\ OwnType'
  <2>. StoreType'
    BY <1>9, StoredType DEF UserWrites, WriteBy
  <2>. QED  BY <1>9 DEF UserWrites, WriteBy, HandlerType, OwnType
<1>10. ASSUME BackupSync \/ BackupSyncSkips \/ SyncEnds
       PROVE  HandlerType' /\ StoreType' /\ OwnType'
  BY <1>10 DEF BackupSync, BackupSyncSkips, SyncEnds, Expired, Listed,
                HandlerType, StoreType, OwnType
<1>11. ASSUME CreateNewBackup
       PROVE  HandlerType' /\ StoreType' /\ OwnType'
  <2>1. PICK b \in Objects : /\ WriteBy(b, [Absent EXCEPT !.there = TRUE])
                            /\ age' = [age EXCEPT ![b] = 0]
                            /\ files' = files \ {b} /\ gaveUp' = gaveUp \ {b}
    BY <1>11, Zenon DEF CreateNewBackup
  <2>2. [Absent EXCEPT !.there = TRUE] \in ObjectType
    BY AbsentType, MadeType, Zenon
  <2>3. StoreType'
    BY <1>11, <2>1, <2>2, StoredType DEF WriteBy, CreateNewBackup
  <2>. QED  BY <1>11, <2>1, <2>3, OldestType DEF CreateNewBackup, WriteBy, HandlerType, OwnType
<1>12. ASSUME RotateExpired
       PROVE  HandlerType' /\ StoreType' /\ OwnType'
  <2>1. PICK b \in rotating :
          IF obj[b].there
          THEN DeleteBy(b) /\ rotating' = rotating \ {b} /\ UNCHANGED sched
          ELSE rotating' = {} /\ sched' = "wait" /\ UNCHANGED <<obj, old, conflict>>
    BY <1>12 DEF RotateExpired
  <2>2. b \in Objects /\ UNCHANGED <<cache, mine, queue, pc, tries, age, files, gaveUp>>
    BY <1>12 DEF RotateExpired, OwnType
  <2>3. StoreType' /\ conflict' \subseteq Objects
    <3>1. CASE obj[b].there
      BY <2>1, <2>2, <3>1, DeletedType DEF HandlerType
    <3>2. CASE ~obj[b].there
      BY <2>1, <2>2, <3>2 DEF StoreType, HandlerType
    <3>. QED  BY <3>1, <3>2
  <2>. QED  BY <2>1, <2>2, <2>3 DEF HandlerType, OwnType
<1>13. ASSUME Tick
       PROVE  HandlerType' /\ StoreType' /\ OwnType'
  BY <1>13, OldestType DEF Tick, HandlerType, StoreType, OwnType
<1>14. ASSUME Restart
       PROVE  HandlerType' /\ StoreType' /\ OwnType'
  BY <1>14, AbsentType DEF Restart, LCRestart, HandlerType, StoreType, OwnType, Labels
<1>15. CASE UNCHANGED vars
  BY <1>15 DEF vars, HandlerType, StoreType, OwnType
<1>. QED
  BY <1>1, <1>2, <1>3, <1>4, <1>5, <1>6, <1>7, <1>8, <1>9, <1>10, <1>11, <1>12, <1>13,
     <1>14, <1>15 DEF Next, Handler, Scheduler

-----------------------------------------------------------------------------
(* The inductive invariant *)

\* What is not old is current: the cache, and the handler's copy, except for the
\* result that it is about to store.
Current(b) ==
  /\ b \notin old => cache[b] = obj[b]
  /\ pc[b] \notin {"idle", "saved"} /\ b \notin conflict => mine[b] = obj[b]
  /\ pc[b] = "saved" /\ b \notin conflict => mine[b] = [obj[b] EXCEPT !.data = mine[b].data]
  /\ pc[b] # "idle" => mine[b].there
  /\ pc[b] = "save" => mine[b].data.created
  /\ pc[b] \in {"save", "saved"} /\ b \notin conflict => ~Finished(obj[b])

\* A finalizer stays until the handler removes it, which it does only for an object
\* that is being deleted; so does the cache's copy say, if there still is one.
Finalizer(b) ==
  /\ pc[b] \in {"create", "save", "saved", "setInitialized"} => obj[b].there /\ obj[b].fin
  /\ cache[b].there /\ cache[b].fin /\ ~cache[b].deleting => obj[b].there /\ obj[b].fin
  /\ cache[b].there /\ cache[b].deleting => ~obj[b].there \/ obj[b].deleting
  /\ pc[b] \in {"finalize", "removeFinalizer"} =>
       /\ cache[b].there => cache[b].deleting
       /\ obj[b].there => obj[b].deleting

\* The snapshot of a backup without a finalizer has been removed.
Snapshot(b) ==
  /\ b \in files /\ b \notin gaveUp => obj[b].there /\ obj[b].fin
  /\ pc[b] = "removeFinalizer" => b \notin files \/ b \in gaveUp

Good(b) == Current(b) /\ Finalizer(b) /\ (S3 => Snapshot(b))

Inv == TypeOK /\ \A b \in Objects : Good(b)

\* A step that leaves everything about a backup alone.
Untouched(c) ==
  /\ obj'[c] = obj[c] /\ cache'[c] = cache[c] /\ mine'[c] = mine[c] /\ pc'[c] = pc[c]
  /\ c \in old' <=> c \in old
  /\ c \in conflict' <=> c \in conflict
  /\ c \in files' <=> c \in files
  /\ c \in gaveUp' <=> c \in gaveUp

\* A backup that a step does not touch stays as good as it was.
LEMMA Elsewhere ==
  ASSUME NEW c \in Objects, Good(c), Untouched(c)
  PROVE  Good(c)'
  BY DEF Good, Current, Finalizer, Snapshot, Untouched, Finished

\* Deletions and writes by others than the handler.
LEMMA WriteKeeps ==
  ASSUME TypeOK, NEW b \in Objects, Good(b), obj[b].there,
         DeleteBy(b) \/ WriteBy(b, obj[b]), UNCHANGED <<cache, mine, pc, files, gaveUp>>
  PROVE  Good(b)' /\ \A c \in Objects \ {b} : Untouched(c)
<1>. obj \in [Objects -> ObjectType] /\ obj[b] \in ObjectType
  BY DEF TypeOK, LCTypeOK
<1>. \A c \in Objects \ {b} : Untouched(c)
  BY DEF DeleteBy, WriteBy, Store, Untouched
<1>1. CASE obj'[b] = obj[b] /\ old \subseteq old' /\ conflict \subseteq conflict'
  BY <1>1 DEF Good, Current, Finalizer, Snapshot, Finished
<1>2. CASE obj[b].fin /\ obj'[b] = [obj[b] EXCEPT !.deleting = TRUE] /\ b \in old'
           /\ (pc[b] = "idle" \/ b \in conflict')
  <2>. obj'[b].there = obj[b].there /\ obj'[b].fin = obj[b].fin /\ obj'[b].deleting
    BY <1>2, Zenon DEF ObjectType
  <2>. QED  BY <1>2 DEF Good, Current, Finalizer, Snapshot
<1>3. CASE ~obj[b].fin /\ obj'[b] = Absent /\ b \in old' /\ (pc[b] = "idle" \/ b \in conflict')
  <2>. ~obj'[b].there
    BY <1>3 DEF Absent
  <2>. QED  BY <1>3 DEF Good, Current, Finalizer, Snapshot
<1>4. CASE obj[b].deleting /\ DeleteBy(b)
  BY <1>1, <1>4 DEF DeleteBy
<1>5. CASE WriteBy(b, obj[b])
  BY <1>1, <1>5 DEF WriteBy, Store
<1>6. CASE ~obj[b].deleting /\ DeleteBy(b)
  <2>1. CASE obj[b].fin
    BY <1>2, <1>6, <2>1 DEF DeleteBy, WriteBy, Store
  <2>2. CASE ~obj[b].fin
    BY <1>3, <1>6, <2>2 DEF DeleteBy, WriteBy, Store
  <2>. QED  BY <2>1, <2>2
<1>. QED
  BY <1>4, <1>5, <1>6

\* The handler stops: what it was doing does not matter any more.
LEMMA EndKeeps ==
  ASSUME TypeOK, NEW b \in Objects, Good(b), Ends(b), UNCHANGED <<obj, cache, old, files, gaveUp>>
  PROVE  Good(b)' /\ \A c \in Objects \ {b} : Untouched(c)
<1>. pc'[b] = "idle"
  BY DEF Ends, TypeOK
<1>1. Good(b)'
  BY DEF Good, Current, Finalizer, Snapshot
<1>. QED  BY <1>1 DEF Ends, Untouched, TypeOK, LCTypeOK

\* The adapter's steps.
LEMMA AdapterKeeps ==
  ASSUME TypeOK, NEW b \in Objects, Good(b), Adapter(b)
  PROVE  Good(b)' /\ \A c \in Objects \ {b} : Untouched(c)
<1>. /\ obj \in [Objects -> ObjectType] /\ mine \in [Objects -> ObjectType]
     /\ cache \in [Objects -> ObjectType] /\ pc \in [Objects -> Labels]
  BY DEF TypeOK, LCTypeOK, Labels
<1>. obj[b] \in ObjectType /\ mine[b] \in ObjectType /\ cache[b] \in ObjectType
  OBVIOUS
<1>. UNCHANGED <<files, gaveUp>>
  BY DEF Adapter, ebVars
<1>. USE DEF Good, Current, Finalizer, Snapshot, Untouched, Finished
<1>1. CASE Sync(b)
  <2>. UNCHANGED <<obj, cache, old>>
    BY <1>1 DEF Sync
  <2>1. CASE FirstStep(cache[b]) = "idle"
    BY <1>1, <2>1 DEF Sync
  <2>2. CASE FirstStep(cache[b]) # "idle"
    <3>1. pc'[b] = FirstStep(cache[b]) /\ mine'[b] = cache[b] /\ (b \in old => b \in conflict')
      BY <1>1, <2>2 DEF Sync
    <3>2. /\ cache[b].there
          /\ \/ pc'[b] = "finalize" /\ cache[b].deleting
             \/ pc'[b] = "create" /\ ~cache[b].deleting /\ cache[b].fin
             \/ pc'[b] = "addFinalizer" /\ ~cache[b].deleting
      BY <3>1, <2>2 DEF FirstStep
    <3>3. Good(b)'
      BY <3>1, <3>2
    <3>. QED  BY <1>1, <2>2, <3>3 DEF Sync
  <2>. QED  BY <2>1, <2>2
<1>2. CASE AddFinalizer(b)
  <2>1. mine[b] = obj[b] /\ obj[b].there
    BY <1>2 DEF AddFinalizer, Update
  <2>2. /\ obj'[b] = [mine[b] EXCEPT !.fin = TRUE] /\ mine'[b] = obj'[b]
        /\ pc'[b] = "create" /\ b \in old'
    BY <1>2 DEF AddFinalizer, Update, Store, Continue
  <2>3. obj'[b].there = obj[b].there /\ obj'[b].deleting = obj[b].deleting /\ obj'[b].fin
    BY <2>1, <2>2, Zenon DEF ObjectType
  <2>4. Good(b)'
    BY <1>2, <2>1, <2>2, <2>3 DEF AddFinalizer
  <2>. QED  BY <1>2, <2>4 DEF AddFinalizer, Update, Store, Continue
<1>3. CASE SetInitialized(b)
  <2>1. mine[b] = obj[b]
    BY <1>3 DEF SetInitialized, Update
  <2>2. obj'[b] = [mine[b] EXCEPT !.init = TRUE] /\ pc'[b] = "idle" /\ b \in old' /\ cache' = cache
    BY <1>3 DEF SetInitialized, Update, Store, Return, Ends
  <2>3. obj'[b].there = obj[b].there /\ obj'[b].deleting = obj[b].deleting /\ obj'[b].fin = obj[b].fin
    BY <2>1, <2>2 DEF ObjectType
  <2>4. Good(b)'
    BY <1>3, <2>1, <2>2, <2>3
  <2>. QED  BY <1>3, <2>4 DEF SetInitialized, Update, Store, Return, Ends
<1>4. CASE RemoveFinalizer(b)
  <2>1. ~obj'[b].there /\ pc'[b] = "idle" /\ b \in old' /\ cache' = cache
    BY <1>4 DEF RemoveFinalizer, Update, Store, Return, Ends, Absent
  <2>2. Good(b)'
    BY <1>4, <2>1 DEF RemoveFinalizer
  <2>. QED  BY <1>4, <2>2 DEF RemoveFinalizer, Update, Store, Return, Ends
<1>. QED
  BY <1>1, <1>2, <1>3, <1>4, Zenon DEF Adapter

\* An error, after which the finalizer may be removed from a new copy.
LEMMA FailsKeeps ==
  ASSUME TypeOK, NEW b \in Objects, Good(b), HandlerFails(b)
  PROVE  Good(b)' /\ \A c \in Objects \ {b} : Untouched(c)
<1>. /\ obj \in [Objects -> ObjectType] /\ mine \in [Objects -> ObjectType]
     /\ pc \in [Objects -> Labels]
  BY DEF TypeOK, LCTypeOK, Labels
<1>. UNCHANGED <<obj, cache, old, files, gaveUp>>
  BY DEF HandlerFails, Fails, RemoveFinalizerAgain
<1>1. CASE Fails(b)
  BY <1>1, EndKeeps DEF Fails, Retry
<1>2. CASE RemoveFinalizerAgain(b)
  <2>1. CASE obj[b].there /\ tries[b] < 2
    BY <1>2, <2>1 DEF RemoveFinalizerAgain, Continue, Good, Current, Finalizer, Snapshot,
                      Untouched, Finished
  <2>2. CASE ~(obj[b].there /\ tries[b] < 2)
    BY <1>2, <2>2, EndKeeps DEF RemoveFinalizerAgain, Retry
  <2>. QED  BY <2>1, <2>2, Zenon
<1>. QED  BY <1>1, <1>2 DEF HandlerFails

\* The steps of Create and Remove.
LEMMA HandlerKeeps ==
  ASSUME TypeOK, NEW b \in Objects, Good(b), Create(b) \/ Save(b) \/ Saved(b) \/ Remove(b)
  PROVE  Good(b)' /\ \A c \in Objects \ {b} : Untouched(c)
<1>. /\ obj \in [Objects -> ObjectType] /\ mine \in [Objects -> ObjectType]
     /\ cache \in [Objects -> ObjectType] /\ pc \in [Objects -> Labels]
  BY DEF TypeOK, LCTypeOK, Labels
<1>. obj[b] \in ObjectType /\ mine[b] \in ObjectType /\ cache[b] \in ObjectType
  OBVIOUS
<1>. USE DEF Good, Current, Finalizer, Snapshot, Untouched
<1>1. CASE Create(b)
  <2>. UNCHANGED <<cache, conflict, files, gaveUp>>
    BY <1>1 DEF Create, ebVars
  <2>1. CASE Finished(mine[b])
    BY <1>1, <2>1 DEF Create, Continue
  <2>2. CASE ~Finished(mine[b]) /\ mine[b].data.created
    BY <1>1, <2>2 DEF Create, Continue, Finished
  <2>3. CASE ~Finished(mine[b]) /\ ~mine[b].data.created
    <3>. DEFINE d == [created |-> TRUE, completed |-> "Unknown"]
    <3>1. mine[b] = obj[b] /\ obj[b].there /\ obj[b].fin
      BY <1>1, <2>3 DEF Create, Update
    <3>2. /\ obj'[b] = [mine[b] EXCEPT !.data = d] /\ mine'[b] = obj'[b]
          /\ pc'[b] = "save" /\ b \in old'
      BY <1>1, <2>3, ZenonT(30) DEF Create, Update, Store, Continue
    <3>3. /\ obj'[b].there = obj[b].there /\ obj'[b].deleting = obj[b].deleting
          /\ obj'[b].fin = obj[b].fin /\ obj'[b].data = d
      BY <3>1, <3>2, ZenonT(30) DEF ObjectType
    <3>4. ~Finished(obj'[b]) /\ mine'[b].data.created
      BY <3>2, <3>3 DEF Finished
    <3>5. Good(b)'
      BY <1>1, <3>1, <3>2, <3>3, <3>4 DEF Finished
    <3>. QED  BY <1>1, <2>3, <3>5, Zenon DEF Create, Update, Store, Continue
  <2>. QED  BY <2>1, <2>2, <2>3, Zenon
<1>2. CASE Save(b)
  <2>. UNCHANGED <<obj, cache, old, conflict>> /\ pc[b] = "save"
    BY <1>2 DEF Save
  <2>1. PICK r \in {"True", "False"} : mine'[b] = [mine[b] EXCEPT !.data.completed = r]
    BY <1>2 DEF Save, Continue
  <2>2. pc'[b] = "saved" /\ files \subseteq files' /\ files' \subseteq files \cup {b} /\ gaveUp' = gaveUp
    BY <1>2 DEF Save, Continue
  <2>3. mine'[b] = [mine[b] EXCEPT !.data = mine'[b].data]
    BY <2>1 DEF ObjectType
  <2>4. mine'[b].there = mine[b].there
    BY <2>1 DEF ObjectType
  <2>5. Good(b)'
    BY <2>2, <2>3, <2>4 DEF Finished
  <2>. QED  BY <1>2, <2>2, <2>5, Zenon DEF Save, Continue
<1>3. CASE Saved(b)
  <2>. UNCHANGED <<cache, files, gaveUp>> /\ pc[b] = "saved" /\ b \notin conflict
    BY <1>3 DEF Saved, Update
  <2>1. obj'[b] = mine[b] /\ b \in old'
    BY <1>3 DEF Saved, Update, Store
  <2>2. obj'[b].there = obj[b].there /\ obj'[b].deleting = obj[b].deleting /\ obj'[b].fin = obj[b].fin
    BY <2>1 DEF ObjectType
  <2>3. \/ pc'[b] = "idle"
        \/ pc'[b] = "setInitialized" /\ mine'[b] = mine[b]
    BY <1>3 DEF Saved, Continue, Retry, Ends
  <2>4. Good(b)'
    BY <2>1, <2>2, <2>3 DEF Finished
  <2>. QED  BY <1>3, <2>4 DEF Saved, Update, Store, Continue, Retry, Ends
<1>4. CASE Remove(b)
  <2>1. UNCHANGED <<obj, cache, old, conflict>> /\ pc[b] = "finalize"
        /\ pc'[b] = "removeFinalizer" /\ mine'[b] = mine[b]
    BY <1>4 DEF Remove, Continue
  <2>2. \/ files' = (IF S3 THEN files \ {b} ELSE files) /\ gaveUp' = gaveUp
        \/ files' = files /\ gaveUp' = gaveUp \cup {b}
    BY <1>4 DEF Remove
  <2>3. Good(b)'
    BY <2>1, <2>2
  <2>. QED  BY <1>4, <2>2, <2>3 DEF Remove, Continue
<1>. QED
  BY <1>1, <1>2, <1>3, <1>4, Zenon

\* Each step keeps the invariant.
LEMMA InvStep == Inv /\ [Next]_vars => Inv'
<1>. SUFFICES ASSUME Inv, [Next]_vars PROVE Inv'
  OBVIOUS
<1>. TypeOK /\ \A b \in Objects : Good(b)
  BY DEF Inv
<1>. TypeOK'
  BY TypeStep, Zenon DEF SaveIsCreated, Good, Current
<1>. SUFFICES \A c \in Objects : Good(c)'
  BY DEF Inv
<1>. USE DEF lcVars, ebVars
<1>1. ASSUME NEW b \in Objects, Handler(b)
      PROVE  \A c \in Objects : Good(c)'
  <2>1. Good(b)' /\ \A c \in Objects \ {b} : Untouched(c)
    BY <1>1, AdapterKeeps, HandlerKeeps, FailsKeeps, Zenon DEF Handler
  <2>. QED  BY <2>1, Elsewhere
<1>2. ASSUME NEW b \in Objects, EventArrives(b)
      PROVE  \A c \in Objects : Good(c)'
  <2>1. cache'[b] = obj[b] /\ UNCHANGED <<obj, mine, conflict, pc, files, gaveUp>>
    BY <1>2 DEF EventArrives, Informer, TypeOK, LCTypeOK
  <2>2. Good(b)'
    BY <2>1 DEF Good, Current, Finalizer, Snapshot, Finished
  <2>3. \A c \in Objects \ {b} : Untouched(c)
    BY <1>2 DEF EventArrives, Informer, TypeOK, LCTypeOK, Untouched
  <2>. QED  BY <2>2, <2>3, Elsewhere
<1>3. ASSUME NEW b \in Objects, UserDeletes(b) \/ UserWrites(b)
      PROVE  \A c \in Objects : Good(c)'
  <2>1. Good(b)' /\ \A c \in Objects \ {b} : Untouched(c)
    BY <1>3, WriteKeeps DEF UserDeletes, UserWrites
  <2>. QED  BY <2>1, Elsewhere
<1>4. ASSUME UNCHANGED <<lcVars, files, gaveUp>>
      PROVE  \A c \in Objects : Good(c)'
  BY <1>4, Elsewhere DEF Untouched
<1>5. CASE BackupSync \/ BackupSyncSkips \/ SyncEnds \/ Tick
  BY <1>4, <1>5, Zenon DEF BackupSync, BackupSyncSkips, SyncEnds, Tick
<1>6. CASE CreateNewBackup
  <2>1. PICK b \in Objects : /\ Unused(b)
                            /\ WriteBy(b, [Absent EXCEPT !.there = TRUE])
                            /\ files' = files \ {b} /\ gaveUp' = gaveUp \ {b}
    BY <1>6, Zenon DEF CreateNewBackup
  <2>2. UNCHANGED <<cache, mine, pc>>
    BY <1>6 DEF CreateNewBackup
  <2>3. ~cache[b].there /\ pc[b] = "idle" /\ b \in old'
    BY <2>1 DEF Unused, WriteBy, Store
  <2>4. Good(b)'
    BY <2>1, <2>2, <2>3 DEF Good, Current, Finalizer, Snapshot
  <2>5. \A c \in Objects \ {b} : Untouched(c)
    BY <2>1, <2>2 DEF WriteBy, Store, TypeOK, LCTypeOK, Untouched
  <2>. QED  BY <2>4, <2>5, Elsewhere
<1>7. CASE RotateExpired
  <2>1. PICK b \in rotating :
          \/ obj[b].there /\ DeleteBy(b)
          \/ UNCHANGED <<obj, old, conflict>>
    BY <1>7 DEF RotateExpired
  <2>2. b \in Objects /\ UNCHANGED <<cache, mine, queue, pc, tries, files, gaveUp>>
    BY <1>7 DEF RotateExpired, TypeOK
  <2>3. CASE obj[b].there /\ DeleteBy(b)
    <3>1. Good(b)' /\ \A c \in Objects \ {b} : Untouched(c)
      BY <2>2, <2>3, WriteKeeps
    <3>. QED  BY <2>2, <3>1, Elsewhere
  <2>4. CASE UNCHANGED <<obj, old, conflict>>
    BY <1>4, <2>2, <2>4
  <2>. QED  BY <2>1, <2>3, <2>4
<1>8. CASE Restart
  <2>1. ASSUME NEW c \in Objects PROVE Good(c)'
    <3>. /\ cache' = obj /\ obj' = obj /\ pc'[c] = "idle"
         /\ UNCHANGED <<files, gaveUp>>
      BY <1>8 DEF Restart, LCRestart
    <3>. QED  BY Zenon DEF Good, Current, Finalizer, Snapshot
  <2>. QED  BY <2>1
<1>9. CASE UNCHANGED vars
  BY <1>4, <1>9 DEF vars
<1>. QED
  BY <1>1, <1>2, <1>3, <1>5, <1>6, <1>7, <1>8, <1>9 DEF Next, Scheduler

\* The invariant holds at the start.
LEMMA InvInit == Init => Inv
<1>. SUFFICES ASSUME Init PROVE Inv
  OBVIOUS
<1>1. TypeOK
  BY AbsentType, OldestType DEF Init, LCInit, TypeOK, LCTypeOK
<1>2. ASSUME NEW b \in Objects PROVE Good(b)
  <2>1. cache[b] = obj[b] /\ pc[b] = "idle" /\ b \notin files
    BY DEF Init, LCInit
  <2>. QED  BY <2>1 DEF Good, Current, Finalizer, Snapshot
<1>. QED  BY <1>1, <1>2 DEF Inv

\* The invariant always holds.
LEMMA Invariance == Spec => []Inv
<1>. QED  BY InvInit, InvStep, PTL DEF Spec

\* The state of the backups, the lifecycle adapter and the scheduler keeps its types.
THEOREM TypeCorrect == Spec => []TypeOK
<1>1. Inv => TypeOK
  BY DEF Inv
<1>. QED  BY <1>1, Invariance, PTL

\* With S3, a backup that is gone has left no snapshot behind unless Remove had to
\* give up, whenever it was deleted, for any number of backups, conflicts, failed
\* calls and restarts.
THEOREM NoOrphans ==
  ASSUME S3
  PROVE  Spec => []NoOrphanSnapshot
<1>1. Inv => NoOrphanSnapshot
  BY DEF Inv, Good, Snapshot, NoOrphanSnapshot, TypeOK
<1>. QED  BY <1>1, Invariance, PTL

Kept(b) ==
  obj[b].there /\ obj'[b].there /\ Finished(obj[b]) => obj'[b].data = obj[b].data

\* The result of a backup, successful or not, is never replaced: the handler stores
\* one only with a copy that is current and has none.
THEOREM FinalResults == Spec => ResultIsFinal
<1>1. ASSUME Inv, [Next]_vars PROVE \A b \in Objects : Kept(b)
  <2>. TypeOK /\ \A b \in Objects : Good(b)
    BY <1>1 DEF Inv
  <2>. /\ \A c \in Objects : obj[c] \in ObjectType /\ mine[c] \in ObjectType
       /\ obj \in [Objects -> ObjectType]
    BY DEF TypeOK, LCTypeOK
  <2>. USE DEF Kept, lcVars, ebVars
  <2>1. ASSUME NEW b \in Objects, obj'[b].data = obj[b].data \/ ~obj'[b].there \/ ~Finished(obj[b]),
               \A c \in Objects \ {b} : obj'[c] = obj[c]
        PROVE  \A c \in Objects : Kept(c)
    BY <2>1
  <2>2. ASSUME UNCHANGED obj PROVE \A c \in Objects : Kept(c)
    BY <2>2
  <2>3. ASSUME NEW b \in Objects, DeleteBy(b) PROVE \A c \in Objects : Kept(c)
    <3>1. obj'[b].data = obj[b].data \/ ~obj'[b].there
      BY <2>3 DEF DeleteBy, WriteBy, Store, Absent, ObjectType
    <3>2. \A c \in Objects \ {b} : obj'[c] = obj[c]
      BY <2>3 DEF DeleteBy, WriteBy, Store
    <3>. QED  BY <2>1, <3>1, <3>2
  <2>4. ASSUME NEW b \in Objects, Adapter(b) PROVE \A c \in Objects : Kept(c)
    <3>1. CASE AddFinalizer(b) \/ SetInitialized(b)
      <4>1. mine[b] = obj[b] /\ \A c \in Objects \ {b} : obj'[c] = obj[c]
        BY <3>1, Zenon DEF AddFinalizer, SetInitialized, Update, Store, Good, Current
      <4>2. obj'[b].data = obj[b].data
        BY <3>1, <4>1 DEF AddFinalizer, SetInitialized, Update, Store, ObjectType
      <4>. QED  BY <2>1, <4>1, <4>2, Zenon
    <3>2. CASE RemoveFinalizer(b)
      <4>1. ~obj'[b].there /\ \A c \in Objects \ {b} : obj'[c] = obj[c]
        BY <3>2 DEF RemoveFinalizer, Update, Store, Absent
      <4>. QED  BY <2>1, <4>1
    <3>. QED  BY <2>2, <2>4, <3>1, <3>2, Zenon DEF Adapter, Sync
  <2>5. ASSUME NEW b \in Objects, Create(b) \/ Saved(b) PROVE \A c \in Objects : Kept(c)
    <3>1. obj' = obj \/ ~Finished(obj[b])
      BY <2>5, Zenon DEF Create, Saved, Update, Good, Current
    <3>2. \A c \in Objects \ {b} : obj'[c] = obj[c]
      BY <2>5 DEF Create, Saved, Update, Store
    <3>. QED  BY <2>1, <3>1, <3>2
  <2>6. ASSUME NEW b \in Objects, UserWrites(b) PROVE \A c \in Objects : Kept(c)
    BY <2>2, <2>6 DEF UserWrites, WriteBy, Store
  <2>7. ASSUME CreateNewBackup PROVE \A c \in Objects : Kept(c)
    <3>1. PICK b \in Objects : Unused(b) /\ WriteBy(b, [Absent EXCEPT !.there = TRUE])
      BY <2>7 DEF CreateNewBackup
    <3>2. ~obj[b].there /\ \A c \in Objects \ {b} : obj'[c] = obj[c]
      BY <3>1 DEF Unused, WriteBy, Store
    <3>. QED  BY <3>2
  <2>8. ASSUME RotateExpired PROVE \A c \in Objects : Kept(c)
    BY <2>2, <2>3, <2>8 DEF RotateExpired, TypeOK
  <2>9. ASSUME NEW b \in Objects, Handler(b) PROVE \A c \in Objects : Kept(c)
    BY <2>2, <2>4, <2>5, <2>9
        DEF Handler, Save, Remove, HandlerFails, Fails, RemoveFinalizerAgain
  <2>10. ASSUME NEW b \in Objects, EventArrives(b) \/ UserDeletes(b)
         PROVE  \A c \in Objects : Kept(c)
    BY <2>2, <2>3, <2>10 DEF EventArrives, Informer, UserDeletes
  <2>11. CASE BackupSync \/ BackupSyncSkips \/ SyncEnds \/ Tick \/ Restart \/ UNCHANGED vars
    BY <2>2, <2>11, Zenon DEF BackupSync, BackupSyncSkips, SyncEnds, Tick, Restart, LCRestart, vars
  <2>. QED
    BY <1>1, <2>6, <2>7, <2>8, <2>9, <2>10, <2>11, Zenon DEF Next, Scheduler
<1>. QED  BY <1>1, Invariance, PTL DEF Spec, ResultIsFinal, Kept
-----------------------------------------------------------------------------
(* The rotation *)

\* A backup has its finalizer while it is being deleted, and its result before it counts
\* as initialized.  One that has no result yet is on its way: its handler is active, or
\* an event or a key in the queue will call it.
Pending(b) ==
  /\ obj[b].there /\ obj[b].deleting => obj[b].fin
  /\ obj[b].there /\ obj[b].init => Finished(obj[b])
  /\ pc[b] \in {"saved", "setInitialized"} => Finished(mine[b])
  /\ obj[b].there /\ ~Finished(obj[b]) => b \in old \/ b \in queue \/ pc[b] # "idle"

\* Nothing but the scheduler and time changes this for a backup with a result.
Stays(b) ==
  /\ obj'[b].there => obj[b].there
  /\ obj'[b].there /\ Finished(obj[b]) => Finished(obj'[b]) /\ age'[b] = age[b]
  /\ cache'[b] \in {cache[b], obj[b]}

\* A step that leaves the backup's state and its place in the queue alone.
Aside(c) ==
  /\ obj'[c] = obj[c] /\ mine'[c] = mine[c] /\ pc'[c] = pc[c] /\ cache'[c] = cache[c]
  /\ c \in old => c \in old'
  /\ c \in queue => c \in queue'

LEMMA AsidePending ==
  ASSUME NEW c \in Objects, Pending(c), Aside(c)
  PROVE  Pending(c)'
  BY Zenon DEF Pending, Aside, Finished

\* Deletions and writes by others.
LEMMA WritePending ==
  ASSUME TypeOK, NEW b \in Objects, Pending(b), obj[b].there,
         DeleteBy(b) \/ WriteBy(b, obj[b]), UNCHANGED <<cache, mine, pc, queue, age>>
  PROVE  /\ Pending(b)' /\ Stays(b)
         /\ \A c \in Objects \ {b} : Aside(c)
<1>1. obj \in [Objects -> ObjectType] /\ obj[b] \in ObjectType
  BY Zenon DEF TypeOK, LCTypeOK
<1>2. \A c \in Objects \ {b} : Aside(c)
  BY <1>1, Zenon DEF DeleteBy, WriteBy, Store, Aside
<1>3. CASE obj'[b] = obj[b] /\ old \subseteq old'
  BY <1>2, <1>3, Zenon DEF Pending, Stays, Finished
<1>4. CASE obj[b].fin /\ obj'[b] = [obj[b] EXCEPT !.deleting = TRUE] /\ b \in old'
  <2>1. /\ obj'[b].there = obj[b].there /\ obj'[b].fin = obj[b].fin
        /\ obj'[b].init = obj[b].init /\ obj'[b].data = obj[b].data
    BY <1>1, <1>4, Zenon DEF ObjectType
  <2> QED BY <1>2, <1>4, <2>1, Zenon DEF Pending, Stays, Finished
<1>5. CASE obj'[b] = Absent
  <2>1. ~obj'[b].there
    BY <1>5 DEF Absent
  <2> QED BY <1>2, <2>1, Zenon DEF Pending, Stays
<1>6. CASE WriteBy(b, obj[b])
  <2>1. obj' = [obj EXCEPT ![b] = obj[b]] /\ old \subseteq old'
    BY <1>6, Zenon DEF WriteBy, Store
  <2>2. obj'[b] = obj[b]
    BY <1>1, <2>1, Zenon
  <2> QED BY <1>3, <2>1, <2>2, Zenon
<1>7. CASE DeleteBy(b) /\ obj[b].deleting
  BY <1>3, <1>7, Zenon DEF DeleteBy
<1>8. CASE DeleteBy(b) /\ ~obj[b].deleting
  <2>1. obj'[b] = (IF obj[b].fin THEN [obj[b] EXCEPT !.deleting = TRUE] ELSE Absent) /\ b \in old'
    BY <1>1, <1>8, Zenon DEF DeleteBy, WriteBy, Store
  <2> QED BY <1>4, <1>5, <2>1, Zenon
<1> QED BY <1>6, <1>7, <1>8, Zenon

\* The handler's copy and the stored backup, while it is current.
Fresh(b) == b \notin conflict /\ pc[b] # "idle" =>
  /\ obj[b].there = mine[b].there /\ obj[b].deleting = mine[b].deleting
  /\ obj[b].fin = mine[b].fin /\ obj[b].init = mine[b].init
  /\ pc[b] # "saved" => mine[b] = obj[b]

LEMMA FreshCopy ==
  ASSUME TypeOK, NEW b \in Objects, Good(b)
  PROVE  Fresh(b) /\ obj[b] \in ObjectType /\ mine[b] \in ObjectType
<1>1. obj[b] \in ObjectType /\ mine[b] \in ObjectType
  BY Zenon DEF TypeOK, LCTypeOK
<1>2. CASE pc[b] = "saved" /\ b \notin conflict
  <2>1. mine[b] = [obj[b] EXCEPT !.data = mine[b].data]
    BY <1>2, Zenon DEF Good, Current
  <2>2. /\ [obj[b] EXCEPT !.data = mine[b].data].there = obj[b].there
        /\ [obj[b] EXCEPT !.data = mine[b].data].deleting = obj[b].deleting
        /\ [obj[b] EXCEPT !.data = mine[b].data].fin = obj[b].fin
        /\ [obj[b] EXCEPT !.data = mine[b].data].init = obj[b].init
    BY <1>1, Zenon DEF ObjectType
  <2> QED BY <1>1, <1>2, <2>1, <2>2, Zenon DEF Fresh
<1>3. CASE ~(pc[b] = "saved" /\ b \notin conflict)
  BY <1>1, <1>3, Zenon DEF Fresh, Good, Current
<1> QED BY <1>2, <1>3, Zenon

\* The steps of the adapter, ...
LEMMA AdapterPending ==
  ASSUME TypeOK, NEW b \in Objects, Good(b), Pending(b), Adapter(b)
  PROVE  /\ Pending(b)' /\ Stays(b)
         /\ \A c \in Objects \ {b} : Aside(c)
<1>0. Fresh(b) /\ obj[b] \in ObjectType /\ mine[b] \in ObjectType
  BY FreshCopy, Zenon
<1>t. /\ obj \in [Objects -> ObjectType] /\ mine \in [Objects -> ObjectType]
      /\ cache \in [Objects -> ObjectType] /\ DOMAIN pc = Objects
  BY DEF TypeOK, LCTypeOK
<1>a. age' = age
  BY Zenon DEF Adapter, ebVars
<1>1. CASE Sync(b)
  <2>1. UNCHANGED <<obj, cache, old>> /\ queue' = queue \ {b}
    BY <1>1, Zenon DEF Sync
  <2>2. pc'[b] = FirstStep(cache[b]) /\ \A c \in Objects \ {b} : pc'[c] = pc[c] /\ mine'[c] = mine[c]
    BY <1>1, <1>t, Zenon DEF Sync
  <2>3. b \notin old => cache[b] = obj[b]
    BY Zenon DEF Good, Current
  <2>4. FirstStep(cache[b]) = "idle" => b \in old \/ ~obj[b].there \/ Finished(obj[b])
    BY <2>3, Zenon DEF FirstStep, Pending
  <2>5. FirstStep(cache[b]) \notin {"saved", "setInitialized"}
    BY DEF FirstStep
  <2>6. Pending(b)'
    BY <2>1, <2>2, <2>4, <2>5, Zenon DEF Pending, Finished
  <2> QED BY <1>a, <2>1, <2>2, <2>6, Zenon DEF Stays, Aside, Finished
<1>2. CASE AddFinalizer(b)
  <2>1. /\ obj' = [obj EXCEPT ![b] = [mine[b] EXCEPT !.fin = TRUE]] /\ old' = old \cup {b}
        /\ mine' = [mine EXCEPT ![b] = [mine[b] EXCEPT !.fin = TRUE]]
        /\ pc' = [pc EXCEPT ![b] = "create"] /\ UNCHANGED <<cache, queue>>
    BY <1>2, Zenon DEF AddFinalizer, Update, Store, Continue
  <2>2. mine[b] = obj[b] /\ obj[b].there
    BY <1>0, <1>2, Zenon DEF AddFinalizer, Update, Fresh, Good, Current
  <2>3. obj'[b] = [mine[b] EXCEPT !.fin = TRUE] /\ pc'[b] = "create"
    BY <1>t, <2>1, Zenon
  <2>4. /\ obj'[b].fin /\ obj'[b].there = obj[b].there /\ obj'[b].init = obj[b].init
        /\ obj'[b].data = obj[b].data
    BY <1>0, <2>2, <2>3, Zenon DEF ObjectType
  <2>5. Pending(b)' /\ Stays(b)
    BY <1>a, <2>1, <2>2, <2>3, <2>4, Zenon DEF Pending, Stays, Finished
  <2>6. \A c \in Objects \ {b} : Aside(c)
    BY <1>t, <2>1, Zenon DEF Aside
  <2> QED BY <2>5, <2>6, Zenon
<1>3. CASE SetInitialized(b)
  <2>1. /\ obj' = [obj EXCEPT ![b] = [mine[b] EXCEPT !.init = TRUE]] /\ old' = old \cup {b}
        /\ mine' = [mine EXCEPT ![b] = Absent]
        /\ pc' = [pc EXCEPT ![b] = "idle"] /\ UNCHANGED <<cache, queue>>
    BY <1>3, Zenon DEF SetInitialized, Update, Store, Return, Ends
  <2>2. mine[b] = obj[b] /\ obj[b].there /\ Finished(obj[b])
    BY <1>0, <1>3, Zenon DEF SetInitialized, Update, Fresh, Good, Current, Pending
  <2>3. obj'[b] = [mine[b] EXCEPT !.init = TRUE] /\ pc'[b] = "idle"
    BY <1>t, <2>1, Zenon
  <2>4. /\ obj'[b].deleting = obj[b].deleting /\ obj'[b].there = obj[b].there
        /\ obj'[b].fin = obj[b].fin /\ obj'[b].data = obj[b].data
    BY <1>0, <2>2, <2>3, Zenon DEF ObjectType
  <2>5. Pending(b)' /\ Stays(b)
    BY <1>a, <2>1, <2>2, <2>3, <2>4, Zenon DEF Pending, Stays, Finished
  <2>6. \A c \in Objects \ {b} : Aside(c)
    BY <1>t, <2>1, Zenon DEF Aside
  <2> QED BY <2>5, <2>6, Zenon
<1>4. CASE RemoveFinalizer(b)
  <2>1. /\ obj' = [obj EXCEPT ![b] = Absent] /\ old' = old \cup {b}
        /\ mine' = [mine EXCEPT ![b] = Absent]
        /\ pc' = [pc EXCEPT ![b] = "idle"] /\ UNCHANGED <<cache, queue>>
    BY <1>4, Zenon DEF RemoveFinalizer, Update, Store, Return, Ends
  <2>2. ~obj'[b].there /\ pc'[b] = "idle"
    BY <1>t, <2>1, Zenon DEF Absent
  <2>3. Pending(b)' /\ Stays(b)
    BY <2>1, <2>2, Zenon DEF Pending, Stays
  <2>4. \A c \in Objects \ {b} : Aside(c)
    BY <1>t, <2>1, Zenon DEF Aside
  <2> QED BY <2>3, <2>4, Zenon
<1> QED BY <1>1, <1>2, <1>3, <1>4, Zenon DEF Adapter

\* ... those of Create and Remove, ...
LEMMA HandlerPending ==
  ASSUME TypeOK, NEW b \in Objects, Good(b), Pending(b),
         Create(b) \/ Save(b) \/ Saved(b) \/ Remove(b) \/ HandlerFails(b)
  PROVE  /\ Pending(b)' /\ Stays(b)
         /\ \A c \in Objects \ {b} : Aside(c) /\ age'[c] = age[c]
<1>0. Fresh(b) /\ obj[b] \in ObjectType /\ mine[b] \in ObjectType
  BY FreshCopy, Zenon
<1>t. /\ obj \in [Objects -> ObjectType] /\ mine \in [Objects -> ObjectType]
      /\ DOMAIN pc = Objects /\ DOMAIN age = Objects
  BY DEF TypeOK, LCTypeOK
<1>1. CASE Create(b)
  <2>1. UNCHANGED <<cache, queue, age>>
    BY <1>1, Zenon DEF Create, Continue, ebVars
  <2>2. CASE Finished(mine[b])
    <3>1. UNCHANGED <<obj, old, mine>> /\ pc' = [pc EXCEPT ![b] = "setInitialized"]
      <4>1. UNCHANGED <<obj, old>> /\ Continue(b, "setInitialized", mine[b])
        BY <1>1, <2>2, Zenon DEF Create
      <4> QED BY <1>t, <4>1 DEF Continue
    <3>2. pc'[b] = "setInitialized" /\ \A c \in Objects \ {b} : pc'[c] = pc[c]
      BY <1>t, <3>1, Zenon
    <3> QED BY <2>1, <2>2, <3>1, <3>2, Zenon DEF Pending, Stays, Aside, Finished
  <2>3. CASE ~Finished(mine[b]) /\ mine[b].data.created
    <3>1. UNCHANGED <<obj, old, mine>> /\ pc' = [pc EXCEPT ![b] = "save"]
      <4>1. UNCHANGED <<obj, old>> /\ Continue(b, "save", mine[b])
        BY <1>1, <2>3, Zenon DEF Create
      <4> QED BY <1>t, <4>1 DEF Continue
    <3>2. pc'[b] = "save" /\ \A c \in Objects \ {b} : pc'[c] = pc[c]
      BY <1>t, <3>1, Zenon
    <3> QED BY <2>1, <3>1, <3>2, Zenon DEF Pending, Stays, Aside, Finished
  <2>4. CASE ~Finished(mine[b]) /\ ~mine[b].data.created
    <3> DEFINE d == [created |-> TRUE, completed |-> "Unknown"]
    <3> DEFINE new == [mine[b] EXCEPT !.data = d]
    <3>1. Update(b, new) /\ Continue(b, "save", new) /\ pc[b] = "create"
      BY <1>1, <2>4, Zenon DEF Create
    <3>2. mine[b] = obj[b] /\ obj[b].there
      BY <1>0, <3>1, Zenon DEF Update, Fresh, Good, Current
    <3>3. /\ new.there = obj[b].there /\ new.deleting = obj[b].deleting
          /\ new.fin = obj[b].fin /\ new.init = obj[b].init
      BY <1>0, <3>2, Zenon DEF ObjectType
    <3> HIDE DEF new
    <3>4. /\ obj'[b] = new /\ old' = old \cup {b} /\ pc'[b] = "save"
          /\ \A c \in Objects \ {b} : obj'[c] = obj[c] /\ mine'[c] = mine[c] /\ pc'[c] = pc[c]
      BY <1>t, <3>1, Zenon DEF Update, Store, Continue
    <3> QED BY <2>1, <2>4, <3>2, <3>3, <3>4, Zenon DEF Pending, Stays, Aside
  <2> QED BY <2>2, <2>3, <2>4, Zenon
<1>2. CASE Save(b)
  <2>1. UNCHANGED <<obj, cache, old, queue, age>>
    BY <1>2, Zenon DEF Save, Continue
  <2>2. PICK r \in {"True", "False"} : Continue(b, "saved", [mine[b] EXCEPT !.data.completed = r])
    BY <1>2, Zenon DEF Save
  <2>3. /\ pc'[b] = "saved" /\ mine'[b] = [mine[b] EXCEPT !.data.completed = r]
        /\ \A c \in Objects \ {b} : pc'[c] = pc[c] /\ mine'[c] = mine[c]
    BY <1>t, <2>2, Zenon DEF Continue
  <2>4. mine[b].data.created
    BY <1>2, Zenon DEF Save, Good, Current
  <2>5. Finished(mine'[b])
    <3>1. mine[b].data \in [created : {TRUE}, completed : {"Unknown", "True", "False"}]
      <4>1. ~NewBackup.created
        BY DEF NewBackup
      <4>2. mine[b].data \in BackupData
        BY <1>0, Fields, Zenon
      <4> QED BY <2>4, <4>1, <4>2, Zenon DEF BackupData
    <3>2. mine'[b].data = [mine[b].data EXCEPT !.completed = r]
      <4>1. mine'[b] = [mine[b] EXCEPT !.data = [mine[b].data EXCEPT !.completed = r]]
        BY <2>3, Zenon
      <4> QED BY <1>0, <4>1, Zenon DEF ObjectType
    <3>3. mine'[b].data.completed = r
      BY <3>1, <3>2, Zenon
    <3> QED BY <3>3, Zenon DEF Finished
  <2> QED BY <2>1, <2>3, <2>5, Zenon DEF Pending, Stays, Aside, Finished
<1>3. CASE Saved(b)
  <2>1. /\ b \notin conflict /\ pc[b] = "saved" /\ cache' = cache /\ queue \subseteq queue'
        /\ obj' = [obj EXCEPT ![b] = mine[b]] /\ old' = old \cup {b} /\ age' = [age EXCEPT ![b] = 0]
    BY <1>3, Zenon DEF Saved, Update, Store, Continue, Retry, Ends
  <2>2. obj'[b] = mine[b] /\ \A c \in Objects \ {b} : obj'[c] = obj[c] /\ age'[c] = age[c]
    BY <1>t, <2>1, Zenon
  <2>3. /\ \A c \in Objects \ {b} : pc'[c] = pc[c] /\ mine'[c] = mine[c]
        /\ pc'[b] = "idle" \/ (pc'[b] = "setInitialized" /\ mine'[b] = mine[b])
    BY <1>3, <1>t, Zenon DEF Saved, Continue, Retry, Ends
  <2>4. Finished(mine[b]) /\ ~Finished(obj[b])
    BY <2>1, Zenon DEF Pending, Good, Current
  <2>5. Pending(b)' /\ Stays(b)
    BY <1>0, <2>1, <2>2, <2>3, <2>4, Zenon DEF Pending, Stays, Fresh, Finished
  <2>6. \A c \in Objects \ {b} : Aside(c)
    BY <2>1, <2>2, <2>3, Zenon DEF Aside
  <2> QED BY <2>2, <2>5, <2>6, Zenon
<1>4. CASE Remove(b)
  <2>1. UNCHANGED <<obj, cache, old, queue, age>> /\ Continue(b, "removeFinalizer", mine[b])
    BY <1>4, Zenon DEF Remove, Continue
  <2>2. /\ pc'[b] = "removeFinalizer"
        /\ \A c \in Objects \ {b} : pc'[c] = pc[c] /\ mine'[c] = mine[c]
    BY <1>t, <2>1, Zenon DEF Continue
  <2> QED BY <2>1, <2>2, Zenon DEF Pending, Stays, Aside, Finished
<1>5. CASE HandlerFails(b)
  <2>1. UNCHANGED <<obj, cache, old, age>> /\ queue \subseteq queue'
    BY <1>5, Zenon DEF HandlerFails, Fails, RemoveFinalizerAgain, Continue, Retry
  <2>2. /\ pc'[b] = "removeFinalizer" \/ (pc'[b] = "idle" /\ b \in queue')
        /\ \A c \in Objects \ {b} : pc'[c] = pc[c] /\ mine'[c] = mine[c]
    BY <1>5, <1>t, Zenon DEF HandlerFails, Fails, RemoveFinalizerAgain, Continue, Retry, Ends
  <2>3. Pending(b)'
    BY <2>1, <2>2, Zenon DEF Pending, Finished
  <2> QED BY <2>1, <2>2, <2>3, Zenon DEF Stays, Aside, Finished
<1> QED BY <1>1, <1>2, <1>3, <1>4, <1>5, Zenon

Rests == \A b \in Objects : Stays(b)

\* ... and all other steps.
LEMMA PendingStep ==
  ASSUME Inv, \A b \in Objects : Pending(b), [Next]_vars
  PROVE  /\ \A b \in Objects : Pending(b)'
         /\ Rests \/ CreateNewBackup \/ Tick
<1>0. TypeOK /\ \A b \in Objects : Good(b)
  BY Zenon DEF Inv
<1>t. /\ obj \in [Objects -> ObjectType] /\ cache \in [Objects -> ObjectType]
      /\ rotating \subseteq Objects
  BY <1>0, Zenon DEF TypeOK, LCTypeOK
<1> DEFINE Goal == (\A b \in Objects : Pending(b)') /\ (Rests \/ CreateNewBackup \/ Tick)
<1>a. ASSUME NEW b \in Objects, Pending(b)', Stays(b), \A c \in Objects \ {b} : Aside(c) /\ age'[c] = age[c]
      PROVE  Goal
  <2>1. ASSUME NEW c \in Objects PROVE Pending(c)' /\ Stays(c)
    <3>1. CASE c = b
      BY <1>a, <3>1, Zenon
    <3>2. CASE c # b
      BY <1>a, <3>2, AsidePending, Zenon DEF Stays, Aside, Finished
    <3> QED BY <3>1, <3>2, Zenon
  <2> QED BY <2>1, Zenon DEF Rests
<1>u. ASSUME UNCHANGED lcVars PROVE \A b \in Objects : Pending(b)' /\ Aside(b)
  <2>1. \A b \in Objects : Aside(b)
    BY <1>u, Zenon DEF lcVars, Aside
  <2> QED BY <2>1, AsidePending, Zenon
<1>s. ASSUME UNCHANGED lcVars, UNCHANGED age PROVE Goal
  BY <1>s, <1>u, Zenon DEF Rests, Stays, Aside
<1>w. ASSUME NEW b \in Objects, obj[b].there, DeleteBy(b) \/ WriteBy(b, obj[b]),
             UNCHANGED <<cache, mine, pc, queue, age>>
      PROVE  Goal
  BY <1>0, <1>a, <1>w, WritePending, Zenon
<1>1. ASSUME NEW b \in Objects, Handler(b) PROVE Goal
  <2>1. CASE Adapter(b)
    <3>1. age' = age
      BY <2>1, Zenon DEF Adapter, ebVars
    <3> QED BY <1>0, <1>a, <2>1, <3>1, AdapterPending, Zenon
  <2>2. CASE Create(b) \/ Save(b) \/ Saved(b) \/ Remove(b) \/ HandlerFails(b)
    BY <1>0, <1>a, <2>2, HandlerPending, Zenon
  <2> QED BY <1>1, <2>1, <2>2, Zenon DEF Handler
<1>2. ASSUME NEW b \in Objects, EventArrives(b) PROVE Goal
  <2>1. /\ UNCHANGED <<obj, mine, pc, age>> /\ old' = old \ {b} /\ queue' = queue \cup {b}
        /\ cache' = [cache EXCEPT ![b] = obj[b]]
    BY <1>2, Zenon DEF EventArrives, Informer, ebVars
  <2>2. cache'[b] = obj[b] /\ \A c \in Objects \ {b} : cache'[c] = cache[c]
    BY <1>t, <2>1, Zenon
  <2>3. Pending(b)' /\ Stays(b)
    BY <2>1, <2>2, Zenon DEF Pending, Stays, Finished
  <2>4. \A c \in Objects \ {b} : Aside(c) /\ age'[c] = age[c]
    BY <2>1, <2>2, Zenon DEF Aside
  <2> QED BY <1>a, <2>3, <2>4, Zenon
<1>3. ASSUME NEW b \in Objects, UserDeletes(b) \/ UserWrites(b) PROVE Goal
  BY <1>3, <1>w, Zenon DEF UserDeletes, UserWrites
<1>4. CASE BackupSync \/ BackupSyncSkips \/ SyncEnds \/ UNCHANGED vars
  BY <1>4, <1>s, Zenon DEF BackupSync, BackupSyncSkips, SyncEnds, vars, ebVars
<1>5. CASE CreateNewBackup
  <2>1. PICK b \in Objects : Unused(b) /\ WriteBy(b, [Absent EXCEPT !.there = TRUE])
    BY <1>5, Zenon DEF CreateNewBackup
  <2>2. UNCHANGED <<cache, mine, queue, pc>>
    BY <1>5, Zenon DEF CreateNewBackup
  <2>3. /\ obj'[b] = [Absent EXCEPT !.there = TRUE] /\ old' = old \cup {b} /\ pc[b] = "idle"
        /\ \A c \in Objects \ {b} : obj'[c] = obj[c]
    BY <1>t, <2>1, Zenon DEF WriteBy, Store, Unused
  <2>4. ~obj'[b].deleting /\ ~obj'[b].init
    BY <2>3 DEF Absent
  <2>5. Pending(b)'
    BY <2>2, <2>3, <2>4, Zenon DEF Pending
  <2>6. \A c \in Objects \ {b} : Aside(c)
    BY <2>2, <2>3, Zenon DEF Aside
  <2> QED BY <1>5, <2>5, <2>6, AsidePending, Zenon
<1>6. CASE RotateExpired
  <2>1. PICK b \in rotating : \/ obj[b].there /\ DeleteBy(b)
                              \/ UNCHANGED <<obj, old, conflict>>
    BY <1>6, Zenon DEF RotateExpired
  <2>2. b \in Objects /\ UNCHANGED <<cache, mine, queue, pc, tries, age>>
    BY <1>6, <1>t, Zenon DEF RotateExpired
  <2> QED BY <1>s, <1>w, <2>1, <2>2, Zenon DEF lcVars
<1>7. CASE Tick
  BY <1>7, <1>u, Zenon DEF Tick
<1>8. CASE Restart
  <2>1. /\ UNCHANGED <<obj, age>> /\ cache' = obj /\ queue' = {b \in Objects : obj[b].there}
        /\ \A b \in Objects : pc'[b] = "idle"
    BY <1>8, Zenon DEF Restart, LCRestart
  <2> QED BY <2>1, Zenon DEF Pending, Rests, Stays, Finished
<1> QED BY <1>1, <1>2, <1>3, <1>4, <1>5, <1>6, <1>7, <1>8, Zenon DEF Next, Scheduler

Done(o) == o.there => Finished(o)

\* As long as no save was slow: when the scheduler is going to list the backups they all
\* have their result, in the API server and in the cache; those that it is going to delete
\* were too old already when it listed them.
RotationInv ==
  /\ sched \in {"wait", "list"} => rotating = {}
  /\ ~slow /\ sched = "list" => \A b \in Objects : Done(obj[b]) /\ Done(cache[b])
  /\ ~slow => \A b \in rotating : obj[b].there => Finished(obj[b]) /\ age[b] > Keep

LEMMA RotationStep ==
  ASSUME Inv, RotationInv, \A b \in Objects : Pending(b), [Next]_vars
  PROVE  RotationInv'
<1>0. TypeOK /\ \A b \in Objects : Good(b)
  BY Zenon DEF Inv
<1>t. /\ obj \in [Objects -> ObjectType] /\ rotating \subseteq Objects /\ DOMAIN age = Objects
  BY <1>0 DEF TypeOK, LCTypeOK
<1>1. CASE Tick
  <2>1. rotating' = {} /\ UNCHANGED <<obj, cache, old, queue, pc>> /\ old = {}
    BY <1>1, Zenon DEF Tick, lcVars, RotationInv
  <2>2. ASSUME ~slow', NEW b \in Objects PROVE Done(obj'[b]) /\ Done(cache'[b])
    <3>1. pc[b] = "idle" /\ b \notin queue
      BY <1>1, <2>2, Zenon DEF Tick
    <3>2. Done(obj[b])
      BY <2>1, <3>1, Zenon DEF Pending, Done
    <3>3. cache[b] = obj[b]
      BY <1>0, <2>1, Zenon DEF Good, Current
    <3> QED BY <2>1, <3>2, <3>3, Zenon
  <2> QED BY <2>1, <2>2, Zenon DEF RotationInv
<1>2. CASE CreateNewBackup
  <2>1. PICK b \in Objects : /\ b \notin rotating /\ WriteBy(b, [Absent EXCEPT !.there = TRUE])
                            /\ age' = [age EXCEPT ![b] = 0]
    BY <1>2, Zenon DEF CreateNewBackup
  <2>2. sched' = "rotate" /\ rotating' = rotating /\ slow' = slow
    BY <1>2, Zenon DEF CreateNewBackup
  <2>3. \A c \in rotating : obj'[c] = obj[c] /\ age'[c] = age[c]
    BY <1>t, <2>1, Zenon DEF WriteBy, Store
  <2> QED BY <2>2, <2>3, Zenon DEF RotationInv, Finished
<1>3. CASE BackupSync
  <2>1. /\ sched = "list" /\ sched' \in {"create", "rotate"} /\ rotating' = Expired
        /\ UNCHANGED <<obj, cache, age, slow>>
    BY <1>3, Zenon DEF BackupSync, lcVars
  <2>2. ASSUME ~slow', NEW b \in rotating', obj'[b].there PROVE Finished(obj'[b]) /\ age'[b] > Keep
    <3>1. b \in Objects /\ cache[b].there /\ CompletedAge(b) > Keep
      BY <2>1, <2>2, Zenon DEF Expired, Listed
    <3>2. Finished(cache[b]) /\ Finished(obj[b])
      BY <2>1, <2>2, <3>1, Zenon DEF RotationInv, Done
    <3> QED BY <2>1, <3>1, <3>2, Zenon DEF CompletedAge, Finished
  <2> QED BY <2>1, <2>2, Zenon DEF RotationInv
<1>4. CASE Rests /\ ~BackupSync /\ ~CreateNewBackup /\ ~Tick
  <2> DEFINE Fewer == /\ slow' = slow /\ rotating' \subseteq rotating
                      /\ sched' = sched \/ (sched' = "wait" /\ rotating' = {})
  <2>1. Fewer
    <3>1. ASSUME UNCHANGED <<slow, rotating, sched>> PROVE Fewer
      BY <3>1, Zenon
    <3>2. ASSUME NEW b \in Objects, Handler(b) \/ EventArrives(b) \/ UserDeletes(b) \/ UserWrites(b)
          PROVE UNCHANGED <<slow, rotating, sched>>
      BY <3>2, Zenon DEF Handler, Adapter, ebVars, Create, Save, Saved, Remove, HandlerFails,
                         EventArrives, UserDeletes, UserWrites
    <3>3. CASE BackupSyncSkips \/ RotateExpired \/ SyncEnds \/ Restart
      BY <3>3, Zenon DEF BackupSyncSkips, RotateExpired, SyncEnds, Restart
    <3>4. CASE UNCHANGED vars
      BY <3>1, <3>4, Zenon DEF vars, ebVars
    <3> QED BY <1>4, <3>1, <3>2, <3>3, <3>4, Zenon DEF Next, Scheduler
  <2>2. \A b \in Objects : (Done(obj[b]) => Done(obj'[b])) /\ (Done(obj[b]) /\ Done(cache[b]) => Done(cache'[b]))
    BY <1>4, Zenon DEF Rests, Stays, Done
  <2>3. ASSUME ~slow', NEW b \in rotating', obj'[b].there PROVE Finished(obj'[b]) /\ age'[b] > Keep
    BY <1>4, <1>t, <2>1, <2>3, Zenon DEF Rests, Stays, RotationInv
  <2> QED BY <2>1, <2>2, <2>3, Zenon DEF RotationInv
<1> QED BY <1>1, <1>2, <1>3, <1>4, PendingStep, Zenon

\* The rotation deletes no backup but those that were completed, one way or the other,
\* more than Retention intervals ago, as long as no save takes more than five minutes:
\* doClusterBackupSync lists a cache and deletes while handlers still write, users delete
\* and the server restarts, for any number of backups and faults.
THEOREM OldOnly == Spec => RotatesOnlyOld
<1> DEFINE RInv == Inv /\ RotationInv /\ \A b \in Objects : Pending(b)
<1>1. Init => RInv
  <2> SUFFICES ASSUME Init PROVE RInv
    OBVIOUS
  <2>1. ASSUME NEW b \in Objects PROVE obj[b] = Absent /\ pc[b] = "idle"
    BY <2>1, Zenon DEF Init, LCInit
  <2>2. ~Absent.there
    BY DEF Absent
  <2>3. sched = "wait" /\ rotating = {}
    BY Zenon DEF Init
  <2> QED BY InvInit, <2>1, <2>2, <2>3, Zenon DEF RotationInv, Pending
<1>2. RInv /\ [Next]_vars => RInv'
  BY InvStep, PendingStep, RotationStep, Zenon
<1>3. ASSUME RInv, [Next]_vars, NEW b \in Objects, ~slow, b \in rotating, b \notin rotating', sched' = "rotate"
      PROVE  Finished(obj[b]) /\ age[b] > Keep
  <2>1. ASSUME UNCHANGED rotating PROVE FALSE
    BY <1>3, <2>1, Zenon
  <2>2. ASSUME NEW c \in Objects, Handler(c) \/ EventArrives(c) \/ UserDeletes(c) \/ UserWrites(c)
        PROVE  FALSE
    BY <2>1, <2>2, Zenon DEF Handler, Adapter, ebVars, Create, Save, Saved, Remove, HandlerFails,
                             EventArrives, UserDeletes, UserWrites
  <2>3. CASE BackupSync \/ BackupSyncSkips \/ CreateNewBackup \/ SyncEnds \/ Tick \/ Restart
    BY <1>3, <2>1, <2>3, Zenon DEF RotationInv, BackupSync, BackupSyncSkips, CreateNewBackup,
                                   SyncEnds, Tick, Restart
  <2>4. CASE RotateExpired
    <3>1. obj[b].there
      BY <1>3, <2>4, Zenon DEF RotateExpired
    <3> QED BY <1>3, <3>1, Zenon DEF RotationInv
  <2>5. CASE UNCHANGED vars
    BY <2>1, <2>5, Zenon DEF vars, ebVars
  <2> QED BY <1>3, <2>2, <2>3, <2>4, <2>5, Zenon DEF Next, Scheduler
<1>4. RInv /\ [Next]_vars => [\A b \in Objects : ~slow /\ b \in rotating /\ b \notin rotating' /\ sched' = "rotate"
                                => Finished(obj[b]) /\ age[b] > Keep]_vars
  BY <1>3, Zenon
<1> QED BY <1>1, <1>2, <1>4, PTL DEF Spec, RotatesOnlyOld
=============================================================================

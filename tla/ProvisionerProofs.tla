-------------------------- MODULE ProvisionerProofs --------------------------
(***************************************************************************)
(* Proofs about the provisioner and the engine, for any number of          *)
(* configurations, failures, writes by others and restarts: types, that    *)
(* what is recorded as applied is applied, and that a cluster which is     *)
(* gone has left nothing at the provider.                                  *)
(***************************************************************************)
EXTENDS Provisioner, TLAPS

\* The numbers of configurations.
LEMMA ConfigType == Configs \subseteq Nat /\ 1 \in Configs /\ 0 \notin Configs
  BY ConfigsAreNumbers DEF Configs

LEMMA ConfigNumbers == \A x \in Configs \cup {0} : x \in Nat
  BY ConfigType

\* The fields of an object.
LEMMA Fields ==
  ASSUME NEW o \in ObjectType
  PROVE  /\ o.there \in BOOLEAN /\ o.deleting \in BOOLEAN
         /\ o.fin \in BOOLEAN /\ o.init \in BOOLEAN /\ o.data \in ClusterData
         /\ o.data.driver \in BOOLEAN
         /\ o.data.spec \in Configs /\ o.data.applied \in Configs \cup {0}
         /\ o.data.failed \in Configs \cup {0}
<1>1. /\ o.there \in BOOLEAN /\ o.deleting \in BOOLEAN
      /\ o.fin \in BOOLEAN /\ o.init \in BOOLEAN /\ o.data \in ClusterData
  BY OneCluster DEF ObjectType
<1>. QED  BY <1>1 DEF ClusterData

\* The object that is not there.
LEMMA AbsentType ==
  /\ Absent \in ObjectType
  /\ ~Absent.there /\ ~Absent.deleting /\ ~Absent.fin /\ ~Absent.init
  /\ ~Absent.data.driver /\ Absent.data.spec = 1 /\ Absent.data.applied = 0
<1>1. NewData \in Data
  BY OneCluster, ConfigType DEF ClusterData, NewCluster
<1>. QED  BY <1>1, OneCluster DEF Absent, ObjectType, NewCluster

\* What the provisioner keeps of a cluster besides the fields of the lifecycle may be
\* changed without changing what the proofs are about.
Alike(o, n) ==
  /\ n.there = o.there /\ n.deleting = o.deleting /\ n.fin = o.fin /\ n.init = o.init
  /\ n.data.driver = o.data.driver

SameNumbers(o, n) == n.data.spec = o.data.spec /\ n.data.applied = o.data.applied

\* New data in an object.
LEMMA NewDataType ==
  ASSUME NEW o \in ObjectType, NEW d \in ClusterData
  PROVE  /\ [o EXCEPT !.data = d] \in ObjectType
         /\ LET n == [o EXCEPT !.data = d]
            IN  /\ n.there = o.there /\ n.deleting = o.deleting
                /\ n.fin = o.fin /\ n.init = o.init /\ n.data = d
  BY OneCluster DEF ObjectType

\* An annotation, a condition, a failure.
LEMMA MadeAlike ==
  ASSUME NEW o \in ObjectType
  PROVE  /\ \A a \in {"updating", "updated"} :
              LET n == [o EXCEPT !.data.anno = a]
              IN  n \in ObjectType /\ Alike(o, n) /\ SameNumbers(o, n)
         /\ LET n == [o EXCEPT !.data.migrated = TRUE]
            IN  n \in ObjectType /\ Alike(o, n) /\ SameNumbers(o, n)
         /\ \A f \in Configs \cup {0} :
              LET n == [o EXCEPT !.data.failed = f]
              IN  n \in ObjectType /\ Alike(o, n) /\ SameNumbers(o, n)
<1>. o.data \in ClusterData  BY Fields
<1>1. ASSUME NEW d \in ClusterData, d.driver = o.data.driver,
             d.spec = o.data.spec, d.applied = o.data.applied
      PROVE  LET n == [o EXCEPT !.data = d]
             IN  n \in ObjectType /\ Alike(o, n) /\ SameNumbers(o, n)
  BY <1>1, NewDataType DEF Alike, SameNumbers
<1>2. ASSUME NEW a \in {"updating", "updated"}
      PROVE  LET n == [o EXCEPT !.data.anno = a]
             IN  n \in ObjectType /\ Alike(o, n) /\ SameNumbers(o, n)
  <2>. DEFINE d == [o.data EXCEPT !.anno = a]
  <2>1. d \in ClusterData /\ d.driver = o.data.driver
          /\ d.spec = o.data.spec /\ d.applied = o.data.applied
    BY DEF ClusterData
  <2>. HIDE DEF d
  <2>2. LET n == [o EXCEPT !.data = d]
        IN  n \in ObjectType /\ Alike(o, n) /\ SameNumbers(o, n)
    BY <1>1, <2>1
  <2>. QED  BY <2>2 DEF d
<1>3. LET n == [o EXCEPT !.data.migrated = TRUE]
      IN  n \in ObjectType /\ Alike(o, n) /\ SameNumbers(o, n)
  <2>. DEFINE d == [o.data EXCEPT !.migrated = TRUE]
  <2>1. d \in ClusterData /\ d.driver = o.data.driver
          /\ d.spec = o.data.spec /\ d.applied = o.data.applied
    BY Zenon DEF ClusterData
  <2>. HIDE DEF d
  <2>2. LET n == [o EXCEPT !.data = d]
        IN  n \in ObjectType /\ Alike(o, n) /\ SameNumbers(o, n)
    BY <1>1, <2>1
  <2>. QED  BY <2>2 DEF d
<1>4. ASSUME NEW f \in Configs \cup {0}
      PROVE  LET n == [o EXCEPT !.data.failed = f]
             IN  n \in ObjectType /\ Alike(o, n) /\ SameNumbers(o, n)
  <2>. DEFINE d == [o.data EXCEPT !.failed = f]
  <2>1. d \in ClusterData /\ d.driver = o.data.driver
          /\ d.spec = o.data.spec /\ d.applied = o.data.applied
    BY DEF ClusterData
  <2>. HIDE DEF d
  <2>2. LET n == [o EXCEPT !.data = d]
        IN  n \in ObjectType /\ Alike(o, n) /\ SameNumbers(o, n)
    BY <1>1, <2>1
  <2>. QED  BY <2>2 DEF d
<1>. QED  BY <1>2, <1>3, <1>4

\* The driver, the applied and the asked configuration.
LEMMA MadeData ==
  ASSUME NEW o \in ObjectType
  PROVE  /\ LET n == [o EXCEPT !.data.driver = TRUE]
            IN  /\ n \in ObjectType /\ SameNumbers(o, n) /\ n.data.driver
                /\ n.there = o.there /\ n.deleting = o.deleting /\ n.fin = o.fin /\ n.init = o.init
         /\ \A a \in Configs \cup {0} :
              LET n == [o EXCEPT !.data.applied = a]
              IN  n \in ObjectType /\ Alike(o, n) /\ n.data.spec = o.data.spec /\ n.data.applied = a
         /\ \A a \in Configs :
              LET n == [o EXCEPT !.data.spec = a]
              IN  n \in ObjectType /\ Alike(o, n) /\ n.data.spec = a
                  /\ n.data.applied = o.data.applied
<1>. o.data \in ClusterData  BY Fields
<1>1. LET n == [o EXCEPT !.data.driver = TRUE]
      IN  /\ n \in ObjectType /\ SameNumbers(o, n) /\ n.data.driver
          /\ n.there = o.there /\ n.deleting = o.deleting /\ n.fin = o.fin /\ n.init = o.init
  <2>. DEFINE d == [o.data EXCEPT !.driver = TRUE]
  <2>1. d \in ClusterData /\ d.driver /\ d.spec = o.data.spec /\ d.applied = o.data.applied
    BY Zenon DEF ClusterData
  <2>. HIDE DEF d
  <2>2. LET n == [o EXCEPT !.data = d]
        IN  /\ n \in ObjectType /\ SameNumbers(o, n) /\ n.data.driver
            /\ n.there = o.there /\ n.deleting = o.deleting /\ n.fin = o.fin /\ n.init = o.init
    BY <2>1, NewDataType DEF SameNumbers
  <2>. QED  BY <2>2 DEF d
<1>2. ASSUME NEW a \in Configs \cup {0}
      PROVE  LET n == [o EXCEPT !.data.applied = a]
             IN  n \in ObjectType /\ Alike(o, n) /\ n.data.spec = o.data.spec /\ n.data.applied = a
  <2>. DEFINE d == [o.data EXCEPT !.applied = a]
  <2>1. d \in ClusterData /\ d.driver = o.data.driver /\ d.spec = o.data.spec /\ d.applied = a
    BY DEF ClusterData
  <2>. HIDE DEF d
  <2>2. LET n == [o EXCEPT !.data = d]
        IN  n \in ObjectType /\ Alike(o, n) /\ n.data.spec = o.data.spec /\ n.data.applied = a
    BY <2>1, NewDataType DEF Alike
  <2>. QED  BY <2>2 DEF d
<1>3. ASSUME NEW a \in Configs
      PROVE  LET n == [o EXCEPT !.data.spec = a]
             IN  n \in ObjectType /\ Alike(o, n) /\ n.data.spec = a
                 /\ n.data.applied = o.data.applied
  <2>. DEFINE d == [o.data EXCEPT !.spec = a]
  <2>1. d \in ClusterData /\ d.driver = o.data.driver /\ d.spec = a /\ d.applied = o.data.applied
    BY DEF ClusterData
  <2>. HIDE DEF d
  <2>2. LET n == [o EXCEPT !.data = d]
        IN  n \in ObjectType /\ Alike(o, n) /\ n.data.spec = a /\ n.data.applied = o.data.applied
    BY <2>1, NewDataType DEF Alike
  <2>. QED  BY <2>2 DEF d
<1>. QED  BY <1>1, <1>2, <1>3

\* The finalizer, the lifecycle's annotation, the deletion timestamp.
LEMMA MadeFlags ==
  ASSUME NEW o \in ObjectType
  PROVE  /\ LET n == [o EXCEPT !.fin = TRUE]
            IN  /\ n \in ObjectType /\ SameNumbers(o, n) /\ n.fin /\ n.data.driver = o.data.driver
                /\ n.there = o.there /\ n.deleting = o.deleting /\ n.init = o.init
         /\ LET n == [o EXCEPT !.init = TRUE]
            IN  /\ n \in ObjectType /\ SameNumbers(o, n) /\ n.init /\ n.data.driver = o.data.driver
                /\ n.there = o.there /\ n.deleting = o.deleting /\ n.fin = o.fin
         /\ LET n == [o EXCEPT !.deleting = TRUE]
            IN  /\ n \in ObjectType /\ SameNumbers(o, n) /\ n.deleting
                /\ n.data.driver = o.data.driver
                /\ n.there = o.there /\ n.fin = o.fin /\ n.init = o.init
  BY Zenon DEF ObjectType, SameNumbers

-----------------------------------------------------------------------------
(* Types *)

Labels == {"idle", "addFinalizer", "create", "setInitialized", "updated",
           "migrate", "getSpec", "driverCreate", "driverUpdate", "succeeded",
           "failed", "save", "finalize", "remove", "removeFinalizer"}
Wanting == {"driverCreate", "driverUpdate", "succeeded", "failed", "save"}

HandlerType ==
  /\ mine \in [Objects -> ObjectType]
  /\ conflict \subseteq Objects /\ queue \subseteq Objects
  /\ tries \in [Objects -> 0..2]
  /\ pc \in [Objects -> Labels]
StoreType ==
  /\ obj \in [Objects -> ObjectType] /\ cache \in [Objects -> ObjectType]
  /\ old \subseteq Objects
WantType == want = 0 => pc[Cluster] \notin Wanting
FlagType ==
  /\ backoff \in BOOLEAN /\ sleeping \in BOOLEAN
  /\ schema \in BOOLEAN /\ overdue \in BOOLEAN /\ back \in BOOLEAN

\* TypeOK in parts: handler, API server, engine, the configuration wanted, flags.
LEMMA TypeParts ==
  TypeOK <=> HandlerType /\ StoreType /\ EnTypeOK /\ WantType /\ FlagType
  BY DEF TypeOK, LCTypeOK, HandlerType, StoreType, WantType, FlagType, Labels, Wanting

\* ... and after a step.
LEMMA TypePartsNext ==
  HandlerType' /\ StoreType' /\ EnTypeOK' /\ WantType' /\ FlagType' => TypeOK'
  BY DEF TypeOK, LCTypeOK, HandlerType, StoreType, WantType, FlagType, Labels, Wanting

\* A handler that ends, goes on, an object that is stored.
LEMMA Ended ==
  ASSUME HandlerType, Ends(Cluster), queue' = queue \/ queue' = queue \cup {Cluster}
  PROVE  HandlerType' /\ pc[Cluster]' = "idle" /\ Mine' = Absent /\ conflict' = {}
  BY AbsentType, OneCluster DEF HandlerType, Ends, Labels, Mine

LEMMA Continued ==
  ASSUME HandlerType, NEW l \in Labels, NEW o \in ObjectType, Continue(Cluster, l, o)
  PROVE  /\ mine' \in [Objects -> ObjectType] /\ queue' \subseteq Objects
         /\ pc' \in [Objects -> Labels]
         /\ pc[Cluster]' = l /\ Mine' = o
  BY OneCluster DEF HandlerType, Continue, Labels, Mine

LEMMA Stored ==
  ASSUME StoreType, NEW o \in ObjectType, Store(Cluster, o), UNCHANGED cache
  PROVE  StoreType' /\ This' = o /\ old' = {Cluster}
  BY OneCluster DEF StoreType, Store, This

\* The three copies of the cluster.
LEMMA Copies ==
  ASSUME TypeOK
  PROVE  /\ This \in ObjectType /\ Mine \in ObjectType /\ cache[Cluster] \in ObjectType
         /\ pc[Cluster] \in Labels /\ Cluster \in Objects
  BY OneCluster DEF TypeOK, LCTypeOK, This, Mine, Labels

\* The store is given a value, and keeps it or loses it.
Written == \E v \in Value : Set(v) \/ Lose(v)

LEMMA Writes ==
  ASSUME NEW v \in Value
  PROVE  /\ Put(v) => Written
         /\ \A s \in Statuses : PersistStatus(v, s) \/ Set(WithStatus(v, s)) => Written
         /\ CreateFails(v) => Written
<1>1. \A s \in Statuses : WithStatus(v, s) \in Value
  BY DEF Value, WithStatus
<1>2. "Error" \in Statuses
  BY DEF Statuses
<1>. QED  BY <1>1, <1>2, Zenon DEF Written, Put, PersistStatus, CreateFails

\* The store keeps the types, and so does what the engine reads.
LEMMA WrittenType ==
  ASSUME EnTypeOK, Written
  PROVE  {secret', lister'} \subseteq Value \cup {NoSecret} /\ lagging' \in BOOLEAN
<1>. PICK v \in Value : Set(v) \/ Lose(v)
  BY DEF Written
<1>. QED  BY Zenon DEF EnTypeOK, Set, Lose

LEMMA ValueType ==
  /\ Blank \in Value /\ Meta \in Value
  /\ EnTypeOK => Restored \in Value
  BY Zenon DEF Blank, Meta, Value, Statuses, Restored, EnTypeOK

\* The engine's steps keep its types.
LEMMA EngineType == EnTypeOK /\ EngineStep => EnTypeOK'
<1>. SUFFICES ASSUME EnTypeOK, EngineStep PROVE EnTypeOK'
  OBVIOUS
<1>. DEFINE Stores == {secret', lister'} \subseteq Value \cup {NoSecret} /\ lagging' \in BOOLEAN
<1>v. Blank \in Value /\ Meta \in Value /\ Restored \in Value /\ c \in Value
  BY ValueType, Zenon DEF EnTypeOK
<1>s. {"", "Creating", "PostCheck", "Running", "Updating", "Error"} = Statuses
  BY DEF Statuses
<1>u. UNCHANGED store => Stores
  BY DEF store, EnTypeOK
<1>w. Written => Stores
  BY WrittenType
<1>. HIDE DEF Stores
<1>t. Stores => {secret', lister'} \subseteq Value \cup {NoSecret} /\ lagging' \in BOOLEAN
  BY DEF Stores
<1>1. CASE EngineCreate
  <2>1. Written /\ c' \in Value
    BY <1>1, <1>v, <1>s, Writes, Zenon DEF EngineCreate
  <2>2. epc' \in {"exists", "createDriver", "failed"} /\ UNCHANGED <<cloud, want, gaveUp>>
    BY <1>1, Zenon DEF EngineCreate
  <2>. QED  BY <1>t, <1>w, <2>1, <2>2 DEF EnTypeOK, Results
<1>2. CASE EngineCreateDriver
  <2>0. c' \in Value
    BY <1>2, <1>v, Zenon DEF EngineCreateDriver
  <2>1. Written
    BY <1>2, <1>s, <2>0, Writes, Zenon DEF EngineCreateDriver
  <2>2. /\ epc' \in {"createPost", "failed"} /\ UNCHANGED <<want, gaveUp>>
        /\ cloud' \in {cloud, want}
    BY <1>2, Zenon DEF EngineCreateDriver, CreateFails
  <2>. QED  BY <1>t, <1>w, <2>0, <2>1, <2>2 DEF EnTypeOK, Results
<1>3. CASE EngineCreatePost
  <2>1. Written
    BY <1>3, <1>v, Writes, Zenon DEF EngineCreatePost
  <2>2. epc' \in {"createDone", "failed"} /\ UNCHANGED <<cloud, c, want, gaveUp>>
    BY <1>3, Zenon DEF EngineCreatePost, CreateFails
  <2>. QED  BY <1>t, <1>w, <2>1, <2>2 DEF EnTypeOK, Results
<1>4. CASE EngineCreateDone
  <2>1. Written
    BY <1>4, <1>v, <1>s, Writes, Zenon DEF EngineCreateDone
  <2>. QED  BY <1>4, <1>t, <1>v, <1>w, <2>1, Zenon DEF EngineCreateDone, EnTypeOK, Results
<1>5. CASE EngineUpdate
  <2>0. c' \in Value
    BY <1>5, <1>v DEF EngineUpdate
  <2>1. UNCHANGED store \/ Written
    BY <1>5, <1>s, <2>0, Writes, Zenon DEF EngineUpdate
  <2>2. epc' \in {"create", "updateDriver", "failed"} /\ UNCHANGED <<cloud, want, gaveUp>>
    BY <1>5, Zenon DEF EngineUpdate
  <2>. QED  BY <1>t, <1>u, <1>w, <2>0, <2>1, <2>2 DEF EnTypeOK, Results
<1>6. CASE EngineUpdateDriver
  <2>0. c' \in Value
    BY <1>6, <1>v, Zenon DEF EngineUpdateDriver
  <2>1. UNCHANGED store \/ Written
    BY <1>6, <1>s, <2>0, Writes, Zenon DEF EngineUpdateDriver
  <2>2. /\ epc' \in {"updatePost", "failed"} /\ UNCHANGED <<want, gaveUp>>
        /\ cloud' \in {cloud, want}
    BY <1>6, Zenon DEF EngineUpdateDriver
  <2>. QED  BY <1>t, <1>u, <1>w, <2>0, <2>1, <2>2 DEF EnTypeOK, Results
<1>7. CASE EngineGenerate
  <2>0. c' \in Value
    BY <1>7, <1>v DEF EngineGenerate
  <2>1. UNCHANGED store \/ Written
    BY <1>7, <1>s, <2>0, Writes, Zenon DEF EngineGenerate
  <2>. QED  BY <1>7, <1>t, <1>u, <1>w, <2>0, <2>1, Zenon DEF EngineGenerate, EnTypeOK, Results
<1>8. CASE EngineUpdatePost
  <2>1. UNCHANGED store \/ Written
    BY <1>8, <1>v, Writes, Zenon DEF EngineUpdatePost
  <2>. QED  BY <1>8, <1>t, <1>u, <1>v, <1>w, <2>1, Zenon DEF EngineUpdatePost, EnTypeOK, Results
<1>9. CASE EngineRemove
  BY <1>9, <1>t, <1>u, <1>v DEF EngineRemove, EnTypeOK, Results
<1>10. CASE EngineRemoveDriver
  BY <1>10, <1>t, <1>u, Zenon DEF EngineRemoveDriver, EnTypeOK, Results
<1>11. CASE EngineForget
  BY <1>11, Zenon DEF EngineForget, EnTypeOK, Results
<1>12. CASE EngineNotStarted
  BY <1>12, <1>t, <1>u DEF EngineNotStarted, EnTypeOK, Results
<1>. QED
  BY <1>1, <1>2, <1>3, <1>4, <1>5, <1>6, <1>7, <1>8, <1>9, <1>10, <1>11, <1>12 DEF EngineStep

\* The engine is called, or put to rest.
LEMMA EngineCalled ==
  ASSUME EnTypeOK, NEW l \in {"idle", "create", "update", "generate", "remove"}, Engine(l),
         want' \in Configs \cup {0}
  PROVE  EnTypeOK'
  BY ValueType, Zenon DEF Engine, EnTypeOK, store, Results

\* The adapter's steps keep the types of handler and objects.
LEMMA AdapterType ==
  ASSUME TypeOK, Adapter
  PROVE  TypeOK'
<1>. HandlerType /\ StoreType /\ EnTypeOK /\ WantType /\ FlagType
  BY TypeParts
<1>. This \in ObjectType /\ Mine \in ObjectType /\ cache[Cluster] \in ObjectType /\ Cluster \in Objects
  BY Copies
<1>1. EnTypeOK' /\ FlagType' /\ UNCHANGED want
  BY DEF Adapter, EnTypeOK, FlagType, enVars, pvVars
<1>2. CASE Sync(Cluster)
  <2>1. FirstStep(cache[Cluster]) \in Labels \ Wanting
    BY DEF FirstStep, Labels, Wanting
  <2>2. HandlerType' /\ StoreType'
    BY <1>2, <2>1 DEF Sync, HandlerType, StoreType
  <2>3. WantType'
    BY <1>2, <2>1 DEF Sync, HandlerType, WantType
  <2>. QED  BY <1>1, <2>2, <2>3, TypePartsNext
<1>3. CASE AddFinalizer(Cluster)
  <2>. DEFINE n == [Mine EXCEPT !.fin = TRUE]
  <2>1. n \in ObjectType
    BY MadeFlags, Zenon
  <2>2. Store(Cluster, n) /\ Continue(Cluster, "create", n) /\ UNCHANGED <<cache, conflict, tries>>
    BY <1>3 DEF AddFinalizer, Update, Mine
  <2>. HIDE DEF n
  <2>3. StoreType'
    BY <2>1, <2>2, Stored
  <2>4. HandlerType' /\ WantType'
    BY <2>1, <2>2, Continued DEF HandlerType, WantType, Labels, Wanting
  <2>. QED  BY <1>1, <2>3, <2>4, TypePartsNext
<1>4. CASE SetInitialized(Cluster)
  <2>1. [Mine EXCEPT !.init = TRUE] \in ObjectType
    BY MadeFlags, Zenon
  <2>2. StoreType'
    BY <1>4, <2>1, Stored DEF SetInitialized, Update, Mine
  <2>3. HandlerType' /\ WantType'
    BY <1>4, Ended DEF SetInitialized, Return, WantType, Wanting
  <2>. QED  BY <1>1, <2>2, <2>3, TypePartsNext
<1>5. CASE RemoveFinalizer(Cluster)
  <2>1. StoreType'
    BY <1>5, AbsentType, Stored DEF RemoveFinalizer, Update
  <2>2. HandlerType' /\ WantType'
    BY <1>5, Ended DEF RemoveFinalizer, Return, WantType, Wanting
  <2>. QED  BY <1>1, <2>1, <2>2, TypePartsNext
<1>. QED  BY <1>2, <1>3, <1>4, <1>5 DEF Adapter

\* So do the handler's own.
LEMMA HandlerSteps ==
  ASSUME TypeOK, Handler, ~Adapter
  PROVE  TypeOK'
<1>. HandlerType /\ StoreType /\ EnTypeOK /\ WantType /\ FlagType
  BY TypeParts
<1>. This \in ObjectType /\ Mine \in ObjectType /\ cache[Cluster] \in ObjectType /\ Cluster \in Objects
  BY Copies
<1>. want \in Configs \cup {0} /\ Mine.data.spec \in Configs
  BY Fields DEF EnTypeOK
<1>e. UNCHANGED enVars => EnTypeOK'
  BY DEF enVars, EnTypeOK
<1>p. UNCHANGED pvVars => FlagType'
  BY DEF pvVars, FlagType
<1>s. UNCHANGED <<obj, cache, old>> => StoreType'
  BY DEF StoreType
<1>r. Record => UNCHANGED <<obj, old>> \/ Store(Cluster, This)
  BY DEF Record, Update
\* The handler goes on with o at l, the API server has n or what it had.
<1>c. ASSUME NEW l \in Labels, NEW o \in ObjectType, Continue(Cluster, l, o),
             conflict' \in {conflict, {}}, UNCHANGED <<cache, tries>>,
             UNCHANGED <<obj, old>> \/ \E n \in ObjectType : Store(Cluster, n),
             EnTypeOK', FlagType', l \in Wanting => want' # 0
      PROVE  TypeOK'
  <2>1. HandlerType'
    BY <1>c, Continued DEF HandlerType
  <2>2. StoreType'
    BY <1>c, <1>s, Stored
  <2>3. WantType'
    BY <1>c, Continued DEF WantType
  <2>. QED  BY <1>c, <2>1, <2>2, <2>3, TypePartsNext
\* The handler ends.
<1>d. ASSUME Return(Cluster) \/ Retry(Cluster), UNCHANGED cache,
             UNCHANGED <<obj, old>> \/ \E n \in ObjectType : Store(Cluster, n),
             EnTypeOK', FlagType'
      PROVE  TypeOK'
  <2>1. HandlerType' /\ WantType'
    BY <1>d, Ended DEF Return, Retry, WantType, Wanting
  <2>2. StoreType'
    BY <1>d, <1>s, Stored
  <2>. QED  BY <1>d, <2>1, <2>2, TypePartsNext
<1>. HIDE DEF HandlerType, StoreType, WantType, FlagType
<1>1. CASE Pending
  <2>. DEFINE n == [Mine EXCEPT !.data.driver = TRUE]
  <2>1. n \in ObjectType
    BY MadeData, Zenon
  <2>2. EnTypeOK' /\ FlagType' /\ UNCHANGED <<cache, tries, conflict>>
    BY <1>1, <1>e, <1>p DEF Pending
  <2>3. \/ Continue(Cluster, "getSpec", Mine) /\ UNCHANGED <<obj, old>>
        \/ Store(Cluster, n) /\ Continue(Cluster, "getSpec", n)
    BY <1>1 DEF Pending, Update
  <2>. HIDE DEF n
  <2>. QED  BY <1>c, <2>1, <2>2, <2>3 DEF Labels, Wanting
<1>2. CASE SyncUpdated
  <2>1. HandlerType'
    BY <1>2 DEF SyncUpdated, HandlerType, StoreType, Labels
  <2>2. WantType'
    BY <1>2 DEF SyncUpdated, HandlerType, WantType, Wanting
  <2>. QED  BY <1>2, <1>e, <1>p, <1>s, <2>1, <2>2, TypePartsNext DEF SyncUpdated
<1>3. CASE StartUpdating
  <2>1. [This EXCEPT !.data.anno = "updating"] \in ObjectType
    BY MadeAlike, Zenon
  <2>2. FlagType'
    BY <1>3, Zenon DEF StartUpdating, FlagType
  <2>3. EnTypeOK' /\ UNCHANGED cache /\ (Return(Cluster) \/ Retry(Cluster))
    BY <1>3, <1>e DEF StartUpdating
  <2>4. Store(Cluster, [This EXCEPT !.data.anno = "updating"])
    BY <1>3 DEF StartUpdating
  <2>. QED  BY <1>d, <2>1, <2>2, <2>3, <2>4
<1>4. CASE WaitUpdating \/ BackoffFailure
  <2>1. FlagType'
    BY <1>4, Zenon DEF WaitUpdating, BackoffFailure, FlagType, pvVars
  <2>2. Return(Cluster) /\ Record /\ UNCHANGED <<cache, enVars>>
    BY <1>4, Zenon DEF WaitUpdating, BackoffFailure
  <2>. QED  BY <1>d, <1>e, <1>r, <2>1, <2>2
<1>5. CASE TakeOver
  <2>1. [Mine EXCEPT !.data.anno = "updated"] \in ObjectType
    BY MadeAlike, Zenon
  <2>2. FlagType'
    BY <1>5, Zenon DEF TakeOver, FlagType
  <2>3. EnTypeOK' /\ UNCHANGED cache /\ Return(Cluster)
    BY <1>5, <1>e DEF TakeOver
  <2>4. Store(Cluster, [Mine EXCEPT !.data.anno = "updated"])
    BY <1>5 DEF TakeOver, Update
  <2>. QED  BY <1>d, <2>1, <2>2, <2>3, <2>4
<1>6. CASE Reconcile
  <2>1. FlagType' /\ UNCHANGED <<obj, cache, old, conflict, tries>>
    BY <1>6, <1>p DEF Reconcile, Local
  <2>2. CASE Mine.data.migrated
    <3>1. Continue(Cluster, "getSpec", Mine) /\ EnTypeOK'
      BY <1>6, <2>2, <1>e DEF Reconcile
    <3>. QED  BY <1>c, <2>1, <3>1 DEF Labels, Wanting
  <2>3. CASE ~Mine.data.migrated
    <3>1. Continue(Cluster, "migrate", Mine) /\ Engine("generate") /\ UNCHANGED want
      BY <1>6, <2>3 DEF Reconcile
    <3>2. EnTypeOK'
      BY <3>1, EngineCalled
    <3>. QED  BY <1>c, <2>1, <3>1, <3>2 DEF Labels, Wanting
  <2>. QED  BY <2>2, <2>3
<1>7. CASE Migrated
  <2>. DEFINE n == [Mine EXCEPT !.data.migrated = TRUE]
  <2>1. n \in ObjectType
    BY MadeAlike, Zenon
  <2>2. /\ Store(Cluster, n) /\ Continue(Cluster, "getSpec", n) /\ Engine("idle")
        /\ UNCHANGED <<cache, conflict, tries, want, pvVars>>
    BY <1>7 DEF Migrated, Update
  <2>. HIDE DEF n
  <2>3. EnTypeOK' /\ FlagType'
    BY <2>2, <1>p, EngineCalled
  <2>. QED  BY <1>c, <2>1, <2>2, <2>3 DEF Labels, Wanting
<1>8. CASE NothingToDo
  <2>1. EnTypeOK' /\ FlagType'
    BY <1>8, <1>e, <1>p DEF NothingToDo
  <2>2. \/ Return(Cluster) /\ Record /\ UNCHANGED cache
        \/ Continue(Cluster, "setInitialized", Mine) /\ Local
    BY <1>8 DEF NothingToDo
  <2>. QED  BY <1>c, <1>d, <1>r, <2>1, <2>2, Zenon DEF Local, Labels, Wanting
<1>9. CASE Provision
  <2>1. want' = Mine.data.spec /\ UNCHANGED <<cache, conflict, tries>> /\ FlagType'
    BY <1>9, <1>p DEF Provision
  <2>2. want' \in Configs /\ want' # 0
    BY <2>1, ConfigType
  <2>3. UNCHANGED <<obj, old>> \/ Store(Cluster, Mine)
    BY <1>9 DEF Provision, Update, TryUpdate
  <2>4. \/ Continue(Cluster, "driverUpdate", Mine) /\ Engine("update")
        \/ Continue(Cluster, "driverCreate", Mine) /\ Engine("create")
    BY <1>9 DEF Provision
  <2>5. EnTypeOK'
    BY <2>2, <2>4, EngineCalled
  <2>. QED  BY <1>c, <2>1, <2>2, <2>3, <2>4, <2>5 DEF Labels
<1>10. CASE UpdateExisting
  <2>1. /\ Continue(Cluster, "driverUpdate", Mine) /\ Engine("update")
        /\ Local /\ UNCHANGED want /\ FlagType' /\ pc[Cluster] = "driverCreate"
    BY <1>10, <1>p DEF UpdateExisting
  <2>2. EnTypeOK' /\ want' # 0
    BY <2>1, EngineCalled DEF WantType, Wanting
  <2>. QED  BY <1>c, <2>1, <2>2 DEF Local, Labels
<1>11. CASE Reload
  <2>1. PICK l \in {"succeeded", "failed"} : Continue(Cluster, l, This)
    BY <1>11 DEF Reload
  <2>2. /\ conflict' = {} /\ Engine("idle") /\ UNCHANGED <<obj, cache, old, tries, want>>
        /\ FlagType' /\ pc[Cluster] \in {"driverCreate", "driverUpdate"}
    BY <1>11, <1>p DEF Reload
  <2>3. EnTypeOK' /\ want' # 0
    BY <2>2, EngineCalled DEF WantType, Wanting
  <2>. QED  BY <1>c, <2>1, <2>2, <2>3 DEF Labels
<1>12. CASE RecordFailure
  <2>1. [Mine EXCEPT !.data.failed = want] \in ObjectType
    BY MadeAlike, Zenon
  <2>2. Store(Cluster, [Mine EXCEPT !.data.failed = want]) \/ UNCHANGED <<obj, old>>
    BY <1>12 DEF RecordFailure, Update
  <2>3. Retry(Cluster) /\ UNCHANGED cache
    BY <1>12 DEF RecordFailure
  <2>4. FlagType' /\ EnTypeOK'
    BY <1>12 DEF RecordFailure, FlagType, EnTypeOK, store
  <2>. QED  BY <1>d, <2>1, <2>2, <2>3, <2>4
<1>13. CASE RecordSuccess
  <2>. DEFINE n == [Mine EXCEPT !.data.failed = 0]
  <2>1. n \in ObjectType
    BY MadeAlike, Zenon
  <2>2. /\ UNCHANGED <<obj, old>> \/ Store(Cluster, n)
        /\ Continue(Cluster, "save", n) /\ UNCHANGED <<cache, conflict, tries, enVars>>
        /\ pc[Cluster] = "succeeded"
    BY <1>13 DEF RecordSuccess, Update
  <2>. HIDE DEF n
  <2>3. FlagType' /\ EnTypeOK'
    BY <1>13, <1>e, <2>2, Zenon DEF RecordSuccess, FlagType
  <2>4. want' # 0
    BY <2>2, Zenon DEF WantType, Wanting, enVars
  <2>. QED  BY <1>c, <2>1, <2>2, <2>3, <2>4 DEF Labels
<1>14. CASE Save
  <2>. DEFINE n == [This EXCEPT !.data.applied = want]
  <2>1. n \in ObjectType
    BY MadeData, Zenon
  <2>2. /\ Store(Cluster, n) /\ UNCHANGED cache
        /\ \/ Return(Cluster) \/ Retry(Cluster)
           \/ Continue(Cluster, "setInitialized", n) /\ conflict' = {} /\ UNCHANGED tries
    BY <1>14 DEF Save
  <2>. HIDE DEF n
  <2>3. FlagType' /\ EnTypeOK'
    BY <1>14, <1>p DEF Save, EnTypeOK, store
  <2>. QED  BY <1>c, <1>d, <2>1, <2>2, <2>3 DEF Labels, Wanting
<1>15. CASE Remove
  <2>1. UNCHANGED <<cache, conflict, tries>> /\ FlagType'
    BY <1>15, <1>p, Zenon DEF Remove
  <2>2. UNCHANGED <<obj, old>> \/ Store(Cluster, Mine)
    BY <1>15 DEF Remove, TryUpdate
  <2>3. \/ Continue(Cluster, "remove", Mine) /\ Engine("remove") /\ UNCHANGED want
        \/ Continue(Cluster, "removeFinalizer", Mine) /\ UNCHANGED enVars
    BY <1>15 DEF Remove
  <2>4. EnTypeOK'
    BY <2>3, <1>e, EngineCalled
  <2>. QED  BY <1>c, <2>1, <2>2, <2>3, <2>4, Zenon DEF Labels, Wanting
<1>16. CASE Removed
  <2>1. /\ Continue(Cluster, "removeFinalizer", This) /\ conflict' = {} /\ Engine("idle")
        /\ UNCHANGED <<obj, cache, old, tries, want>> /\ FlagType'
    BY <1>16, <1>p DEF Removed
  <2>2. EnTypeOK'
    BY <2>1, EngineCalled
  <2>. QED  BY <1>c, <2>1, <2>2 DEF Labels, Wanting
<1>17. CASE HandlerFails
  <2>1. FlagType'
    BY <1>17, <1>p DEF HandlerFails
  <2>2. EnTypeOK'
    BY <1>17, ValueType, Zenon DEF HandlerFails, EnTypeOK, store
  <2>3. CASE RemoveFinalizerAgain(Cluster)
    <3>1. UNCHANGED <<obj, cache, old>>
      BY <2>3 DEF RemoveFinalizerAgain
    <3>2. CASE This.there /\ tries[Cluster] < 2
      <4>1. /\ Continue(Cluster, "removeFinalizer", This)
            /\ conflict' = conflict \ {Cluster}
            /\ tries' = [tries EXCEPT ![Cluster] = @ + 1]
        BY <2>3, <3>2 DEF RemoveFinalizerAgain, This
      <4>2. tries' \in [Objects -> 0..2] /\ conflict' \subseteq Objects
        BY <3>2, <4>1 DEF HandlerType
      <4>3. HandlerType' /\ WantType'
        BY <4>1, <4>2, Continued DEF HandlerType, WantType, Labels, Wanting
      <4>. QED  BY <1>s, <2>1, <2>2, <3>1, <4>3, TypePartsNext
    <3>3. CASE ~(This.there /\ tries[Cluster] < 2)
      <4>1. Retry(Cluster)
        BY <2>3, <3>3 DEF RemoveFinalizerAgain, This
      <4>. QED  BY <1>d, <2>1, <2>2, <3>1, <4>1
    <3>. QED  BY <3>2, <3>3
  <2>4. CASE Retry(Cluster) /\ Record /\ UNCHANGED cache
    BY <1>d, <1>r, <2>1, <2>2, <2>4
  <2>. QED  BY <1>17, <2>3, <2>4 DEF HandlerFails
<1>. QED
  BY <1>1, <1>2, <1>3, <1>4, <1>5, <1>6, <1>7, <1>8, <1>9, <1>10, <1>11, <1>12, <1>13,
     <1>14, <1>15, <1>16, <1>17 DEF Handler

\* Each step keeps the types.
LEMMA TypeStep == TypeOK /\ [Next]_vars => TypeOK'
<1>. SUFFICES ASSUME TypeOK, [Next]_vars PROVE TypeOK'
  OBVIOUS
<1>. HandlerType /\ StoreType /\ EnTypeOK /\ WantType /\ FlagType
  BY TypeParts
<1>. This \in ObjectType /\ Cluster \in Objects /\ Objects = {Cluster}
  BY Copies, OneCluster
<1>l. UNCHANGED lcVars => HandlerType' /\ StoreType'
  BY DEF lcVars, HandlerType, StoreType
<1>w. UNCHANGED <<want, pc>> => WantType'
  BY DEF WantType
<1>p. UNCHANGED pvVars => FlagType'
  BY DEF pvVars, FlagType
<1>e. UNCHANGED <<store, cloud, epc, c, want, gaveUp>> => EnTypeOK'
  BY DEF store, EnTypeOK
<1>q. queue' \subseteq Objects /\ UNCHANGED <<mine, pc, tries>> /\ conflict' \subseteq Objects
        => HandlerType'
  BY DEF HandlerType
<1>1. CASE Adapter
  BY <1>1, AdapterType
<1>2. CASE Handler /\ ~Adapter
  BY <1>2, HandlerSteps
<1>3. CASE Engines
  <2>1. UNCHANGED want /\ EnTypeOK'
    BY <1>3, EngineType, Zenon DEF Engines, EngineStep, EngineCreate, EngineCreateDriver,
       EngineCreatePost, EngineCreateDone, EngineUpdate, EngineUpdateDriver, EngineGenerate,
       EngineUpdatePost, EngineRemove, EngineRemoveDriver, EngineForget, EngineNotStarted
  <2>. QED  BY <1>3, <1>l, <1>w, <1>p, <2>1, TypePartsNext DEF Engines, lcVars
<1>4. CASE SecretArrives
  <2>1. EnTypeOK' /\ UNCHANGED want
    BY <1>4, Zenon DEF SecretArrives, SecretEvent, EnTypeOK
  <2>. QED  BY <1>4, <1>l, <1>w, <1>p, <2>1, TypePartsNext DEF SecretArrives, lcVars
<1>5. CASE EventArrives
  <2>1. HandlerType' /\ StoreType'
    BY <1>5 DEF EventArrives, Informer, HandlerType, StoreType
  <2>2. WantType' /\ FlagType' /\ EnTypeOK'
    BY <1>5, <1>w, <1>p, <1>e DEF EventArrives, Informer, enVars, store
  <2>. QED  BY <2>1, <2>2, TypePartsNext
<1>6. CASE SchemaDone
  <2>1. [This EXCEPT !.data.anno = "updated"] \in ObjectType
    BY MadeAlike, Zenon
  <2>2. conflict' \subseteq Objects /\ StoreType'
    BY <1>6, <2>1, Stored DEF SchemaDone, WriteBy, StoreType, HandlerType
  <2>3. HandlerType'
    BY <1>6, <1>q, <2>2 DEF SchemaDone, HandlerType
  <2>4. WantType' /\ FlagType' /\ EnTypeOK'
    BY <1>6, <1>w, <1>e, Zenon DEF SchemaDone, FlagType
  <2>. QED  BY <2>2, <2>3, <2>4, TypePartsNext
<1>7. CASE Resync
  <2>1. HandlerType' /\ StoreType'
    BY <1>7, <1>q DEF Resync, StoreType, HandlerType
  <2>2. WantType' /\ FlagType' /\ EnTypeOK'
    BY <1>7, <1>w, <1>p, <1>e, Zenon DEF Resync, enVars, store
  <2>. QED  BY <2>1, <2>2, TypePartsNext
<1>8. CASE Timers
  <2>1. HandlerType' /\ StoreType'
    BY <1>8, <1>l, <1>q, Zenon DEF Timers, BackoffOver, Wake, TwentySeconds, StoreType, HandlerType
  <2>2. WantType' /\ EnTypeOK'
    BY <1>8, <1>w, <1>e, Zenon DEF Timers, BackoffOver, Wake, TwentySeconds, lcVars, enVars, store
  <2>3. FlagType'
    BY <1>8, Zenon DEF Timers, BackoffOver, Wake, TwentySeconds, FlagType
  <2>. QED  BY <2>1, <2>2, <2>3, TypePartsNext
<1>9. CASE UserWrites
  <2>1. /\ WantType' /\ FlagType' /\ EnTypeOK'
        /\ UNCHANGED <<cache, mine, queue, pc, tries>>
    <3>1. FlagType'
      BY <1>9, Zenon DEF UserWrites, FlagType
    <3>. QED  BY <1>9, <1>w, <1>e, <3>1 DEF UserWrites
  <2>2. ASSUME NEW n \in ObjectType, WriteBy(Cluster, n)
        PROVE  TypeOK'
    <3>1. StoreType' /\ HandlerType'
      BY <2>1, <2>2, <1>q, Stored DEF WriteBy, HandlerType
    <3>. QED  BY <2>1, <3>1, TypePartsNext
  <2>3. ASSUME NEW k \in Configs, WriteBy(Cluster, [This EXCEPT !.data.spec = k])
        PROVE  TypeOK'
    <3>1. [This EXCEPT !.data.spec = k] \in ObjectType
      BY MadeData, Zenon
    <3>. QED  BY <2>2, <2>3, <3>1
  <2>4. CASE DeleteBy(Cluster)
    <3>1. CASE This.deleting
      <4>1. StoreType' /\ HandlerType'
        BY <2>1, <2>4, <3>1, <1>q DEF DeleteBy, This, StoreType, HandlerType
      <4>. QED  BY <2>1, <4>1, TypePartsNext
    <3>2. CASE ~This.deleting
      <4>1. [This EXCEPT !.deleting = TRUE] \in ObjectType /\ Absent \in ObjectType
        BY MadeFlags, AbsentType, Zenon
      <4>. QED  BY <2>2, <2>4, <3>2, <4>1 DEF DeleteBy, This
    <3>. QED  BY <3>1, <3>2
  <2>. QED  BY <1>9, <2>2, <2>3, <2>4 DEF UserWrites
<1>10. CASE Restart
  <2>1. HandlerType' /\ StoreType'
    BY <1>10, AbsentType DEF Restart, LCRestart, HandlerType, StoreType, Labels
  <2>2. EnTypeOK'
    <3>1. cloud' \in Configs \cup {0}
      BY <1>10, Zenon DEF Restart, EnRestart, EnTypeOK
    <3>. QED  BY <1>10, <3>1, ValueType, Zenon DEF Restart, EnRestart, EnTypeOK
  <2>3. WantType' /\ FlagType'
    BY <1>10, Zenon DEF Restart, LCRestart, WantType, Wanting, FlagType
  <2>. QED  BY <2>1, <2>2, <2>3, TypePartsNext
<1>11. CASE UNCHANGED vars
  <2>1. UNCHANGED lcVars /\ UNCHANGED <<want, pc>> /\ UNCHANGED pvVars
          /\ UNCHANGED <<store, cloud, epc, c, want, gaveUp>>
    BY <1>11 DEF vars, lcVars, enVars, pvVars, store
  <2>. QED  BY <1>l, <1>w, <1>p, <1>e, <2>1, TypePartsNext
<1>. QED
  BY <1>1, <1>2, <1>3, <1>4, <1>5, <1>6, <1>7, <1>8, <1>9, <1>10, <1>11 DEF Next

\* The types at the start.
LEMMA TypeInit == Init => TypeOK
<1>. SUFFICES ASSUME Init PROVE TypeOK
  OBVIOUS
<1>1. [Absent EXCEPT !.there = TRUE] \in ObjectType
  BY AbsentType, Zenon DEF ObjectType
<1>2. HandlerType /\ StoreType
  BY <1>1, AbsentType DEF Init, HandlerType, StoreType, Labels
<1>3. EnTypeOK /\ FlagType
  BY ValueType, Zenon DEF Init, EnInit, EnTypeOK, FlagType
<1>4. WantType
  BY OneCluster DEF Init, WantType, Wanting
<1>. QED  BY <1>2, <1>3, <1>4, TypeParts

\* Type correctness of provisioner and engine, for any number of configurations and
\* faults; the driver always has a configuration.
THEOREM TypeCorrect == Spec => []TypeOK
  BY TypeInit, TypeStep, PTL DEF Spec

-----------------------------------------------------------------------------
(* What the copies of the cluster say of each other.                       *)

Cached == cache[Cluster]
Gone(o) == ~o.there \/ o.deleting
Ending == {"finalize", "remove", "removeFinalizer"}
Later == {"setInitialized", "updated", "migrate", "getSpec", "driverCreate", "driverUpdate",
          "succeeded", "failed", "save"}

\* An initialized object has its finalizer and driver, a deleted one its finalizer.
Proper(o) == (o.init => o.fin /\ o.data.driver) /\ (o.deleting => o.there /\ o.fin)

\* A copy that is not known to be old is the API server's.
FreshCopies ==
  /\ Cluster \notin old => Cached = This
  /\ pc[Cluster] # "idle" /\ Cluster \notin conflict => Mine = This

\* A finalizer that has been seen is still there, unless the deletion has been seen, too;
\* the driver does not change any more after the deletion.
CachedInv ==
  /\ Proper(This) /\ Proper(Cached)
  /\ Cached.there /\ ~Cached.deleting /\ Cached.fin
       => This.there /\ This.fin /\ (Cached.data.driver => This.data.driver)
  /\ Cached.there /\ Cached.deleting /\ This.there
       => This.deleting /\ This.data.driver = Cached.data.driver

\* What the handler relies on at each of its steps.
HandlerInv ==
  /\ pc[Cluster] = "addFinalizer" => Mine.there /\ ~Mine.deleting
  /\ pc[Cluster] = "create" =>
       /\ This.there /\ This.fin
       /\ Mine.there /\ ~Mine.deleting /\ (Mine.data.driver => This.data.driver)
  /\ pc[Cluster] \in Later => This.there /\ This.fin /\ This.data.driver
  /\ pc[Cluster] \in Ending => Gone(This) /\ Gone(Cached)
  /\ pc[Cluster] = "finalize" /\ This.there => This.data.driver = Mine.data.driver

CopyInv == FreshCopies /\ CachedInv /\ HandlerInv

\* Steps that change nothing these invariants are about, but where the handler is.
Moves ==
  /\ Alike(This, This') /\ UNCHANGED cache
  /\ UNCHANGED <<This, old>> \/ Cluster \in old'
  /\ pc[Cluster]' # "idle" /\ Cluster \notin conflict' => Mine' = This'
  /\ \/ pc[Cluster]' = "idle"
     \/ pc[Cluster]' = pc[Cluster] /\ Mine' = Mine
     \/ /\ pc[Cluster]' \in Later
        /\ pc[Cluster] \in Later \/ (pc[Cluster] = "create" /\ Mine.data.driver)
     \/ pc[Cluster]' \in {"remove", "removeFinalizer"} /\ pc[Cluster] \in Ending

LEMMA MovesKeep == TypeOK /\ CopyInv /\ Moves => CopyInv'
<1>. SUFFICES ASSUME TypeOK, CopyInv, Moves PROVE CopyInv'
  OBVIOUS
<1>1. Cached' = Cached
  BY DEF Moves, Cached
<1>2. FreshCopies'
  <2>1. Cluster \notin old' => Cached' = This'
    BY <1>1 DEF Moves, CopyInv, FreshCopies
  <2>. QED  BY <2>1 DEF Moves, FreshCopies
<1>3. CachedInv'
  BY <1>1, Zenon DEF Moves, Alike, CopyInv, CachedInv, Proper
<1>4. HandlerInv'
  <2>1. CASE pc[Cluster]' = "idle"
    BY <2>1, Zenon DEF HandlerInv, Later, Ending
  <2>2. CASE pc[Cluster]' = pc[Cluster] /\ Mine' = Mine
    BY <1>1, <2>2, Zenon DEF Moves, Alike, CopyInv, HandlerInv, Gone
  <2>3. CASE /\ pc[Cluster]' \in Later
             /\ pc[Cluster] \in Later \/ (pc[Cluster] = "create" /\ Mine.data.driver)
    <3>1. This'.there /\ This'.fin /\ This'.data.driver
      BY <2>3, Zenon DEF Moves, Alike, CopyInv, HandlerInv
    <3>. QED  BY <2>3, <3>1, Zenon DEF HandlerInv, Later, Ending
  <2>4. CASE pc[Cluster]' \in {"remove", "removeFinalizer"} /\ pc[Cluster] \in Ending
    <3>1. Gone(This') /\ Gone(Cached')
      BY <1>1, <2>4, Zenon DEF Moves, Alike, CopyInv, HandlerInv, Gone
    <3>. QED  BY <2>4, <3>1 DEF HandlerInv, Later, Gone
  <2>. QED  BY <2>1, <2>2, <2>3, <2>4, Zenon DEF Moves
<1>. QED  BY <1>2, <1>3, <1>4 DEF CopyInv

\* The server has n, or n is what it had.
Has(n) == Store(Cluster, n) \/ (n = This /\ UNCHANGED <<obj, old>>)

LEMMA HasIt ==
  ASSUME TypeOK, NEW n \in ObjectType, Has(n), UNCHANGED cache
  PROVE  This' = n /\ (UNCHANGED <<This, old>> \/ Cluster \in old')
  BY Stored, TypeParts DEF Has, This

\* A handler that goes on, among the steps of Create and Updated or of Remove ...
LEMMA GoesOn ==
  ASSUME TypeOK, NEW n \in ObjectType, NEW o \in ObjectType, NEW l \in Labels,
         Has(n), Alike(This, n), UNCHANGED cache, Continue(Cluster, l, o),
         Cluster \notin conflict' => o = n,
         \/ /\ l \in Later
            /\ pc[Cluster] \in Later \/ (pc[Cluster] = "create" /\ Mine.data.driver)
         \/ l \in {"remove", "removeFinalizer"} /\ pc[Cluster] \in Ending
  PROVE  Moves
<1>1. This' = n /\ (UNCHANGED <<This, old>> \/ Cluster \in old')
  BY HasIt
<1>2. pc[Cluster]' = l /\ Mine' = o
  BY Continued, TypeParts
<1>. QED  BY <1>1, <1>2 DEF Moves

\* ... or ends.
LEMMA GoesHome ==
  ASSUME TypeOK, NEW n \in ObjectType, Has(n), Alike(This, n), UNCHANGED cache,
         Return(Cluster) \/ Retry(Cluster)
  PROVE  Moves
<1>1. This' = n /\ (UNCHANGED <<This, old>> \/ Cluster \in old')
  BY HasIt
<1>2. pc[Cluster]' = "idle"
  BY Ended, TypeParts DEF Return, Retry
<1>. QED  BY <1>1, <1>2 DEF Moves

LEMMA AlikeSelf == \A o : Alike(o, o) /\ SameNumbers(o, o)
  BY DEF Alike, SameNumbers

\* Somebody else writes, and changes nothing of this.
LEMMA OthersWrite ==
  ASSUME TypeOK, CopyInv, NEW n \in ObjectType, WriteBy(Cluster, n), Alike(This, n),
         UNCHANGED <<cache, mine, pc>>
  PROVE  Moves
<1>1. This' = n /\ old' = {Cluster}
  BY Stored, TypeParts DEF WriteBy
<1>2. pc[Cluster]' # "idle" => Cluster \in conflict'
  BY DEF WriteBy
<1>3. pc[Cluster]' = pc[Cluster] /\ Mine' = Mine
  BY DEF Mine
<1>. QED  BY <1>1, <1>2, <1>3 DEF Moves

\* The handler's own steps, but for pending's first and the beginning of Updated.
LEMMA HandlerMoves ==
  ASSUME TypeOK, CopyInv, Handler, ~Adapter, ~SyncUpdated,
         ~(Pending /\ ~Mine.data.driver)
  PROVE  Moves
<1>. USE AlikeSelf
<1>. This \in ObjectType /\ Mine \in ObjectType /\ want \in Configs \cup {0}
  BY Copies DEF TypeOK, EnTypeOK
<1>f. pc[Cluster] # "idle" /\ Cluster \notin conflict => Mine = This
  BY DEF CopyInv, FreshCopies
<1>h. UNCHANGED <<obj, old>> => Has(This)
  BY DEF Has
<1>r. pc[Cluster] # "idle" /\ Record => Has(This)
  BY <1>f, <1>h DEF Record, Update, Has
<1>l. \A x \in Later : x \in Labels /\ x # "idle"
  BY DEF Later, Labels
<1>e. {"remove", "removeFinalizer"} \subseteq Labels
  BY DEF Labels
<1>1. CASE Pending
  <2>1. /\ Continue(Cluster, "getSpec", Mine) /\ UNCHANGED <<obj, old, cache, conflict>>
        /\ pc[Cluster] = "create"
    BY <1>1 DEF Pending
  <2>. QED  BY <1>1, <1>f, <1>h, <1>l, <2>1, GoesOn DEF Later
<1>2. CASE StartUpdating
  <2>. DEFINE n == [This EXCEPT !.data.anno = "updating"]
  <2>1. n \in ObjectType /\ Alike(This, n)
    BY MadeAlike, Zenon
  <2>2. Has(n) /\ UNCHANGED cache /\ (Return(Cluster) \/ Retry(Cluster))
    BY <1>2 DEF StartUpdating, Has
  <2>. HIDE DEF n
  <2>. QED  BY <2>1, <2>2, GoesHome
<1>3. CASE WaitUpdating \/ BackoffFailure
  <2>1. Record /\ UNCHANGED cache /\ Return(Cluster) /\ pc[Cluster] # "idle"
    BY <1>3 DEF WaitUpdating, BackoffFailure
  <2>. QED  BY <1>r, <2>1, GoesHome
<1>4. CASE TakeOver
  <2>. DEFINE n == [Mine EXCEPT !.data.anno = "updated"]
  <2>0. Mine = This
    BY <1>4, <1>f DEF TakeOver, Update
  <2>1. n \in ObjectType /\ Alike(This, n)
    BY <2>0, MadeAlike, Zenon
  <2>2. Has(n) /\ UNCHANGED cache /\ Return(Cluster)
    BY <1>4 DEF TakeOver, Has, Update
  <2>. HIDE DEF n
  <2>. QED  BY <2>1, <2>2, GoesHome
<1>5. CASE Reconcile
  <2>1. /\ UNCHANGED <<obj, old, cache, conflict>> /\ pc[Cluster] = "updated"
        /\ \/ Continue(Cluster, "getSpec", Mine)
           \/ Continue(Cluster, "migrate", Mine)
    BY <1>5 DEF Reconcile, Local
  <2>. QED  BY <1>f, <1>h, <1>l, <2>1, GoesOn DEF Later
<1>6. CASE Migrated
  <2>. DEFINE n == [Mine EXCEPT !.data.migrated = TRUE]
  <2>0. Mine = This
    BY <1>6, <1>f DEF Migrated, Update
  <2>1. n \in ObjectType /\ Alike(This, n)
    BY <2>0, MadeAlike, Zenon
  <2>2. /\ Has(n) /\ UNCHANGED <<cache, conflict>> /\ Continue(Cluster, "getSpec", n)
        /\ pc[Cluster] = "migrate"
    BY <1>6 DEF Migrated, Has, Update
  <2>. HIDE DEF n
  <2>. QED  BY <1>l, <2>1, <2>2, GoesOn DEF Later
<1>7. CASE NothingToDo
  <2>1. /\ UNCHANGED cache /\ pc[Cluster] = "getSpec"
        /\ \/ Return(Cluster) /\ Record
           \/ /\ Continue(Cluster, "setInitialized", Mine)
              /\ UNCHANGED <<obj, old, conflict>>
    BY <1>7, Zenon DEF NothingToDo, Local
  <2>. QED  BY <1>f, <1>h, <1>l, <1>r, <2>1, GoesOn, GoesHome DEF Later
<1>8. CASE Provision
  <2>0. pc[Cluster] = "getSpec" /\ UNCHANGED <<cache, conflict>>
    BY <1>8 DEF Provision
  <2>1. \/ Store(Cluster, Mine) /\ Cluster \notin conflict
        \/ UNCHANGED <<obj, old>> /\ Cluster \in conflict
    BY <1>8, Zenon DEF Provision, Update, TryUpdate
  <2>2. Has(This)
    BY <1>f, <1>h, <2>0, <2>1 DEF Has
  <2>3. Continue(Cluster, "driverUpdate", Mine) \/ Continue(Cluster, "driverCreate", Mine)
    BY <1>8, Zenon DEF Provision
  <2>. QED  BY <1>f, <1>l, <2>0, <2>2, <2>3, GoesOn DEF Later
<1>9. CASE UpdateExisting
  <2>1. /\ UNCHANGED <<obj, old, cache, conflict>> /\ pc[Cluster] = "driverCreate"
        /\ Continue(Cluster, "driverUpdate", Mine)
    BY <1>9 DEF UpdateExisting, Local
  <2>. QED  BY <1>f, <1>h, <1>l, <2>1, GoesOn DEF Later
<1>10. CASE Reload
  <2>1. PICK l \in {"succeeded", "failed"} : Continue(Cluster, l, This)
    BY <1>10 DEF Reload
  <2>2. UNCHANGED <<obj, old, cache>> /\ pc[Cluster] \in {"driverCreate", "driverUpdate"}
    BY <1>10 DEF Reload
  <2>. QED  BY <1>h, <1>l, <2>1, <2>2, GoesOn DEF Later
<1>11. CASE RecordFailure
  <2>. DEFINE n == [Mine EXCEPT !.data.failed = want]
  <2>0. UNCHANGED cache /\ Retry(Cluster)
    BY <1>11 DEF RecordFailure
  <2>1. CASE Store(Cluster, n) /\ Cluster \notin conflict
    <3>0. Mine = This
      BY <1>11, <1>f, <2>1 DEF RecordFailure
    <3>1. n \in ObjectType /\ Alike(This, n)
      BY <3>0, MadeAlike, Zenon
    <3>2. Has(n)
      BY <2>1 DEF Has
    <3>. HIDE DEF n
    <3>. QED  BY <2>0, <3>1, <3>2, GoesHome
  <2>2. CASE UNCHANGED <<obj, old>>
    BY <1>h, <2>0, <2>2, GoesHome
  <2>. QED  BY <1>11, <2>1, <2>2 DEF RecordFailure, Update
<1>12. CASE RecordSuccess
  <2>. DEFINE n == [Mine EXCEPT !.data.failed = 0]
  <2>0. /\ UNCHANGED <<cache, conflict>> /\ pc[Cluster] = "succeeded"
        /\ Continue(Cluster, "save", n)
    BY <1>12 DEF RecordSuccess
  <2>1. n \in ObjectType /\ Alike(Mine, n)
    BY MadeAlike, Zenon
  <2>2. \/ n = Mine /\ UNCHANGED <<obj, old>>
        \/ Store(Cluster, n) /\ Cluster \notin conflict
    BY <1>12 DEF RecordSuccess, Update
  <2>. HIDE DEF n
  <2>3. CASE n = Mine /\ UNCHANGED <<obj, old>>
    BY <1>f, <1>h, <1>l, <2>0, <2>3, GoesOn DEF Later
  <2>4. CASE Store(Cluster, n) /\ Cluster \notin conflict
    <3>1. Mine = This
      BY <1>f, <2>0, <2>4
    <3>. QED  BY <1>l, <2>0, <2>1, <2>4, <3>1, GoesOn DEF Later, Has
  <2>. QED  BY <2>2, <2>3, <2>4
<1>13. CASE Save
  <2>. DEFINE n == [This EXCEPT !.data.applied = want]
  <2>1. n \in ObjectType /\ Alike(This, n)
    BY MadeData, Zenon
  <2>2. /\ Has(n) /\ UNCHANGED cache /\ pc[Cluster] = "save"
        /\ Return(Cluster) \/ Retry(Cluster) \/ Continue(Cluster, "setInitialized", n)
    BY <1>13 DEF Save, Has
  <2>. HIDE DEF n
  <2>. QED  BY <1>l, <2>1, <2>2, GoesOn, GoesHome DEF Later
<1>14. CASE Remove
  <2>0. pc[Cluster] = "finalize" /\ UNCHANGED <<cache, conflict>>
    BY <1>14 DEF Remove
  <2>1. \/ Store(Cluster, Mine) /\ Cluster \notin conflict
        \/ UNCHANGED <<obj, old>>
    BY <1>14 DEF Remove, TryUpdate
  <2>2. Has(This)
    BY <1>f, <1>h, <2>0, <2>1 DEF Has
  <2>3. Continue(Cluster, "remove", Mine) \/ Continue(Cluster, "removeFinalizer", Mine)
    BY <1>14 DEF Remove
  <2>. QED  BY <1>e, <1>f, <2>0, <2>2, <2>3, GoesOn DEF Ending
<1>15. CASE Removed
  <2>1. /\ UNCHANGED <<obj, old, cache>> /\ pc[Cluster] = "remove"
        /\ Continue(Cluster, "removeFinalizer", This)
    BY <1>15 DEF Removed
  <2>. QED  BY <1>e, <1>h, <2>1, GoesOn DEF Ending
<1>16. CASE HandlerFails
  <2>1. /\ pc[Cluster] # "idle" /\ UNCHANGED cache
        /\ \/ /\ Continue(Cluster, "removeFinalizer", This) /\ pc[Cluster] = "removeFinalizer"
              /\ UNCHANGED <<obj, old>>
           \/ Retry(Cluster) /\ Record
    BY <1>16, Zenon DEF HandlerFails, RemoveFinalizerAgain, This, Record
  <2>. QED  BY <1>e, <1>h, <1>r, <2>1, GoesOn, GoesHome DEF Ending
<1>. QED
  BY <1>1, <1>2, <1>3, <1>4, <1>5, <1>6, <1>7, <1>8, <1>9, <1>10, <1>11, <1>12, <1>13,
     <1>14, <1>15, <1>16 DEF Handler

\* The steps that are left, one by one.
LEMMA CopyStep == TypeOK /\ CopyInv /\ [Next]_vars => CopyInv'
<1>. SUFFICES ASSUME TypeOK, CopyInv, [Next]_vars PROVE CopyInv'
  OBVIOUS
<1>. This \in ObjectType /\ Mine \in ObjectType /\ Cached \in ObjectType
  BY Copies DEF Cached
<1>b. /\ This.there \in BOOLEAN /\ This.deleting \in BOOLEAN /\ This.fin \in BOOLEAN
      /\ This.data.driver \in BOOLEAN
  BY Fields
<1>f. /\ pc[Cluster] # "idle" /\ Cluster \notin conflict => Mine = This
      /\ Cluster \notin old => Cached = This
  BY DEF CopyInv, FreshCopies
<1>t. HandlerType /\ StoreType /\ Objects = {Cluster}
  BY TypeParts, OneCluster
<1>u. UNCHANGED <<obj, cache, old, mine, conflict, pc>> => Moves
  <2>1. UNCHANGED <<obj, cache, old, mine, conflict, pc>> => UNCHANGED <<This, Mine>>
    BY Zenon DEF This, Mine
  <2>. QED  BY <1>f, <2>1, AlikeSelf DEF Moves
\* The handler stores n and goes on with it at l, or stores n and ends.
<1>n. ASSUME NEW n \in ObjectType, Store(Cluster, n), UNCHANGED cache
      PROVE  This' = n /\ Cached' = Cached /\ Cluster \in old'
  BY <1>n, <1>t, Stored DEF Cached
<1>1. CASE Sync(Cluster) /\ ~NeedsUpdate
  <2>. DEFINE l == FirstStep(Cached)
  <2>1. /\ pc[Cluster]' = l /\ This' = This /\ Cached' = Cached /\ UNCHANGED old
        /\ l # "idle" => Mine' = Cached /\ (Cluster \notin conflict' => Cluster \notin old)
    BY <1>1, <1>t, Zenon DEF Sync, This, Cached, Mine, HandlerType
  <2>2. /\ l \in {"idle", "finalize", "create", "addFinalizer"}
        /\ l = "finalize" => Cached.there /\ Cached.deleting /\ Cached.fin
        /\ l = "create" => Cached.there /\ ~Cached.deleting /\ Cached.fin
        /\ l = "addFinalizer" => Cached.there /\ ~Cached.deleting
    BY DEF FirstStep
  <2>. HIDE DEF l
  <2>3. FreshCopies' /\ CachedInv'
    BY <1>f, <2>1, Zenon DEF CopyInv, FreshCopies, CachedInv, Proper
  <2>4. HandlerInv'
    BY <2>1, <2>2, Zenon DEF CopyInv, CachedInv, HandlerInv, Gone, Later, Ending
  <2>. QED  BY <2>3, <2>4 DEF CopyInv
<1>2. CASE AddFinalizer(Cluster)
  <2>. DEFINE n == [Mine EXCEPT !.fin = TRUE]
  <2>1. /\ n \in ObjectType /\ n.fin /\ n.data.driver = Mine.data.driver
        /\ n.there = Mine.there /\ n.deleting = Mine.deleting /\ n.init = Mine.init
    BY MadeFlags, Zenon
  <2>2. /\ Store(Cluster, n) /\ Continue(Cluster, "create", n) /\ UNCHANGED cache
        /\ pc[Cluster] = "addFinalizer" /\ Cluster \notin conflict
    BY <1>2 DEF AddFinalizer, Update, Mine
  <2>. HIDE DEF n
  <2>3. This' = n /\ Cached' = Cached /\ Cluster \in old' /\ pc[Cluster]' = "create" /\ Mine' = n
    BY <1>n, <1>t, <2>1, <2>2, Continued, Zenon DEF Labels
  <2>4. Mine = This /\ This.there /\ ~This.deleting
    BY <1>f, <2>2 DEF CopyInv, HandlerInv
  <2>5. FreshCopies'
    BY <2>3 DEF FreshCopies
  <2>6. CachedInv'
    BY <2>1, <2>3, <2>4, Zenon DEF CopyInv, CachedInv, Proper
  <2>7. HandlerInv'
    BY <2>1, <2>3, <2>4 DEF HandlerInv, Later, Ending
  <2>. QED  BY <2>5, <2>6, <2>7 DEF CopyInv
<1>3. CASE SetInitialized(Cluster)
  <2>. DEFINE n == [Mine EXCEPT !.init = TRUE]
  <2>1. /\ n \in ObjectType /\ n.init /\ n.data.driver = Mine.data.driver
        /\ n.there = Mine.there /\ n.deleting = Mine.deleting /\ n.fin = Mine.fin
    BY MadeFlags, Zenon
  <2>2. /\ Store(Cluster, n) /\ Return(Cluster) /\ UNCHANGED cache
        /\ pc[Cluster] = "setInitialized" /\ Cluster \notin conflict
    BY <1>3 DEF SetInitialized, Update, Mine
  <2>. HIDE DEF n
  <2>3. This' = n /\ Cached' = Cached /\ Cluster \in old' /\ pc[Cluster]' = "idle"
    BY <1>n, <1>t, <2>1, <2>2, Ended, Zenon DEF Return
  <2>4. Mine = This /\ This.there /\ This.fin /\ This.data.driver
    BY <1>f, <2>2 DEF CopyInv, HandlerInv, Later
  <2>5. FreshCopies' /\ HandlerInv'
    BY <2>3, Zenon DEF FreshCopies, HandlerInv, Later, Ending
  <2>6. CachedInv'
    BY <2>1, <2>3, <2>4, Zenon DEF CopyInv, CachedInv, Proper
  <2>. QED  BY <2>5, <2>6 DEF CopyInv
<1>4. CASE RemoveFinalizer(Cluster)
  <2>1. This' = Absent /\ Cached' = Cached /\ Cluster \in old' /\ pc[Cluster]' = "idle"
    BY <1>4, <1>n, <1>t, AbsentType, Ended, Zenon DEF RemoveFinalizer, Update, Return
  <2>2. Gone(Cached)
    BY <1>4 DEF RemoveFinalizer, CopyInv, HandlerInv, Ending
  <2>3. FreshCopies' /\ HandlerInv'
    BY <2>1, Zenon DEF FreshCopies, HandlerInv, Later, Ending
  <2>4. CachedInv'
    BY <2>1, <2>2, AbsentType, Zenon DEF CopyInv, CachedInv, Proper, Gone
  <2>. QED  BY <2>3, <2>4 DEF CopyInv
<1>6. CASE Pending /\ ~Mine.data.driver
  <2>. DEFINE n == [Mine EXCEPT !.data.driver = TRUE]
  <2>1. /\ n \in ObjectType /\ n.data.driver
        /\ n.there = Mine.there /\ n.deleting = Mine.deleting /\ n.fin = Mine.fin /\ n.init = Mine.init
    BY MadeData
  <2>2. /\ Store(Cluster, n) /\ Continue(Cluster, "getSpec", n) /\ UNCHANGED cache
        /\ pc[Cluster] = "create" /\ Cluster \notin conflict
    BY <1>6 DEF Pending, Update
  <2>. HIDE DEF n
  <2>3. This' = n /\ Cached' = Cached /\ Cluster \in old' /\ pc[Cluster]' = "getSpec" /\ Mine' = n
    BY <1>n, <1>t, <2>1, <2>2, Continued, Zenon DEF Labels
  <2>4. Mine = This /\ This.there /\ ~This.deleting /\ This.fin
    BY <1>f, <2>2, Zenon DEF CopyInv, HandlerInv
  <2>5. FreshCopies'
    BY <2>3 DEF FreshCopies
  <2>6. CachedInv'
    BY <2>1, <2>3, <2>4, Zenon DEF CopyInv, CachedInv, Proper
  <2>7. HandlerInv'
    BY <2>1, <2>3, <2>4, Zenon DEF HandlerInv, Later, Ending
  <2>. QED  BY <2>5, <2>6, <2>7 DEF CopyInv
<1>7. CASE SyncUpdated
  <2>1. /\ pc[Cluster]' = "updated" /\ This' = This /\ Cached' = Cached /\ UNCHANGED old
        /\ Mine' = Cached /\ conflict' = old
        /\ Cached.there /\ ~Cached.deleting /\ Cached.init
    BY <1>7, <1>t, Zenon DEF SyncUpdated, NeedsUpdate, This, Cached, Mine, HandlerType
  <2>2. FreshCopies' /\ CachedInv'
    BY <1>f, <2>1, Zenon DEF CopyInv, FreshCopies, CachedInv, Proper
  <2>3. This.there /\ This.fin /\ This.data.driver
    BY <2>1, Zenon DEF CopyInv, CachedInv, Proper
  <2>4. HandlerInv'
    BY <2>1, <2>3 DEF HandlerInv, Later, Ending
  <2>. QED  BY <2>2, <2>4 DEF CopyInv
<1>8. CASE Handler /\ ~Adapter /\ ~SyncUpdated /\ ~(Pending /\ ~Mine.data.driver)
  BY <1>8, HandlerMoves, MovesKeep
<1>9. CASE EventArrives
  <2>1. This' = This /\ Cached' = This /\ Mine' = Mine /\ UNCHANGED <<conflict, pc>>
    BY <1>9, <1>t DEF EventArrives, Informer, This, Cached, Mine, StoreType
  <2>2. FreshCopies'
    BY <1>f, <2>1 DEF FreshCopies
  <2>3. CachedInv'
    BY <1>b, <2>1, Zenon DEF CopyInv, CachedInv, Proper
  <2>4. HandlerInv'
    BY <2>1, Zenon DEF CopyInv, HandlerInv, Gone
  <2>. QED  BY <2>2, <2>3, <2>4 DEF CopyInv
<1>10. CASE SchemaDone
  <2>. DEFINE n == [This EXCEPT !.data.anno = "updated"]
  <2>1. n \in ObjectType /\ Alike(This, n)
    BY MadeAlike, Zenon
  <2>2. \/ UNCHANGED <<obj, cache, old, mine, conflict, pc>>
        \/ WriteBy(Cluster, n) /\ UNCHANGED <<cache, mine, pc>>
    BY <1>10 DEF SchemaDone
  <2>. HIDE DEF n
  <2>. QED  BY <1>u, <2>1, <2>2, OthersWrite, MovesKeep
<1>11. CASE UserWrites
  <2>0. UNCHANGED <<cache, mine, pc>> /\ This.there
    BY <1>11 DEF UserWrites
  <2>1. ASSUME NEW n \in ObjectType, Alike(This, n), WriteBy(Cluster, n) PROVE CopyInv'
    BY <2>0, <2>1, OthersWrite, MovesKeep
  <2>2. ASSUME NEW k \in Configs, WriteBy(Cluster, [This EXCEPT !.data.spec = k])
        PROVE  CopyInv'
    <3>1. LET n == [This EXCEPT !.data.spec = k]
          IN  n \in ObjectType /\ Alike(This, n)
      BY MadeData, Zenon
    <3>. QED  BY <2>1, <2>2, <3>1
  <2>3. CASE WriteBy(Cluster, This)
    BY <2>1, <2>3, AlikeSelf
  <2>4. CASE DeleteBy(Cluster) /\ This.deleting
    <3>1. UNCHANGED <<obj, old, conflict>>
      BY <2>4 DEF DeleteBy, This
    <3>. QED  BY <1>u, <2>0, <3>1, MovesKeep
  <2>5. CASE DeleteBy(Cluster) /\ ~This.deleting
    <3>. DEFINE d == [This EXCEPT !.deleting = TRUE]
                n == IF This.fin THEN d ELSE Absent
    <3>1. /\ d \in ObjectType /\ d.deleting /\ d.data.driver = This.data.driver
          /\ d.there = This.there /\ d.fin = This.fin /\ d.init = This.init
      BY MadeFlags, Zenon
    <3>2. WriteBy(Cluster, n)
      BY <2>5 DEF DeleteBy, This
    <3>. HIDE DEF d
    <3>3. This' = n /\ Cached' = Cached /\ Mine' = Mine /\ Cluster \in old'
            /\ (pc[Cluster] # "idle" => Cluster \in conflict') /\ UNCHANGED pc
      BY <1>n, <2>0, <3>1, <3>2, AbsentType, Zenon DEF WriteBy, Mine
    <3>4. FreshCopies'
      BY <3>3 DEF FreshCopies
    <3>5. CASE This.fin
      <4>1. This' = d
        BY <3>3, <3>5
      <4>2. CachedInv'
        BY <2>0, <3>1, <3>3, <3>5, <4>1, Zenon DEF CopyInv, CachedInv, Proper
      <4>3. HandlerInv'
        BY <3>1, <3>3, <4>1, Zenon DEF CopyInv, HandlerInv, Gone
      <4>. QED  BY <3>4, <4>2, <4>3 DEF CopyInv
    <3>6. CASE ~This.fin
      <4>1. This' = Absent
        BY <3>3, <3>6
      <4>2. CachedInv'
        BY <2>0, <2>5, <3>3, <3>6, <4>1, AbsentType, Zenon DEF CopyInv, CachedInv, Proper
      <4>3. HandlerInv'
        BY <3>3, <3>6, <4>1, AbsentType, Zenon DEF CopyInv, HandlerInv, Gone
      <4>. QED  BY <3>4, <4>2, <4>3 DEF CopyInv
    <3>. QED  BY <3>5, <3>6
  <2>. QED  BY <1>11, <2>2, <2>3, <2>4, <2>5 DEF UserWrites
<1>12. CASE Restart
  <2>1. This' = This /\ Cached' = This /\ pc[Cluster]' = "idle"
    BY <1>12, <1>t, Zenon DEF Restart, LCRestart, This, Cached
  <2>2. FreshCopies' /\ HandlerInv'
    BY <2>1, Zenon DEF FreshCopies, HandlerInv, Later, Ending
  <2>3. CachedInv'
    BY <1>b, <2>1, Zenon DEF CopyInv, CachedInv, Proper
  <2>. QED  BY <2>2, <2>3 DEF CopyInv
<1>13. CASE Engines \/ SecretArrives \/ Resync \/ Timers \/ UNCHANGED vars
  <2>1. UNCHANGED <<obj, cache, old, mine, conflict, pc>>
    BY <1>13, Zenon DEF Engines, SecretArrives, Resync, Timers, BackoffOver, Wake, TwentySeconds,
       vars, lcVars
  <2>. QED  BY <1>u, <2>1, MovesKeep
<1>. QED
  BY <1>1, <1>2, <1>3, <1>4, <1>6, <1>7, <1>8, <1>9, <1>10, <1>11, <1>12, <1>13, Zenon
     DEF Next, Handler, Adapter

-----------------------------------------------------------------------------
(* What the handler asks of the engine.                                    *)

\* The handler goes to l with a copy that asks for s, leaves the engine at e with the
\* configuration w, and changes no number in the object.
Goes(l, s, e, w) ==
  /\ pc[Cluster]' = l /\ Mine'.data.spec = s /\ epc' = e /\ want' = w
  /\ SameNumbers(This, This')
  /\ UNCHANGED <<secret, lister, lagging, cloud, gaveUp>>

\* Sync and SyncUpdated: the handler begins with the cached copy, or has nothing to do.
Starts ==
  /\ pc[Cluster] = "idle"
  /\ \E l \in {"idle", "finalize", "create", "addFinalizer", "updated"},
        s \in {Mine.data.spec, Cached.data.spec} :
       (l # "idle" => s = Cached.data.spec) /\ Goes(l, s, epc, want)

\* All steps of the handler but Save, and of the adapter but RemoveFinalizer.
Table ==
  LET at == pc[Cluster]
      ms == Mine.data.spec IN
  \/ Starts
  \/ at = "addFinalizer" /\ Goes("create", ms, epc, want)
  \/ at = "create" /\ Goes("getSpec", ms, epc, want)
  \/ at \in {"updated", "getSpec", "setInitialized"} /\ Goes("idle", 1, epc, want)
  \/ at = "updated" /\ Goes("getSpec", ms, epc, want)
  \/ at = "updated" /\ Goes("migrate", ms, "generate", want)
  \/ at = "migrate" /\ Goes("getSpec", ms, "idle", want)
  \/ at = "getSpec" /\ Goes("setInitialized", ms, epc, want)
  \/ at = "getSpec" /\ Goes("driverUpdate", ms, "update", ms)
  \/ at = "getSpec" /\ Goes("driverCreate", ms, "create", ms)
  \/ at = "driverCreate" /\ Goes("driverUpdate", ms, "update", want)
  \/ at \in {"driverCreate", "driverUpdate"} /\ epc = "ok"
       /\ Goes("succeeded", This.data.spec, "idle", want)
  \/ at \in {"driverCreate", "driverUpdate"} /\ Goes("failed", This.data.spec, "idle", want)
  \/ at = "failed" /\ Goes("idle", 1, epc, 0)
  \/ at = "succeeded" /\ Goes("save", ms, epc, want)
  \/ at = "finalize" /\ Goes("remove", ms, "remove", want)
  \/ at = "finalize" /\ ~Mine.data.driver /\ Goes("removeFinalizer", ms, epc, want)
  \/ at = "remove" /\ epc = "ok" /\ Goes("removeFinalizer", This.data.spec, "idle", want)
  \/ at = "removeFinalizer" /\ Goes("removeFinalizer", This.data.spec, "idle", 0)
  \/ Goes("idle", 1, "idle", 0)

LEMMA TableContinues ==
  ASSUME TypeOK, NEW n \in ObjectType, NEW o \in ObjectType, NEW l \in Labels,
         Has(n), SameNumbers(This, n), UNCHANGED cache, Continue(Cluster, l, o),
         UNCHANGED <<store, cloud, gaveUp>>
  PROVE  Goes(l, o.data.spec, epc', want')
<1>1. This' = n
  BY HasIt
<1>2. pc[Cluster]' = l /\ Mine' = o
  BY Continued, TypeParts, Zenon
<1>. QED  BY <1>1, <1>2 DEF Goes, store

LEMMA TableEnds ==
  ASSUME TypeOK, NEW n \in ObjectType, Has(n), SameNumbers(This, n), UNCHANGED cache,
         Return(Cluster) \/ Retry(Cluster), UNCHANGED <<store, cloud, gaveUp>>
  PROVE  Goes("idle", 1, epc', want')
<1>1. This' = n
  BY HasIt
<1>2. pc[Cluster]' = "idle" /\ Mine'.data.spec = 1
  BY Ended, TypeParts, AbsentType, Zenon DEF Return, Retry
<1>. QED  BY <1>1, <1>2, Zenon DEF Goes, store

\* The steps of the adapter.
LEMMA AdapterTable ==
  ASSUME TypeOK, CopyInv, Adapter, ~RemoveFinalizer(Cluster)
  PROVE  Table
<1>. USE AlikeSelf
<1>. This \in ObjectType /\ Mine \in ObjectType /\ Cached \in ObjectType
  BY Copies, Zenon DEF Cached
<1>f. pc[Cluster] # "idle" /\ Cluster \notin conflict => Mine = This
  BY DEF CopyInv, FreshCopies
<1>e. UNCHANGED <<secret, lister, lagging, cloud, gaveUp, epc, want>>
        /\ UNCHANGED <<store, cloud, gaveUp>>
  BY DEF Adapter, enVars, store
<1>t. HandlerType /\ Objects = {Cluster}
  BY TypeParts, OneCluster
<1>1. CASE Sync(Cluster)
  <2>. DEFINE l == FirstStep(Cached)
  <2>1. pc[Cluster]' = l /\ This' = This /\ Mine' \in {Mine, Cached} /\ (l # "idle" => Mine' = Cached)
          /\ pc[Cluster] = "idle"
    BY <1>1, <1>t, Zenon DEF Sync, This, Cached, Mine, HandlerType
  <2>2. l \in {"idle", "finalize", "create", "addFinalizer", "updated"}
    BY DEF FirstStep
  <2>. HIDE DEF l
  <2>3. PICK s \in {Mine.data.spec, Cached.data.spec} :
          (l # "idle" => s = Cached.data.spec) /\ Goes(l, s, epc, want)
    <3>1. Goes(l, Mine'.data.spec, epc, want)
      BY <1>e, <2>1, Zenon DEF Goes
    <3>. QED  BY <2>1, <3>1, Zenon
  <2>4. Starts
    BY <2>1, <2>2, <2>3, Zenon DEF Starts
  <2>. QED  BY <2>4, Zenon DEF Table
<1>2. CASE AddFinalizer(Cluster)
  <2>. DEFINE n == [Mine EXCEPT !.fin = TRUE]
  <2>0. Mine = This /\ pc[Cluster] = "addFinalizer"
    BY <1>2, <1>f DEF AddFinalizer, Update
  <2>1. n \in ObjectType /\ SameNumbers(This, n)
    BY <2>0, MadeFlags, Zenon
  <2>2. Has(n) /\ Continue(Cluster, "create", n) /\ UNCHANGED cache
    BY <1>2 DEF AddFinalizer, Update, Mine, Has
  <2>. HIDE DEF n
  <2>3. Goes("create", n.data.spec, epc, want)
    BY <1>e, <2>1, <2>2, TableContinues, Zenon DEF Labels
  <2>4. n.data.spec = Mine.data.spec
    BY <2>0, <2>1 DEF SameNumbers
  <2>. QED  BY <2>0, <2>3, <2>4, Zenon DEF Table
<1>3. CASE SetInitialized(Cluster)
  <2>. DEFINE n == [Mine EXCEPT !.init = TRUE]
  <2>0. Mine = This /\ pc[Cluster] = "setInitialized"
    BY <1>3, <1>f DEF SetInitialized, Update
  <2>1. n \in ObjectType /\ SameNumbers(This, n)
    BY <2>0, MadeFlags, Zenon
  <2>2. Has(n) /\ Return(Cluster) /\ UNCHANGED cache
    BY <1>3 DEF SetInitialized, Update, Mine, Has
  <2>. HIDE DEF n
  <2>3. Goes("idle", 1, epc, want)
    BY <1>e, <2>1, <2>2, TableEnds
  <2>. QED  BY <2>0, <2>3, Zenon DEF Table
<1>. QED  BY <1>1, <1>2, <1>3 DEF Adapter

\* The handler's own.
LEMMA HandlerTable ==
  ASSUME TypeOK, CopyInv, Handler, ~Adapter, ~Save
  PROVE  Table
<1>. USE AlikeSelf
<1>. This \in ObjectType /\ Mine \in ObjectType /\ Cached \in ObjectType /\ want \in Configs \cup {0}
  BY Copies, Zenon DEF Cached, TypeOK, EnTypeOK
<1>f. pc[Cluster] # "idle" /\ Cluster \notin conflict => Mine = This
  BY DEF CopyInv, FreshCopies
<1>h. UNCHANGED <<obj, old>> => Has(This)
  BY DEF Has
<1>r. pc[Cluster] # "idle" /\ Record => Has(This)
  BY <1>f, <1>h DEF Record, Update, Has
<1>n. UNCHANGED enVars => UNCHANGED <<store, cloud, gaveUp, epc, want>>
  BY DEF enVars, store
<1>g. \A l : Engine(l) => UNCHANGED <<store, cloud, gaveUp>> /\ epc' = l
  BY DEF Engine
<1>m. \A n : SameNumbers(Mine, n) => n.data.spec = Mine.data.spec
  BY Zenon DEF SameNumbers
<1>1. CASE Pending
  <2>. DEFINE n == [Mine EXCEPT !.data.driver = TRUE]
  <2>0. pc[Cluster] = "create" /\ UNCHANGED <<cache, conflict, store, cloud, gaveUp, epc, want>>
    BY <1>1, <1>n DEF Pending
  <2>1. n \in ObjectType /\ SameNumbers(Mine, n)
    BY MadeData, Zenon
  <2>2. \/ Continue(Cluster, "getSpec", Mine) /\ UNCHANGED <<obj, old>>
        \/ Cluster \notin conflict /\ Store(Cluster, n) /\ Continue(Cluster, "getSpec", n)
    BY <1>1 DEF Pending, Update
  <2>. HIDE DEF n
  <2>3. Goes("getSpec", Mine.data.spec, epc, want)
    BY <1>f, <1>h, <1>m, <2>0, <2>1, <2>2, TableContinues, Zenon DEF Has, Labels
  <2>. QED  BY <2>0, <2>3, Zenon DEF Table
<1>2. CASE SyncUpdated
  <2>1. /\ pc[Cluster]' = "updated" /\ This' = This /\ Mine' = Cached /\ pc[Cluster] = "idle"
        /\ UNCHANGED <<store, cloud, gaveUp, epc, want>>
    BY <1>2, <1>n, TypeParts, OneCluster, Zenon DEF SyncUpdated, This, Cached, Mine, HandlerType
  <2>2. Goes("updated", Cached.data.spec, epc, want)
    BY <2>1, Zenon DEF Goes, store
  <2>3. Starts
    BY <2>1, <2>2, Zenon DEF Starts
  <2>. QED  BY <2>3, Zenon DEF Table
<1>3. CASE StartUpdating
  <2>. DEFINE n == [This EXCEPT !.data.anno = "updating"]
  <2>1. n \in ObjectType /\ SameNumbers(This, n)
    BY MadeAlike, Zenon
  <2>2. /\ Has(n) /\ UNCHANGED cache /\ (Return(Cluster) \/ Retry(Cluster))
        /\ UNCHANGED <<store, cloud, gaveUp, epc, want>> /\ pc[Cluster] = "updated"
    BY <1>3, <1>n DEF StartUpdating, Has
  <2>. HIDE DEF n
  <2>3. Goes("idle", 1, epc, want)
    BY <2>1, <2>2, TableEnds, Zenon
  <2>. QED  BY <2>2, <2>3, Zenon DEF Table
<1>4. CASE WaitUpdating \/ BackoffFailure
  <2>1. /\ UNCHANGED <<cache, store, cloud, gaveUp, epc, want>> /\ Return(Cluster) /\ Record
        /\ pc[Cluster] \in {"updated", "getSpec"}
    BY <1>4, <1>n, Zenon DEF WaitUpdating, BackoffFailure
  <2>2. Goes("idle", 1, epc, want)
    BY <1>r, <2>1, TableEnds
  <2>. QED  BY <2>1, <2>2, Zenon DEF Table
<1>5. CASE TakeOver
  <2>. DEFINE n == [Mine EXCEPT !.data.anno = "updated"]
  <2>0. Mine = This
    BY <1>5, <1>f DEF TakeOver, Update
  <2>1. n \in ObjectType /\ SameNumbers(This, n)
    BY <2>0, MadeAlike, Zenon
  <2>2. /\ Has(n) /\ UNCHANGED <<cache, store, cloud, gaveUp, epc, want>> /\ Return(Cluster)
        /\ pc[Cluster] = "updated"
    BY <1>5, <1>n DEF TakeOver, Has, Update
  <2>. HIDE DEF n
  <2>3. Goes("idle", 1, epc, want)
    BY <2>1, <2>2, TableEnds
  <2>. QED  BY <2>2, <2>3, Zenon DEF Table
<1>6. CASE Reconcile
  <2>1. /\ UNCHANGED <<obj, old, cache>> /\ pc[Cluster] = "updated"
        /\ \/ Continue(Cluster, "getSpec", Mine) /\ UNCHANGED enVars
           \/ Continue(Cluster, "migrate", Mine) /\ Engine("generate") /\ UNCHANGED want
    BY <1>6, Zenon DEF Reconcile, Local
  <2>2. \/ Goes("getSpec", Mine.data.spec, epc, want)
        \/ Goes("migrate", Mine.data.spec, "generate", want)
    BY <1>g, <1>h, <1>n, <2>1, TableContinues, Zenon DEF Labels
  <2>. QED  BY <2>1, <2>2, Zenon DEF Table
<1>7. CASE Migrated
  <2>. DEFINE n == [Mine EXCEPT !.data.migrated = TRUE]
  <2>0. Mine = This
    BY <1>7, <1>f DEF Migrated, Update
  <2>1. n \in ObjectType /\ SameNumbers(This, n)
    BY <2>0, MadeAlike, Zenon
  <2>2. /\ Has(n) /\ UNCHANGED <<cache, want>> /\ Continue(Cluster, "getSpec", n)
        /\ pc[Cluster] = "migrate" /\ Engine("idle")
    BY <1>7 DEF Migrated, Has, Update
  <2>. HIDE DEF n
  <2>3. Goes("getSpec", Mine.data.spec, "idle", want)
    BY <1>g, <1>m, <2>0, <2>1, <2>2, TableContinues, Zenon DEF Labels
  <2>. QED  BY <2>2, <2>3, Zenon DEF Table
<1>8. CASE NothingToDo
  <2>1. /\ UNCHANGED <<cache, store, cloud, gaveUp, epc, want>>
        /\ pc[Cluster] = "getSpec"
        /\ \/ Return(Cluster) /\ Record
           \/ Continue(Cluster, "setInitialized", Mine) /\ UNCHANGED <<obj, old>>
    BY <1>8, <1>n, Zenon DEF NothingToDo, Local
  <2>2. Goes("idle", 1, epc, want) \/ Goes("setInitialized", Mine.data.spec, epc, want)
    BY <1>h, <1>r, <2>1, TableContinues, TableEnds, Zenon DEF Labels
  <2>. QED  BY <2>1, <2>2, Zenon DEF Table
<1>9. CASE Provision
  <2>0. pc[Cluster] = "getSpec" /\ UNCHANGED cache /\ want' = Mine.data.spec
    BY <1>9, Zenon DEF Provision
  <2>1. \/ Store(Cluster, Mine) /\ Cluster \notin conflict
        \/ UNCHANGED <<obj, old>>
    BY <1>9, Zenon DEF Provision, Update, TryUpdate
  <2>2. Has(This)
    BY <1>f, <1>h, <2>0, <2>1 DEF Has
  <2>3. \/ Continue(Cluster, "driverUpdate", Mine) /\ Engine("update")
        \/ Continue(Cluster, "driverCreate", Mine) /\ Engine("create")
    BY <1>9, Zenon DEF Provision
  <2>4. \/ Goes("driverUpdate", Mine.data.spec, "update", Mine.data.spec)
        \/ Goes("driverCreate", Mine.data.spec, "create", Mine.data.spec)
    BY <1>g, <2>0, <2>2, <2>3, TableContinues, Zenon DEF Labels
  <2>. QED  BY <2>0, <2>4, Zenon DEF Table
<1>10. CASE UpdateExisting
  <2>1. /\ UNCHANGED <<obj, old, cache, want>> /\ pc[Cluster] = "driverCreate"
        /\ Continue(Cluster, "driverUpdate", Mine) /\ Engine("update")
    BY <1>10 DEF UpdateExisting, Local
  <2>2. Goes("driverUpdate", Mine.data.spec, "update", want)
    BY <1>g, <1>h, <2>1, TableContinues, Zenon DEF Labels
  <2>. QED  BY <2>1, <2>2, Zenon DEF Table
<1>11. CASE Reload
  <2>1. /\ \/ Continue(Cluster, "succeeded", This) /\ epc = "ok"
           \/ Continue(Cluster, "failed", This)
        /\ UNCHANGED <<obj, old, cache, want>> /\ Engine("idle")
        /\ pc[Cluster] \in {"driverCreate", "driverUpdate"}
    BY <1>11, Zenon DEF Reload
  <2>2. \/ epc = "ok" /\ Goes("succeeded", This.data.spec, "idle", want)
        \/ Goes("failed", This.data.spec, "idle", want)
    BY <1>g, <1>h, <2>1, TableContinues, Zenon DEF Labels
  <2>. QED  BY <2>1, <2>2, Zenon DEF Table
<1>12. CASE RecordFailure
  <2>. DEFINE n == [Mine EXCEPT !.data.failed = want]
  <2>0. /\ UNCHANGED <<cache, store, cloud, gaveUp, epc>> /\ want' = 0 /\ Retry(Cluster)
        /\ pc[Cluster] = "failed"
    BY <1>12 DEF RecordFailure
  <2>1. n \in ObjectType /\ SameNumbers(Mine, n)
    BY MadeAlike, Zenon
  <2>2. (Cluster \notin conflict /\ Store(Cluster, n)) \/ UNCHANGED <<obj, old>>
    BY <1>12 DEF RecordFailure, Update
  <2>. HIDE DEF n
  <2>3. Goes("idle", 1, epc, 0)
    BY <1>f, <1>h, <2>0, <2>1, <2>2, TableEnds, Zenon DEF Has
  <2>. QED  BY <2>0, <2>3, Zenon DEF Table
<1>13. CASE RecordSuccess
  <2>. DEFINE n == [Mine EXCEPT !.data.failed = 0]
  <2>0. /\ UNCHANGED <<cache, store, cloud, gaveUp, epc, want>> /\ pc[Cluster] = "succeeded"
        /\ Continue(Cluster, "save", n)
    BY <1>13, <1>n DEF RecordSuccess
  <2>1. n \in ObjectType /\ SameNumbers(Mine, n)
    BY MadeAlike, Zenon
  <2>2. (Cluster \notin conflict /\ Store(Cluster, n)) \/ UNCHANGED <<obj, old>>
    BY <1>13 DEF RecordSuccess, Update
  <2>. HIDE DEF n
  <2>3. Goes("save", Mine.data.spec, epc, want)
    BY <1>f, <1>h, <1>m, <2>0, <2>1, <2>2, TableContinues, Zenon DEF Has, Labels
  <2>. QED  BY <2>0, <2>3, Zenon DEF Table
<1>14. CASE Remove
  <2>0. pc[Cluster] = "finalize" /\ UNCHANGED cache
    BY <1>14 DEF Remove
  <2>1. (Store(Cluster, Mine) /\ Cluster \notin conflict) \/ UNCHANGED <<obj, old>>
    BY <1>14 DEF Remove, TryUpdate
  <2>2. Has(This)
    BY <1>f, <1>h, <2>0, <2>1 DEF Has
  <2>3. \/ Continue(Cluster, "remove", Mine) /\ Engine("remove") /\ UNCHANGED want
        \/ Continue(Cluster, "removeFinalizer", Mine) /\ UNCHANGED enVars /\ ~Mine.data.driver
    BY <1>14 DEF Remove
  <2>4. \/ Goes("remove", Mine.data.spec, "remove", want)
        \/ Goes("removeFinalizer", Mine.data.spec, epc, want) /\ ~Mine.data.driver
    BY <1>g, <1>n, <2>0, <2>2, <2>3, TableContinues, Zenon DEF Labels
  <2>. QED  BY <2>0, <2>4, Zenon DEF Table
<1>15. CASE Removed
  <2>1. /\ UNCHANGED <<obj, old, cache, want>> /\ pc[Cluster] = "remove" /\ epc = "ok"
        /\ Continue(Cluster, "removeFinalizer", This) /\ Engine("idle")
    BY <1>15 DEF Removed
  <2>2. Goes("removeFinalizer", This.data.spec, "idle", want)
    BY <1>g, <1>h, <2>1, TableContinues, Zenon DEF Labels
  <2>. QED  BY <2>1, <2>2, Zenon DEF Table
<1>16. CASE HandlerFails
  <2>1. /\ UNCHANGED <<cache, store, cloud, gaveUp>> /\ epc' = "idle" /\ want' = 0
        /\ pc[Cluster] # "idle"
        /\ \/ /\ Continue(Cluster, "removeFinalizer", This) /\ pc[Cluster] = "removeFinalizer"
              /\ UNCHANGED <<obj, old>>
           \/ Retry(Cluster) /\ Record
    BY <1>16, Zenon DEF HandlerFails, RemoveFinalizerAgain, This, Record
  <2>2. \/ pc[Cluster] = "removeFinalizer" /\ Goes("removeFinalizer", This.data.spec, "idle", 0)
        \/ Goes("idle", 1, "idle", 0)
    BY <1>h, <1>r, <2>1, TableContinues, TableEnds, Zenon DEF Labels
  <2>. QED  BY <2>2, Zenon DEF Table
<1>. QED
  BY <1>1, <1>2, <1>3, <1>4, <1>5, <1>6, <1>7, <1>8, <1>9, <1>10, <1>11, <1>12, <1>13,
     <1>14, <1>15, <1>16 DEF Handler

\* Save and RemoveFinalizer, the two steps that are not in the table.
LEMMA SaveGoes ==
  ASSUME TypeOK, Save
  PROVE  /\ pc[Cluster] = "save" /\ pc[Cluster]' \in {"idle", "setInitialized"}
         /\ This'.data.spec = This.data.spec /\ This'.data.applied = want
         /\ Alike(This, This') /\ want' = 0
         /\ UNCHANGED <<cache, secret, lister, lagging, cloud, epc, gaveUp>>
<1>. DEFINE n == [This EXCEPT !.data.applied = want]
<1>1. n \in ObjectType /\ Alike(This, n) /\ n.data.spec = This.data.spec /\ n.data.applied = want
  <2>1. This \in ObjectType /\ want \in Configs \cup {0}
    BY Copies, Zenon DEF TypeOK, EnTypeOK
  <2>. QED  BY <2>1, MadeData, Zenon
<1>2. /\ Store(Cluster, n) /\ UNCHANGED <<cache, store, cloud, epc, gaveUp>> /\ want' = 0
      /\ Return(Cluster) \/ Retry(Cluster) \/ Continue(Cluster, "setInitialized", n)
      /\ pc[Cluster] = "save"
  BY DEF Save
<1>. HIDE DEF n
<1>3. This' = n
  BY <1>1, <1>2, Stored, TypeParts, Zenon
<1>4. pc[Cluster]' \in {"idle", "setInitialized"}
  BY <1>1, <1>2, Ended, Continued, TypeParts, Zenon DEF Return, Retry, Labels
<1>. QED  BY <1>1, <1>2, <1>3, <1>4, Zenon DEF store

LEMMA RemoveFinalizerGoes ==
  ASSUME TypeOK, RemoveFinalizer(Cluster)
  PROVE  /\ pc[Cluster] = "removeFinalizer" /\ pc[Cluster]' = "idle" /\ This' = Absent
         /\ UNCHANGED cache
  BY AbsentType, Stored, Ended, TypeParts, Zenon DEF RemoveFinalizer, Update, Return

\* Where the engine is when the handler waits for it, or does not.
Creates == {"create", "createDriver", "createPost", "createDone", "ok", "exists", "failed"}
CallInv ==
  /\ pc[Cluster] = "driverCreate" => epc \in Creates
  /\ pc[Cluster] = "driverUpdate" => epc \in Creates \cup {"update", "updateDriver", "updatePost"}
  /\ pc[Cluster] = "migrate" => epc \in {"generate", "updatePost", "ok", "failed"}
  /\ pc[Cluster] = "remove" => epc \in {"remove", "removeDriver", "forget", "ok", "failed"}
  /\ pc[Cluster] \notin {"driverCreate", "driverUpdate", "migrate", "remove"} => epc = "idle"

\* The steps of neither handler nor engine, but for restarts.
Surroundings ==
  SecretArrives \/ EventArrives \/ SchemaDone \/ Resync \/ Timers \/ UserWrites \/ UNCHANGED vars

LEMMA SurroundingsKeep ==
  ASSUME Surroundings
  PROVE  UNCHANGED <<pc, mine, epc, want, cloud, gaveUp, secret>>
  BY Zenon DEF Surroundings, SecretArrives, SecretEvent, EventArrives, Informer, SchemaDone, Resync,
     Timers, BackoffOver, Wake, TwentySeconds, UserWrites, vars, lcVars, enVars, pvVars, store

LEMMA CallStep == TypeOK /\ CopyInv /\ CallInv /\ [Next]_vars => CallInv'
<1>. SUFFICES ASSUME TypeOK, CopyInv, CallInv, [Next]_vars PROVE CallInv'
  OBVIOUS
<1>1. CASE Table
  <2>1. CASE Starts
    BY <2>1, Zenon DEF Starts, Goes, CallInv
  <2>2. CASE ~Starts
    BY <1>1, <2>2, Zenon DEF Table, Goes, CallInv, Creates
  <2>. QED  BY <2>1, <2>2
<1>2. CASE Save
  BY <1>2, SaveGoes, Zenon DEF CallInv
<1>3. CASE Adapter /\ RemoveFinalizer(Cluster)
  BY <1>3, RemoveFinalizerGoes, Zenon DEF CallInv, Adapter, enVars
<1>4. CASE Engines
  <2>1. UNCHANGED pc /\ EngineStep
    BY <1>4 DEF Engines, lcVars
  <2>2. \/ epc = "create" /\ epc' \in {"exists", "createDriver", "failed"}
        \/ epc = "createDriver" /\ epc' \in {"createPost", "failed"}
        \/ epc = "createPost" /\ epc' \in {"createDone", "failed"}
        \/ epc = "createDone" /\ epc' = "ok"
        \/ epc = "update" /\ epc' \in {"failed", "create", "updateDriver"}
        \/ epc = "updateDriver" /\ epc' \in {"updatePost", "failed"}
        \/ epc = "generate" /\ epc' \in {"updatePost", "failed"}
        \/ epc = "updatePost" /\ epc' \in {"ok", "failed"}
        \/ epc = "remove" /\ epc' \in {"ok", "removeDriver", "failed"}
        \/ epc = "removeDriver" /\ epc' \in {"forget", "ok"}
        \/ epc = "forget" /\ epc' \in {"ok", "failed"}
    BY <2>1, ZenonT(30) DEF EngineStep, EngineCreate, EngineCreateDriver, EngineCreatePost, EngineCreateDone,
       EngineUpdate, EngineUpdateDriver, EngineGenerate, EngineUpdatePost, EngineRemove,
       EngineRemoveDriver, EngineForget, EngineNotStarted, CreateFails
  <2>. QED  BY <2>1, <2>2, Zenon DEF CallInv, Creates
<1>5. CASE Surroundings
  BY <1>5, SurroundingsKeep DEF CallInv
<1>6. CASE Restart
  BY <1>6, OneCluster DEF Restart, LCRestart, EnRestart, CallInv
<1>. QED
  BY <1>1, <1>2, <1>3, <1>4, <1>5, <1>6, AdapterTable, HandlerTable
     DEF Next, Handler, Surroundings

-----------------------------------------------------------------------------
(* What stays true of the cluster.                                         *)

\* A cluster that may have something at the provider.
Provided(o) == o.there /\ o.fin /\ o.data.driver

\* A deletion is never taken back; finalizer and driver stay until the end.
LEMMA ObjectStep ==
  ASSUME TypeOK, CopyInv, [Next]_vars
  PROVE  /\ Gone(This) => Gone(This')
         /\ Provided(This) => Provided(This') \/ RemoveFinalizer(Cluster)
<1>. DEFINE Kept == (Gone(This) => Gone(This')) /\ (Provided(This) => Provided(This'))
<1>. This \in ObjectType /\ Mine \in ObjectType
  BY Copies, Zenon
<1>f. pc[Cluster] # "idle" /\ Cluster \notin conflict => Mine = This
  BY DEF CopyInv, FreshCopies
<1>a. Alike(This, This') => Kept
  BY Zenon DEF Alike, Gone, Provided
<1>u. UNCHANGED obj => Kept
  BY DEF This
<1>n. ASSUME NEW n \in ObjectType, Store(Cluster, n), UNCHANGED cache
      PROVE  This' = n
  BY <1>n, Stored, TypeParts
<1>m. ASSUME NEW n \in ObjectType, Update(Cluster, n), UNCHANGED cache, pc[Cluster] # "idle",
             n.there = Mine.there /\ n.deleting = Mine.deleting,
             (Mine.fin => n.fin) /\ (Mine.data.driver => n.data.driver)
      PROVE  Kept
  <2>1. This' = n /\ Mine = This
    BY <1>f, <1>m, <1>n, Zenon DEF Update
  <2>. QED  BY <1>m, <2>1, Zenon DEF Gone, Provided
<1>1. CASE AddFinalizer(Cluster)
  <2>. DEFINE n == [Mine EXCEPT !.fin = TRUE]
  <2>1. /\ n \in ObjectType /\ n.fin /\ n.data.driver = Mine.data.driver
        /\ n.there = Mine.there /\ n.deleting = Mine.deleting
    BY MadeFlags, Zenon
  <2>2. Update(Cluster, n) /\ UNCHANGED cache /\ pc[Cluster] # "idle"
    BY <1>1 DEF AddFinalizer, Mine
  <2>. HIDE DEF n
  <2>. QED  BY <1>m, <2>1, <2>2, Zenon
<1>2. CASE SetInitialized(Cluster)
  <2>. DEFINE n == [Mine EXCEPT !.init = TRUE]
  <2>1. /\ n \in ObjectType /\ n.fin = Mine.fin /\ n.data.driver = Mine.data.driver
        /\ n.there = Mine.there /\ n.deleting = Mine.deleting
    BY MadeFlags, Zenon
  <2>2. Update(Cluster, n) /\ UNCHANGED cache /\ pc[Cluster] # "idle"
    BY <1>2 DEF SetInitialized, Mine
  <2>. HIDE DEF n
  <2>. QED  BY <1>m, <2>1, <2>2, Zenon
<1>3. CASE Pending /\ ~Mine.data.driver
  BY <1>3, <1>m, MadeData, Zenon DEF Pending
<1>4. CASE RemoveFinalizer(Cluster)
  BY <1>4, RemoveFinalizerGoes, AbsentType, Zenon DEF Gone
<1>5. CASE Handler /\ ~Adapter /\ ~SyncUpdated /\ ~(Pending /\ ~Mine.data.driver)
  BY <1>5, <1>a, HandlerMoves, Zenon DEF Moves
<1>6. CASE SchemaDone
  <2>. DEFINE n == [This EXCEPT !.data.anno = "updated"]
  <2>1. n \in ObjectType /\ Alike(This, n)
    BY MadeAlike, Zenon
  <2>2. UNCHANGED obj \/ (Store(Cluster, n) /\ UNCHANGED cache)
    BY <1>6 DEF SchemaDone, WriteBy
  <2>. HIDE DEF n
  <2>. QED  BY <1>a, <1>n, <1>u, <2>1, <2>2, Zenon
<1>7. CASE UserWrites
  <2>1. ASSUME NEW k \in Configs, WriteBy(Cluster, [This EXCEPT !.data.spec = k])
        PROVE  Kept
    <3>. DEFINE n == [This EXCEPT !.data.spec = k]
    <3>2. n \in ObjectType /\ Alike(This, n)
      BY MadeData, Zenon
    <3>3. Store(Cluster, n) /\ UNCHANGED cache
      BY <1>7, <2>1 DEF WriteBy, UserWrites
    <3>. HIDE DEF n
    <3>. QED  BY <1>a, <1>n, <3>2, <3>3
  <2>2. CASE WriteBy(Cluster, This)
    BY <1>7, <1>a, <1>n, <2>2, AlikeSelf DEF WriteBy, UserWrites
  <2>3. CASE DeleteBy(Cluster)
    <3>. DEFINE d == [This EXCEPT !.deleting = TRUE]
    <3>1. /\ d \in ObjectType /\ d.deleting /\ d.data.driver = This.data.driver
          /\ d.there = This.there /\ d.fin = This.fin
      BY MadeFlags, Zenon
    <3>2. UNCHANGED obj \/ (UNCHANGED cache /\ Store(Cluster, IF This.fin THEN d ELSE Absent))
      BY <1>7, <2>3 DEF DeleteBy, WriteBy, UserWrites, This
    <3>. HIDE DEF d
    <3>3. UNCHANGED obj \/ This' = IF This.fin THEN d ELSE Absent
      BY <1>n, <3>1, <3>2, AbsentType, Zenon
    <3>. QED  BY <1>u, <3>1, <3>3, AbsentType, Zenon DEF Gone, Provided
  <2>. QED  BY <1>7, <2>1, <2>2, <2>3 DEF UserWrites
<1>8. CASE \/ Sync(Cluster) \/ SyncUpdated \/ EventArrives
           \/ Engines \/ SecretArrives \/ Resync \/ Timers \/ Restart \/ UNCHANGED vars
  <2>1. UNCHANGED obj
    BY <1>8, Zenon DEF Sync, SyncUpdated, EventArrives, Informer, Engines,
       SecretArrives, Resync, Timers, BackoffOver, Wake, TwentySeconds, Restart, LCRestart,
       vars, lcVars
  <2>. QED  BY <1>u, <2>1
<1>. QED
  BY <1>1, <1>2, <1>3, <1>4, <1>5, <1>6, <1>7, <1>8, Zenon DEF Next, Handler, Adapter

\* What the lister shows next is what it shows now, or the server's.
LEMMA CacheStep ==
  ASSUME TypeOK, [Next]_vars
  PROVE  /\ Cached' = Cached \/ Cached' = This
         /\ Handler \/ Engines => Cached' = Cached
<1>1. ASSUME EventArrives \/ Restart PROVE Cached' = This
  BY <1>1, OneCluster, Zenon DEF EventArrives, Informer, Restart, LCRestart, Cached, This, TypeOK, LCTypeOK
<1>2. ASSUME Handler PROVE Cached' = Cached
  <2>1. UNCHANGED cache
    BY <1>2, Zenon DEF Handler, Adapter, Sync, AddFinalizer, SetInitialized, RemoveFinalizer,
       RemoveFinalizerAgain, Pending, SyncUpdated, StartUpdating, WaitUpdating, TakeOver,
       Reconcile, Local, Migrated, NothingToDo, BackoffFailure, Provision, UpdateExisting,
       Reload, RecordFailure, RecordSuccess, Save, Remove, Removed, HandlerFails
  <2>. QED  BY <2>1 DEF Cached
<1>3. ASSUME \/ Engines \/ SecretArrives \/ SchemaDone \/ Resync \/ Timers \/ UserWrites
             \/ UNCHANGED vars
      PROVE  Cached' = Cached
  BY <1>3, Zenon DEF Engines, SecretArrives, SchemaDone, Resync, Timers, BackoffOver,
     Wake, TwentySeconds, UserWrites, vars, lcVars, Cached
<1>. QED  BY <1>1, <1>2, <1>3 DEF Next

\* Going back is remembered.
LEMMA BackStays == [Next]_vars /\ ~back' => ~back
<1>. SUFFICES ASSUME [Next]_vars PROVE UNCHANGED back \/ back' = TRUE
  OBVIOUS
<1>1. CASE Handler
  BY <1>1, Zenon DEF Handler, Adapter, Pending, SyncUpdated, StartUpdating, WaitUpdating, TakeOver,
     Reconcile, Migrated, NothingToDo, BackoffFailure, Provision, UpdateExisting, Reload,
     RecordFailure, RecordSuccess, Save, Remove, Removed, HandlerFails, pvVars
<1>2. CASE ~Handler
  BY <1>2, Zenon DEF Next, Engines, SecretArrives, EventArrives, SchemaDone, Resync, Timers,
     BackoffOver, Wake, TwentySeconds, UserWrites, Restart, vars, pvVars
<1>. QED  BY <1>1, <1>2

\* What others do to the numbers of a cluster that is not deleted.
LEMMA OthersNumbers ==
  ASSUME TypeOK, Surroundings, ~Gone(This'), ~back'
  PROVE  This'.data.applied = This.data.applied /\ This'.data.spec >= This.data.spec
<1>. DEFINE Grown == This'.data.applied = This.data.applied /\ This'.data.spec >= This.data.spec
<1>0. This \in ObjectType /\ This.data.spec \in Nat
  BY Copies, Fields, ConfigType, Zenon
<1>s. SameNumbers(This, This') => Grown
  BY <1>0 DEF SameNumbers
<1>u. UNCHANGED obj => Grown
  BY <1>s, AlikeSelf, Zenon DEF This
<1>n. ASSUME NEW n \in ObjectType, Store(Cluster, n), UNCHANGED cache
      PROVE  This' = n
  BY <1>n, Stored, TypeParts
<1>1. CASE SchemaDone
  <2>. DEFINE n == [This EXCEPT !.data.anno = "updated"]
  <2>1. n \in ObjectType /\ SameNumbers(This, n)
    BY <1>0, MadeAlike, Zenon
  <2>2. UNCHANGED obj \/ (Store(Cluster, n) /\ UNCHANGED cache)
    BY <1>1 DEF SchemaDone, WriteBy
  <2>. HIDE DEF n
  <2>. QED  BY <1>s, <1>n, <1>u, <2>1, <2>2, Zenon
<1>2. CASE UserWrites
  <2>0. UNCHANGED cache
    BY <1>2 DEF UserWrites
  <2>1. ASSUME NEW k \in Configs, k > This.data.spec,
               WriteBy(Cluster, [This EXCEPT !.data.spec = k])
        PROVE  Grown
    <3>1. k \in Nat /\ k >= This.data.spec
      BY <1>0, <2>1, ConfigType
    <3>. DEFINE n == [This EXCEPT !.data.spec = k]
    <3>2. n \in ObjectType /\ n.data.spec = k /\ n.data.applied = This.data.applied
      BY <1>0, MadeData, Zenon
    <3>3. Store(Cluster, n)
      BY <2>1 DEF WriteBy
    <3>. HIDE DEF n
    <3>4. This' = n
      BY <1>n, <2>0, <3>2, <3>3, Zenon
    <3>. QED  BY <3>1, <3>2, <3>4
  <2>2. CASE WriteBy(Cluster, This)
    BY <1>0, <1>n, <1>s, <2>0, <2>2, AlikeSelf, Zenon DEF WriteBy
  <2>3. CASE DeleteBy(Cluster)
    <3>. DEFINE d == [This EXCEPT !.deleting = TRUE]
    <3>1. d \in ObjectType /\ d.deleting
      BY <1>0, MadeFlags, Zenon
    <3>2. UNCHANGED obj \/ Store(Cluster, IF This.fin THEN d ELSE Absent)
      BY <2>3 DEF DeleteBy, WriteBy, This
    <3>. HIDE DEF d
    <3>3. UNCHANGED obj
      BY <1>n, <2>0, <3>1, <3>2, AbsentType, Zenon DEF Gone
    <3>. QED  BY <1>u, <3>3, Zenon
  <2>. QED  BY <1>2, <2>1, <2>2, <2>3 DEF UserWrites
<1>3. CASE SecretArrives \/ EventArrives \/ Resync \/ Timers \/ UNCHANGED vars
  <2>1. UNCHANGED obj
    BY <1>3, Zenon DEF SecretArrives, EventArrives, Informer, Resync, Timers, BackoffOver, Wake,
       TwentySeconds, vars, lcVars
  <2>. QED  BY <1>u, <2>1, Zenon
<1>. QED  BY <1>1, <1>2, <1>3, Zenon DEF Surroundings

-----------------------------------------------------------------------------
(* Applied configurations.                                                 *)

Early == {"addFinalizer", "create", "updated", "migrate", "getSpec"}

\* The engine has reported the wanted configuration as done, or is about to.
Achieved ==
  \/ /\ pc[Cluster] \in {"driverCreate", "driverUpdate"}
     /\ epc \in {"createPost", "createDone", "updatePost", "ok"}
  \/ pc[Cluster] \in {"succeeded", "save"}

\* The configurations grow: the applied one, the provider's, the ones that the handler
\* works on, the one the lister shows, the one asked for.
Grows ==
  /\ This.data.applied <= cloud /\ cloud <= This.data.spec
  /\ This.data.applied <= Cached.data.spec /\ Cached.data.spec <= This.data.spec
  /\ pc[Cluster] \in Early =>
       This.data.applied <= Mine.data.spec /\ Mine.data.spec <= Cached.data.spec
  /\ want # 0 => This.data.applied <= want /\ want <= Cached.data.spec
  /\ Achieved => cloud = want

NumberInv == ~Gone(This) /\ ~back => Grows

\* The engine's calls of the driver.
LEMMA EngineCloud ==
  ASSUME EngineStep
  PROVE  /\ want' = want
         /\ \/ cloud' = cloud
            \/ epc \in {"createDriver", "updateDriver"} /\ cloud' = want
            \/ epc = "removeDriver"
         /\ epc' = "createPost" => cloud' = want
         /\ epc' = "updatePost" => cloud' = want \/ epc = "generate"
         /\ epc' = "createDone" => epc = "createPost" /\ cloud' = cloud
         /\ epc' = "ok" => cloud' = cloud /\ epc \in {"createDone", "updatePost", "remove",
                                                      "removeDriver", "forget"}
  BY Zenon DEF EngineStep, EngineCreate, EngineCreateDriver, EngineCreatePost, EngineCreateDone,
     EngineUpdate, EngineUpdateDriver, EngineGenerate, EngineUpdatePost, EngineRemove,
     EngineRemoveDriver, EngineForget, EngineNotStarted, CreateFails

\* What the steps need of the order of numbers.
LEMMA AtMost ==
  /\ \A a, b, d \in Nat : a <= b /\ b <= d => a <= d
  /\ \A a, b \in Nat : b >= a => a <= b
  /\ \A a \in Nat : 0 <= a /\ a <= a
  OBVIOUS

LEMMA NumberStep ==
  ASSUME TypeOK, CopyInv, CallInv, NumberInv, [Next]_vars
  PROVE  NumberInv'
<1>. SUFFICES ASSUME ~Gone(This'), ~back' PROVE Grows'
  BY DEF NumberInv
<1>g. ~Gone(This) /\ Grows
  BY ObjectStep, BackStays DEF NumberInv
<1>n. /\ This.data.spec \in Nat /\ This.data.applied \in Nat /\ Cached.data.spec \in Nat
      /\ Mine.data.spec \in Nat /\ cloud \in Nat /\ want \in Nat
  <2>1. /\ This \in ObjectType /\ Mine \in ObjectType /\ Cached \in ObjectType
        /\ cloud \in Configs \cup {0} /\ want \in Configs \cup {0}
    BY Copies, Zenon DEF TypeOK, EnTypeOK, Cached
  <2>2. /\ This.data.spec \in Configs /\ This.data.applied \in Configs \cup {0}
        /\ Cached.data.spec \in Configs /\ Mine.data.spec \in Configs
    BY <2>1, Fields, Zenon
  <2>. QED  BY <2>1, <2>2, ConfigNumbers, Zenon
<1>w. pc[Cluster] \in Wanting => want # 0
  BY TypeParts DEF WantType
<1>1. CASE Table /\ Cached' = Cached
  <2>1. CASE Starts
    <3>1. PICK l \in {"idle", "finalize", "create", "addFinalizer", "updated"},
               s \in {Mine.data.spec, Cached.data.spec} :
            (l # "idle" => s = Cached.data.spec) /\ Goes(l, s, epc, want)
      BY <2>1, Zenon DEF Starts
    <3>2. /\ pc[Cluster]' = l /\ Mine'.data.spec = s /\ want' = want /\ cloud' = cloud
          /\ This'.data.spec = This.data.spec /\ This'.data.applied = This.data.applied
      BY <3>1, Zenon DEF Goes, SameNumbers
    <3>3. ~Achieved' /\ (pc[Cluster]' \in Early => Mine'.data.spec = Cached.data.spec)
      BY <3>1, <3>2, Zenon DEF Achieved, Early
    <3>4. This.data.applied <= Cached.data.spec /\ Cached.data.spec <= Cached.data.spec
      BY <1>g, <1>n, AtMost, Zenon DEF Grows
    <3>. QED  BY <1>1, <1>g, <3>2, <3>3, <3>4, Zenon DEF Grows
  <2>2. CASE ~Starts
    <3>1. SameNumbers(This, This') /\ cloud' = cloud
      BY <1>1, <2>2, Zenon DEF Table, Goes
    <3>2. pc[Cluster]' \in Early => pc[Cluster] \in Early /\ Mine'.data.spec = Mine.data.spec
      BY <1>1, <2>2, Zenon DEF Table, Goes, Early
    <3>3. \/ want' = want \/ want' = 0
          \/ pc[Cluster] = "getSpec" /\ want' = Mine.data.spec
      BY <1>1, <2>2, Zenon DEF Table, Goes
    <3>4. Achieved' => Achieved /\ want' = want
      BY <1>1, <2>2, Zenon DEF Table, Goes, Achieved
    <3>. QED  BY <1>1, <1>g, <1>n, <3>1, <3>2, <3>3, <3>4, Zenon DEF Grows, SameNumbers, Early
  <2>. QED  BY <2>1, <2>2
<1>2. CASE Save /\ Cached' = Cached
  <2>1. /\ pc[Cluster] = "save" /\ pc[Cluster]' \in {"idle", "setInitialized"}
        /\ This'.data.spec = This.data.spec /\ This'.data.applied = want
        /\ want' = 0 /\ cloud' = cloud
    BY <1>2, SaveGoes, Zenon
  <2>2. cloud = want /\ want # 0
    BY <1>g, <1>w, <2>1, Zenon DEF Grows, Achieved, Wanting
  <2>3. pc[Cluster]' \notin Early /\ ~Achieved'
    BY <2>1, Zenon DEF Early, Achieved
  <2>4. want <= Cached.data.spec /\ Cached.data.spec <= This.data.spec /\ cloud <= This.data.spec
    BY <1>g, <2>2, Zenon DEF Grows
  <2>5. This'.data.applied <= cloud' /\ cloud' <= This'.data.spec
    BY <1>n, <2>1, <2>2, <2>4, AtMost, Zenon
  <2>6. This'.data.applied <= Cached'.data.spec /\ Cached'.data.spec <= This'.data.spec
    BY <1>2, <2>1, <2>4, Zenon
  <2>. QED  BY <2>1, <2>3, <2>5, <2>6, Zenon DEF Grows
<1>3. CASE RemoveFinalizer(Cluster)
  BY <1>3, RemoveFinalizerGoes, AbsentType, Zenon DEF Gone
<1>4. CASE Engines
  <2>1. UNCHANGED <<pc, This, Mine>> /\ Cached' = Cached /\ EngineStep
    BY <1>4, CacheStep, Zenon DEF Engines, lcVars, This, Mine
  <2>2. pc[Cluster] # "remove"
    BY <1>g, Zenon DEF CopyInv, HandlerInv, Ending
  <2>3. cloud' = cloud \/ (pc[Cluster] \in {"driverCreate", "driverUpdate"} /\ cloud' = want)
    <3>1. epc \in {"createDriver", "updateDriver"} => pc[Cluster] \in {"driverCreate", "driverUpdate"}
      BY <2>2 DEF CallInv
    <3>2. epc # "removeDriver"
      BY <2>2 DEF CallInv, Creates
    <3>. QED  BY <2>1, <3>1, <3>2, EngineCloud
  <2>4. want' = want
    BY <2>1, EngineCloud
  <2>5. Achieved' => cloud' = want
    <3>1. CASE pc[Cluster] \in {"succeeded", "save"}
      BY <1>g, <2>1, <2>3, <3>1, Zenon DEF Grows, Achieved
    <3>2. CASE pc[Cluster] \in {"driverCreate", "driverUpdate"}
      <4>1. epc \notin {"generate", "remove", "removeDriver", "forget"}
        BY <3>2 DEF CallInv, Creates
      <4>2. epc \in {"createPost", "createDone", "updatePost"} => cloud = want
        BY <1>g, <3>2, Zenon DEF Grows, Achieved
      <4>3. epc' \in {"createPost", "createDone", "updatePost", "ok"} => cloud' = want
        BY <2>1, <4>1, <4>2, EngineCloud
      <4>. QED  BY <2>1, <3>2, <4>3 DEF Achieved
    <3>. QED  BY <2>1, <3>1, <3>2 DEF Achieved
  <2>6. This.data.applied <= cloud' /\ cloud' <= This.data.spec
    <3>1. CASE cloud' = cloud
      BY <1>g, <3>1, Zenon DEF Grows
    <3>2. CASE pc[Cluster] \in {"driverCreate", "driverUpdate"} /\ cloud' = want
      <4>1. want # 0
        BY <1>w, <3>2 DEF Wanting
      <4>2. /\ This.data.applied <= want /\ want <= Cached.data.spec
            /\ Cached.data.spec <= This.data.spec
        BY <1>g, <4>1, Zenon DEF Grows
      <4>. QED  BY <1>n, <3>2, <4>2
    <3>. QED  BY <2>3, <3>1, <3>2, Zenon
  <2>7. Achieved' => cloud' = want'
    BY <2>4, <2>5
  <2>. QED  BY <1>g, <2>1, <2>4, <2>6, <2>7, Zenon DEF Grows
<1>5. CASE Surroundings
  <2>1. UNCHANGED <<pc, epc, want, cloud, Mine>> /\ (Achieved' <=> Achieved)
    BY <1>5, SurroundingsKeep, Zenon DEF Mine, Achieved
  <2>2. /\ This'.data.applied = This.data.applied /\ This'.data.spec >= This.data.spec
        /\ Cached' = Cached \/ Cached' = This
    BY <1>5, OthersNumbers, CacheStep, Zenon
  <2>3. This'.data.spec \in Nat
    BY TypeStep, Fields, ConfigType, OneCluster, Zenon DEF TypeOK, LCTypeOK, This
  <2>4. /\ This.data.spec <= This'.data.spec /\ Cached.data.spec <= This.data.spec
        /\ cloud <= This.data.spec
    BY <1>g, <1>n, <2>2, <2>3, AtMost, Zenon DEF Grows
  <2>5. This'.data.applied <= cloud' /\ cloud' <= This'.data.spec
    <3>1. This.data.applied <= cloud
      BY <1>g, Zenon DEF Grows
    <3>2. cloud <= This'.data.spec
      BY <1>n, <2>3, <2>4, SMT
    <3>. QED  BY <2>1, <2>2, <3>1, <3>2, Zenon
  <2>6. \A x \in Nat : x <= Cached.data.spec => x <= Cached'.data.spec
    <3>1. \A x \in Nat : x <= Cached.data.spec => x <= This.data.spec
      BY <1>n, <2>4, SMT
    <3>. QED  BY <2>2, <3>1, Zenon
  <2>7. This'.data.applied <= Cached'.data.spec /\ Cached'.data.spec <= This'.data.spec
    <3>1. Cached.data.spec <= This'.data.spec
      BY <1>n, <2>3, <2>4, SMT
    <3>2. This.data.applied <= Cached'.data.spec
      BY <1>g, <1>n, <2>6, Zenon DEF Grows
    <3>. QED  BY <2>2, <2>4, <3>1, <3>2, Zenon
  <2>8. pc[Cluster]' \in Early =>
          This'.data.applied <= Mine'.data.spec /\ Mine'.data.spec <= Cached'.data.spec
    BY <1>g, <1>n, <2>1, <2>2, <2>6, Zenon DEF Grows
  <2>9. want' # 0 => This'.data.applied <= want' /\ want' <= Cached'.data.spec
    BY <1>g, <1>n, <2>1, <2>2, <2>6, Zenon DEF Grows
  <2>10. Achieved' => cloud' = want'
    BY <1>g, <2>1, Zenon DEF Grows
  <2>. QED  BY <2>5, <2>7, <2>8, <2>9, <2>10, Zenon DEF Grows
<1>6. CASE Restart
  <2>1. This' = This /\ Cached' = This /\ pc[Cluster]' = "idle" /\ want' = 0
    BY <1>6, OneCluster DEF Restart, LCRestart, EnRestart, This, Cached
  <2>2. cloud' = cloud \/ (pc[Cluster] \in {"driverCreate", "driverUpdate"} /\ cloud' = want)
    <3>1. pc[Cluster] # "remove"
      BY <1>g, Zenon DEF CopyInv, HandlerInv, Ending
    <3>2. epc \in {"createDriver", "updateDriver"} => pc[Cluster] \in {"driverCreate", "driverUpdate"}
      BY Zenon DEF CallInv
    <3>3. epc # "removeDriver"
      BY <3>1, Zenon DEF CallInv, Creates
    <3>. QED  BY <1>6, <3>2, <3>3, Zenon DEF Restart, EnRestart
  <2>3. ~Achieved' /\ pc[Cluster]' \notin Early
    BY <2>1, Zenon DEF Achieved, Early
  <2>4. This.data.applied <= cloud' /\ cloud' <= This.data.spec
    <3>1. CASE cloud' = cloud
      BY <1>g, <3>1, Zenon DEF Grows
    <3>2. CASE pc[Cluster] \in {"driverCreate", "driverUpdate"} /\ cloud' = want
      <4>1. want # 0
        BY <1>w, <3>2, Zenon DEF Wanting
      <4>2. /\ This.data.applied <= want /\ want <= Cached.data.spec
            /\ Cached.data.spec <= This.data.spec
        BY <1>g, <4>1, Zenon DEF Grows
      <4>3. want <= This.data.spec
        BY <1>n, <4>2, SMT
      <4>. QED  BY <3>2, <4>2, <4>3, Zenon
    <3>. QED  BY <2>2, <3>1, <3>2, Zenon
  <2>5. This.data.applied <= This.data.spec /\ This.data.spec <= This.data.spec
    <3>1. This.data.applied <= Cached.data.spec /\ Cached.data.spec <= This.data.spec
      BY <1>g, Zenon DEF Grows
    <3>. QED  BY <1>n, <3>1, SMT
  <2>. QED  BY <2>1, <2>3, <2>4, <2>5, Zenon DEF Grows
<1>7. CASE Handler
  <2>1. Cached' = Cached
    BY <1>7, CacheStep
  <2>. QED  BY <1>1, <1>2, <1>3, <1>7, <2>1, AdapterTable, HandlerTable, Zenon DEF Handler
<1>. QED  BY <1>4, <1>5, <1>6, <1>7 DEF Next, Surroundings

\* The invariants at the start.
LEMMA StartInv == Init => CopyInv /\ CallInv /\ NumberInv
<1>. SUFFICES ASSUME Init PROVE CopyInv /\ CallInv /\ NumberInv
  OBVIOUS
<1>0. [Absent EXCEPT !.there = TRUE] \in ObjectType
  BY AbsentType, Zenon DEF ObjectType
<1>1. /\ This.there /\ ~This.deleting /\ ~This.fin /\ ~This.init
      /\ ~This.data.driver /\ This.data.spec = 1 /\ This.data.applied = 0
  BY AbsentType, OneCluster DEF Init, This, ObjectType
<1>2. /\ Cached = Absent /\ pc[Cluster] = "idle" /\ Cluster \in old
      /\ cloud = 0 /\ want = 0 /\ epc = "idle"
  BY OneCluster DEF Init, EnInit, Cached
<1>3. CopyInv
  BY <1>1, <1>2, AbsentType, Zenon DEF CopyInv, FreshCopies, CachedInv, HandlerInv, Proper, Later, Ending
<1>4. CallInv /\ NumberInv
  <2>1. CallInv /\ ~Achieved /\ pc[Cluster] \notin Early
    BY <1>2, Zenon DEF CallInv, Achieved, Early
  <2>2. /\ This.data.spec = 1 /\ Cached.data.spec = 1 /\ This.data.applied = 0
        /\ cloud = 0 /\ want = 0
    BY <1>1, <1>2, AbsentType, Zenon
  <2>3. 0 <= 0 /\ 0 <= 1 /\ 1 <= 1
    OBVIOUS
  <2>. QED  BY <2>1, <2>2, <2>3, Zenon DEF NumberInv, Grows
<1>. QED  BY <1>3, <1>4

\* A configuration that Status.AppliedSpec records is the one the driver was last called
\* with, for any number of configurations, whatever part of them getSpec compares, and any
\* number of failures, conflicting writes, lost statuses and restarts: Save records what
\* the engine was given, not what is asked for by then.  It lasts until a user goes back
\* to an earlier configuration.
THEOREM Applied == Spec => []AppliedIsApplied
<1>. DEFINE Inv == TypeOK /\ CopyInv /\ CallInv /\ NumberInv
<1>1. Init => Inv
  BY TypeInit, StartInv
<1>2. Inv /\ [Next]_vars => Inv'
  BY TypeStep, CopyStep, CallStep, NumberStep
<1>3. Inv => AppliedIsApplied
  <2>. SUFFICES ASSUME Inv, ~Gone(This), ~back, This.data.applied = This.data.spec
                PROVE  cloud = This.data.spec
    BY Zenon DEF AppliedIsApplied, Gone
  <2>1. This.data.spec \in Nat /\ cloud \in Nat
    <3>1. This.data.spec \in Configs /\ cloud \in Configs \cup {0}
      BY Copies, Fields, Zenon DEF TypeOK, EnTypeOK
    <3>. QED  BY <3>1, ConfigNumbers, Zenon
  <2>. QED  BY <2>1 DEF NumberInv, Grows
<1>. QED  BY <1>1, <1>2, <1>3, PTL DEF Spec

-----------------------------------------------------------------------------
(* What is left at the provider.                                           *)

\* The handler has nothing to do any more but to end the cluster.
Over == Gone(This) /\ Gone(Cached) /\ pc[Cluster] \in Ending \cup {"idle"}

\* The Secret and the lister's copy of it, which Set may have created or changed first.
SecretInv ==
  /\ ~lagging => (lister = NoSecret <=> secret = NoSecret)
  /\ secret = NoSecret => lister = NoSecret \/ Over
  /\ epc \in {"createDriver", "updateDriver"} => secret # NoSecret
  /\ epc = "updateDriver" => lister # NoSecret

\* Whoever has something at the provider has what it takes to remove it.
CloudInv ==
  cloud # 0 /\ ~gaveUp => Provided(This) /\ secret # NoSecret /\ lister # NoSecret

\* Nothing is there when the finalizer is removed.
ClearInv ==
  \/ pc[Cluster] = "remove" /\ epc \in {"forget", "ok"}
  \/ pc[Cluster] = "removeFinalizer"
  => cloud = 0 \/ gaveUp

StrayInv == SecretInv /\ CloudInv /\ ClearInv

\* The store creates the Secret, and does not lose it.
LEMMA WrittenStores ==
  ASSUME Written, lister # NoSecret => secret # NoSecret,
         ~lagging => (lister = NoSecret <=> secret = NoSecret)
  PROVE  /\ secret' # NoSecret /\ (lister # NoSecret => lister' # NoSecret)
         /\ ~lagging' => (lister' = NoSecret <=> secret' = NoSecret)
<1>. PICK v \in Value : Set(v) \/ Lose(v)
  BY DEF Written
<1>. QED  BY NoSecretIsNone, Zenon DEF Set, Lose

\* Nothing is begun for a cluster whose deletion has been seen.
LEMMA GoneStarts ==
  ASSUME TypeOK, Handler, pc[Cluster] = "idle", Gone(Cached)
  PROVE  pc[Cluster]' \in {"idle", "finalize"}
<1>1. Sync(Cluster)
  BY Zenon DEF Handler, Adapter, AddFinalizer, SetInitialized, RemoveFinalizer,
     Pending, SyncUpdated, NeedsUpdate, StartUpdating, WaitUpdating, TakeOver,
     Reconcile, Migrated, NothingToDo, BackoffFailure, Provision, UpdateExisting,
     Reload, RecordFailure, RecordSuccess, Save, Remove, Removed, HandlerFails, Gone, Cached
<1>2. FirstStep(Cached) \in {"idle", "finalize"}
  <2>1. Cached.there \in BOOLEAN /\ Cached.deleting \in BOOLEAN
    BY Copies, Fields, Zenon DEF Cached
  <2>. QED  BY <2>1 DEF Gone, FirstStep
<1>3. pc[Cluster]' = FirstStep(Cached)
  BY <1>1, TypeParts, OneCluster, Zenon DEF Sync, Cached, HandlerType
<1>. QED  BY <1>2, <1>3, Zenon

\* The engine's steps.
LEMMA EngineStray ==
  ASSUME ~SlowInformer, TypeOK, CopyInv, CallInv, StrayInv, Engines
  PROVE  StrayInv'
<1>0. UNCHANGED <<pc, This, Cached>> /\ EngineStep
  BY Zenon DEF Engines, lcVars, This, Cached
<1>o. (Over' <=> Over) /\ (Provided(This)' <=> Provided(This))
  BY <1>0, Zenon DEF Over, Provided, Gone
<1>v. Blank \in Value /\ Restored \in Value /\ c \in Value /\ Meta \in Value
  BY ValueType, Zenon DEF TypeOK, EnTypeOK
<1>s. {"", "Creating", "PostCheck", "Running", "Updating", "Error"} = Statuses
  BY DEF Statuses
<1>i. /\ ~lagging => (lister = NoSecret <=> secret = NoSecret)
      /\ secret = NoSecret => lister = NoSecret \/ Over
      /\ epc \in {"createDriver", "updateDriver"} => secret # NoSecret
      /\ epc = "updateDriver" => lister # NoSecret
  BY DEF StrayInv, SecretInv
<1>c. cloud # 0 /\ ~gaveUp => Provided(This) /\ secret # NoSecret /\ lister # NoSecret
  BY DEF StrayInv, CloudInv
\* While it provisions, the cluster's Secret is not lost.
<1>p. ASSUME epc \in {"create", "createDriver", "createPost", "createDone",
                      "update", "updateDriver", "generate", "updatePost"}
      PROVE  /\ pc[Cluster] \in {"driverCreate", "driverUpdate", "migrate"} /\ Provided(This)
             /\ lister # NoSecret => secret # NoSecret
  <2>1. pc[Cluster] \in {"driverCreate", "driverUpdate", "migrate"}
    BY <1>p, Zenon DEF CallInv
  <2>2. ~Over /\ Provided(This)
    BY <2>1, Zenon DEF Over, Ending, Provided, CopyInv, HandlerInv, Later
  <2>. QED  BY <1>i, <2>1, <2>2, Zenon
<1>r. ASSUME epc \in {"remove", "removeDriver", "forget"}
      PROVE  pc[Cluster] = "remove" /\ Over
  <2>1. pc[Cluster] = "remove"
    BY <1>r, Zenon DEF CallInv, Creates
  <2>. QED  BY <2>1, Zenon DEF Over, Ending, CopyInv, HandlerInv
\* A step that stores something, or leaves the Secret alone, and one that does not
\* change what the provider has.
<1>k. ASSUME pc[Cluster] \in {"driverCreate", "driverUpdate", "migrate"}, UNCHANGED gaveUp,
             Provided(This),
             ~lagging' => (lister' = NoSecret <=> secret' = NoSecret),
             (secret' # NoSecret /\ (lister # NoSecret => lister' # NoSecret)) \/ UNCHANGED store,
             epc' \in {"createDriver", "updateDriver"} => secret' # NoSecret,
             epc' = "updateDriver" => lister # NoSecret,
             UNCHANGED cloud \/ (secret # NoSecret /\ lister # NoSecret)
      PROVE  StrayInv'
  <2>1. secret = NoSecret => lister = NoSecret
    BY <1>i, <1>k, Zenon DEF Over, Ending
  <2>2. SecretInv'
    BY <1>k, <2>1, Zenon DEF SecretInv, store
  <2>3. CloudInv'
    BY <1>c, <1>k, <1>o, Zenon DEF CloudInv, store
  <2>4. ClearInv'
    BY <1>0, <1>k, Zenon DEF ClearInv
  <2>. QED  BY <2>2, <2>3, <2>4 DEF StrayInv
<1>1. CASE EngineCreate
  <2>1. /\ epc = "create" /\ UNCHANGED <<cloud, gaveUp>> /\ Written
        /\ epc' \in {"exists", "createDriver", "failed"}
    BY <1>1, <1>s, <1>v, Writes, Zenon DEF EngineCreate
  <2>. QED  BY <1>i, <1>k, <1>p, <2>1, WrittenStores, Zenon
<1>2. CASE EngineCreateDriver
  <2>0. c' \in Value
    BY <1>2, <1>v, Zenon DEF EngineCreateDriver
  <2>1. /\ epc = "createDriver" /\ ~lagging /\ UNCHANGED gaveUp /\ Written
        /\ epc' \in {"createPost", "failed"}
    BY <1>2, <1>s, <2>0, Writes, Zenon DEF EngineCreateDriver, CreateFails, DriverEnds
  <2>2. secret # NoSecret /\ lister # NoSecret
    BY <1>i, <2>1
  <2>. QED  BY <1>i, <1>k, <1>p, <2>1, <2>2, WrittenStores, Zenon
<1>3. CASE EngineCreatePost
  <2>1. /\ epc = "createPost" /\ UNCHANGED <<cloud, gaveUp>> /\ Written
        /\ epc' \in {"createDone", "failed"}
    BY <1>3, <1>v, Writes, Zenon DEF EngineCreatePost, CreateFails
  <2>. QED  BY <1>i, <1>k, <1>p, <2>1, WrittenStores, Zenon
<1>4. CASE EngineCreateDone
  <2>1. epc = "createDone" /\ UNCHANGED <<cloud, gaveUp>> /\ epc' = "ok" /\ Written
    BY <1>4, <1>s, <1>v, Writes, Zenon DEF EngineCreateDone
  <2>. QED  BY <1>i, <1>k, <1>p, <2>1, WrittenStores, Zenon
<1>5. CASE EngineUpdate
  <2>1. /\ epc = "update" /\ UNCHANGED <<cloud, gaveUp>>
        /\ \/ UNCHANGED store /\ epc' \in {"failed", "create"}
           \/ lister # NoSecret /\ epc' = "updateDriver" /\ Written
    BY <1>5, <1>s, <1>v, Writes, Zenon DEF EngineUpdate
  <2>. QED  BY <1>i, <1>k, <1>p, <2>1, WrittenStores, Zenon DEF store
<1>6. CASE EngineUpdateDriver
  <2>0. c' \in Value
    BY <1>6, <1>v, Zenon DEF EngineUpdateDriver
  <2>1. /\ epc = "updateDriver" /\ UNCHANGED gaveUp /\ epc' \in {"updatePost", "failed"}
        /\ UNCHANGED store \/ Written
    BY <1>6, <1>s, <2>0, Writes, Zenon DEF EngineUpdateDriver
  <2>2. secret # NoSecret /\ lister # NoSecret
    BY <1>i, <2>1
  <2>. QED  BY <1>i, <1>k, <1>p, <2>1, <2>2, WrittenStores, Zenon DEF store
<1>7. CASE EngineGenerate
  <2>1. /\ epc = "generate" /\ UNCHANGED <<cloud, gaveUp>> /\ epc' \in {"failed", "updatePost"}
        /\ UNCHANGED store \/ Written
    BY <1>7, <1>s, <1>v, Writes, Zenon DEF EngineGenerate
  <2>2. pc[Cluster] \in {"driverCreate", "driverUpdate", "migrate"} /\ Provided(This)
    BY <1>p, <2>1
  <2>3. CASE UNCHANGED store
    BY <1>i, <1>k, <2>1, <2>2, <2>3, Zenon DEF store
  <2>4. CASE Written
    <3>1. lister # NoSecret => secret # NoSecret
      BY <1>p, <2>1
    <3>. QED  BY <1>i, <1>k, <2>1, <2>2, <2>4, <3>1, WrittenStores, Zenon
  <2>. QED  BY <2>1, <2>3, <2>4
<1>8. CASE EngineUpdatePost
  <2>1. /\ epc = "updatePost" /\ UNCHANGED <<cloud, gaveUp>> /\ epc' \in {"failed", "ok"}
        /\ UNCHANGED store \/ Written
    BY <1>8, <1>v, Writes, Zenon DEF EngineUpdatePost
  <2>2. pc[Cluster] \in {"driverCreate", "driverUpdate", "migrate"} /\ Provided(This)
    BY <1>p, <2>1
  <2>3. CASE UNCHANGED store
    BY <1>i, <1>k, <2>1, <2>2, <2>3, Zenon DEF store
  <2>4. CASE Written
    <3>1. lister # NoSecret => secret # NoSecret
      BY <1>p, <2>1
    <3>. QED  BY <1>i, <1>k, <2>1, <2>2, <2>4, <3>1, WrittenStores, Zenon
  <2>. QED  BY <2>1, <2>3, <2>4
<1>9. CASE EngineRemove
  <2>1. /\ epc = "remove" /\ UNCHANGED <<secret, lister, lagging, cloud, gaveUp>>
        /\ epc' \in {"ok", "removeDriver"} /\ (epc' = "ok" => lister = NoSecret)
    BY <1>9, Zenon DEF EngineRemove, store
  <2>2. SecretInv' /\ CloudInv'
    BY <1>i, <1>c, <1>o, <2>1, Zenon DEF SecretInv, CloudInv
  <2>3. ClearInv'
    BY <1>0, <1>c, <1>r, <2>1, Zenon DEF ClearInv
  <2>. QED  BY <2>2, <2>3 DEF StrayInv
<1>10. CASE EngineRemoveDriver
  <2>1. /\ epc = "removeDriver" /\ UNCHANGED <<secret, lister, lagging>> /\ epc' \in {"forget", "ok"}
        /\ cloud' = 0 \/ gaveUp'
    BY <1>10, Zenon DEF EngineRemoveDriver, store
  <2>2. SecretInv' /\ CloudInv' /\ ClearInv'
    BY <1>i, <1>o, <2>1, Zenon DEF SecretInv, CloudInv, ClearInv
  <2>. QED  BY <2>2 DEF StrayInv
<1>11. CASE EngineForget
  <2>1. /\ epc = "forget" /\ UNCHANGED <<lister, cloud, gaveUp>> /\ epc' \in {"failed", "ok"}
        /\ \/ secret' = NoSecret /\ (secret # NoSecret \/ lagging => lagging')
           \/ UNCHANGED <<secret, lagging>>
    BY <1>11, Zenon DEF EngineForget
  <2>2. cloud = 0 \/ gaveUp
    BY <1>r, <2>1 DEF StrayInv, ClearInv
  <2>3. SecretInv'
    BY <1>i, <1>o, <1>r, <2>1 DEF SecretInv
  <2>4. CloudInv' /\ ClearInv'
    BY <2>1, <2>2 DEF CloudInv, ClearInv
  <2>. QED  BY <2>3, <2>4 DEF StrayInv
<1>12. CASE EngineNotStarted
  <2>1. UNCHANGED <<secret, lister, lagging, cloud, gaveUp>> /\ epc' = "failed"
    BY <1>12 DEF EngineNotStarted, store
  <2>2. SecretInv' /\ CloudInv' /\ ClearInv'
    <3>1. pc[Cluster] # "removeFinalizer"
      BY <1>12 DEF EngineNotStarted, CallInv
    <3>. QED  BY <1>0, <1>i, <1>c, <1>o, <2>1, <3>1, Zenon DEF SecretInv, CloudInv, ClearInv
  <2>. QED  BY <2>2 DEF StrayInv
<1>. QED
  BY <1>0, <1>1, <1>2, <1>3, <1>4, <1>5, <1>6, <1>7, <1>8, <1>9, <1>10, <1>11, <1>12, Zenon DEF EngineStep

\* The other steps.
LEMMA StrayStep ==
  ASSUME ~SlowInformer, TypeOK, CopyInv, CallInv, StrayInv, [Next]_vars
  PROVE  StrayInv'
<1>i. /\ ~lagging => (lister = NoSecret <=> secret = NoSecret)
      /\ secret = NoSecret => lister = NoSecret \/ Over
      /\ epc \in {"createDriver", "updateDriver"} => secret # NoSecret
      /\ epc = "updateDriver" => lister # NoSecret
  BY DEF StrayInv, SecretInv
<1>c. cloud # 0 /\ ~gaveUp => Provided(This) /\ secret # NoSecret /\ lister # NoSecret
  BY DEF StrayInv, CloudInv
<1>r. pc[Cluster] = "removeFinalizer" => cloud = 0 \/ gaveUp
  BY DEF StrayInv, ClearInv
\* Steps that leave the Secret and the provider alone.
<1>k. ASSUME UNCHANGED <<secret, lister, lagging, cloud, gaveUp>>,
             epc' = epc \/ epc' \notin {"createDriver", "updateDriver"},
             Over => Over'
      PROVE  SecretInv' /\ CloudInv'
  <2>1. SecretInv'
    BY <1>i, <1>k DEF SecretInv
  <2>2. Provided(This) => Provided(This') \/ pc[Cluster] = "removeFinalizer"
    BY ObjectStep DEF RemoveFinalizer
  <2>3. CloudInv'
    BY <1>c, <1>k, <1>r, <2>2, Zenon DEF CloudInv, Provided
  <2>. QED  BY <2>1, <2>3
<1>o. ASSUME Over, pc[Cluster]' \in Ending \cup {"idle"} PROVE Over'
  <2>1. Gone(This) /\ Gone(Cached)
    BY <1>o, Zenon DEF Over
  <2>2. Gone(This') /\ Gone(Cached')
    BY <2>1, ObjectStep, CacheStep
  <2>. QED  BY <1>o, <2>2, Zenon DEF Over, Gone
<1>1. CASE Handler /\ Table
  <2>1. UNCHANGED <<secret, lister, lagging, cloud, gaveUp>>
    BY <1>1, Zenon DEF Table, Starts, Goes
  <2>2. epc' = epc \/ epc' \notin {"createDriver", "updateDriver"}
    BY <1>1, Zenon DEF Table, Starts, Goes
  <2>3. Over => Over'
    <3>1. CASE pc[Cluster] = "idle" /\ Over
      <4>1. pc[Cluster]' \in {"idle", "finalize"}
        BY <1>1, <3>1, GoneStarts, Zenon DEF Over
      <4>. QED  BY <1>o, <3>1, <4>1, Zenon DEF Ending
    <3>2. CASE pc[Cluster] \in Ending /\ Over
      <4>1. pc[Cluster]' \in Ending \cup {"idle"}
        BY <1>1, <3>2, Zenon DEF Table, Starts, Goes, Ending
      <4>. QED  BY <1>o, <3>2, <4>1, Zenon
    <3>. QED  BY <3>1, <3>2, Zenon DEF Over
  <2>4. ClearInv'
    <3>1. CASE pc[Cluster]' = "remove"
      <4>1. epc' = "remove"
        BY <1>1, <3>1, Zenon DEF Table, Starts, Goes
      <4>. QED  BY <3>1, <4>1 DEF ClearInv
    <3>2. CASE pc[Cluster]' = "removeFinalizer"
      <4>1. \/ pc[Cluster] = "removeFinalizer"
            \/ pc[Cluster] = "remove" /\ epc = "ok"
            \/ pc[Cluster] = "finalize" /\ ~Mine.data.driver
        BY <1>1, <3>2, Zenon DEF Table, Starts, Goes
      <4>2. pc[Cluster] = "finalize" /\ ~Mine.data.driver => ~Provided(This)
        BY Zenon DEF Provided, CopyInv, HandlerInv
      <4>3. cloud = 0 \/ gaveUp
        BY <1>c, <4>1, <4>2, Zenon DEF StrayInv, ClearInv
      <4>. QED  BY <2>1, <4>3 DEF ClearInv
    <3>3. CASE pc[Cluster]' \notin {"remove", "removeFinalizer"}
      BY <3>3 DEF ClearInv
    <3>. QED  BY <3>1, <3>2, <3>3
  <2>. QED  BY <1>k, <2>1, <2>2, <2>3, <2>4 DEF StrayInv
<1>2. CASE Save
  <2>1. /\ pc[Cluster] = "save" /\ pc[Cluster]' \in {"idle", "setInitialized"}
        /\ UNCHANGED <<secret, lister, lagging, cloud, gaveUp, epc>>
    BY <1>2, SaveGoes, Zenon
  <2>2. ~Over /\ ClearInv'
    BY <2>1, Zenon DEF Over, Ending, ClearInv
  <2>. QED  BY <1>k, <2>1, <2>2, Zenon DEF StrayInv
<1>3. CASE Adapter /\ RemoveFinalizer(Cluster)
  <2>1. /\ pc[Cluster] = "removeFinalizer" /\ pc[Cluster]' = "idle"
        /\ UNCHANGED <<secret, lister, lagging, cloud, gaveUp, epc>>
    BY <1>3, RemoveFinalizerGoes, Zenon DEF Adapter, enVars
  <2>2. (Over => Over') /\ ClearInv'
    BY <1>o, <2>1, Zenon DEF ClearInv
  <2>. QED  BY <1>k, <2>1, <2>2, Zenon DEF StrayInv
<1>4. CASE Surroundings
  <2>1. UNCHANGED <<pc, epc, cloud, gaveUp, secret>>
    BY <1>4, SurroundingsKeep
  <2>2. ClearInv' /\ (Over => Over')
    BY <1>o, <2>1, Zenon DEF ClearInv, StrayInv, Over
  <2>3. CASE UNCHANGED <<lister, lagging>>
    BY <1>k, <2>1, <2>2, <2>3, Zenon DEF StrayInv
  <2>4. CASE SecretArrives
    <3>1. lister' = secret /\ UNCHANGED This
      BY <2>4, Zenon DEF SecretArrives, SecretEvent, lcVars, This
    <3>2. SecretInv' /\ CloudInv'
      BY <1>i, <1>c, <2>1, <3>1, Zenon DEF SecretInv, CloudInv, Provided
    <3>. QED  BY <2>2, <3>2, Zenon DEF StrayInv
  <2>5. SecretArrives \/ UNCHANGED <<lister, lagging>>
    BY <1>4, Zenon DEF Surroundings, EventArrives, SchemaDone, Resync, Timers, BackoffOver, Wake,
       TwentySeconds, UserWrites, vars, enVars, store
  <2>. QED  BY <2>3, <2>4, <2>5, Zenon
<1>5. CASE Restart
  <2>1. /\ This' = This /\ pc[Cluster]' = "idle" /\ lister' = secret /\ epc' = "idle"
        /\ UNCHANGED <<secret, gaveUp>>
    BY <1>5, OneCluster DEF Restart, LCRestart, EnRestart, This
  <2>2. cloud' = cloud \/ cloud' = 0 \/ epc \in {"createDriver", "updateDriver"}
    BY <1>5, Zenon DEF Restart, EnRestart
  <2>3. epc \in {"createDriver", "updateDriver"} => Provided(This)
    <3>1. epc \in {"createDriver", "updateDriver"} => pc[Cluster] \in {"driverCreate", "driverUpdate"}
      BY Zenon DEF CallInv
    <3>. QED  BY <3>1, Zenon DEF Provided, CopyInv, HandlerInv, Later
  <2>4. SecretInv' /\ ClearInv'
    BY <2>1, Zenon DEF SecretInv, ClearInv
  <2>5. CloudInv'
    BY <1>i, <1>c, <2>1, <2>2, <2>3, Zenon DEF CloudInv, Provided
  <2>. QED  BY <2>4, <2>5 DEF StrayInv
<1>6. CASE Engines
  BY <1>6, EngineStray
<1>7. CASE Handler
  BY <1>1, <1>2, <1>3, <1>7, AdapterTable, HandlerTable, Zenon DEF Handler
<1>. QED  BY <1>4, <1>5, <1>6, <1>7 DEF Next, Surroundings

\* A cluster that is gone has left nothing at the provider unless its removal was forced,
\* for any number of configurations, failures, conflicting writes and restarts: driver,
\* finalizer and Secret are stored before the driver creates anything, and the finalizer
\* goes last.  The Secret's informer has to be faster than the driver's calls.
THEOREM NothingStray ==
  ASSUME ~SlowInformer
  PROVE  Spec => []NoStrayCluster
<1>. DEFINE Inv == TypeOK /\ CopyInv /\ CallInv /\ StrayInv
<1>1. Init => Inv
  <2>1. Init => StrayInv
    BY OneCluster DEF Init, EnInit, StrayInv, SecretInv, CloudInv, ClearInv
  <2>. QED  BY <2>1, TypeInit, StartInv
<1>2. Inv /\ [Next]_vars => Inv'
  BY TypeStep, CopyStep, CallStep, StrayStep
<1>3. Inv => NoStrayCluster
  BY DEF StrayInv, CloudInv, NoStrayCluster, Provided
<1>. QED  BY <1>1, <1>2, <1>3, PTL DEF Spec
=============================================================================

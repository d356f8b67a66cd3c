----------------------- MODULE ClusterManagerProofs -----------------------
(***************************************************************************)
(* Proofs about ClusterManager for any number of requests, records and     *)
(* configurations: its type invariant, that no cancelled record is left in *)
(* the map, and that Start starts the controllers in the mode it was asked *)
(* for.                                                                    *)
(***************************************************************************)
EXTENDS ClusterManager, TLAPS

\* A goroutine that is about to use a record has one.
HoldsRecord ==
  \A t \in Threads :
    pc[t] \in {"stopCancel", "store", "startController", "locked", "syncing"} =>
      mine[t] \in Records

\* The record between toRecord and LoadOrStore is private to its maker, so
\* nobody has started or cancelled it.
FreshIsPrivate ==
  \A t \in Threads :
    pc[t] = "store" =>
      /\ mine[t] # controllers
      /\ ~rec[mine[t]].cancelled /\ ~rec[mine[t]].started
      /\ \A u \in Threads \ {t} : mine[u] # mine[t]

\* Only peersSync starts controllers.
OnlySyncStarts == \A t \in Threads : pc[t] \in {"locked", "syncing"} => t = Sync

\* While peersSync makes a record of its own, the map holds no started record.
NoStartedRecordMeanwhile ==
  pc[Sync] \in {"toRecord", "store"} /\ controllers # None => ~rec[controllers].started

\* The record peersSync is about to start is not running in another mode.
NotInOtherMode ==
  pc[Sync] \in {"startController", "locked", "syncing"} =>
    ~rec[mine[Sync]].started \/ rec[mine[Sync]].owner = own

\* The inductive invariant.
Inv ==
  /\ TypeOK
  /\ HoldsRecord /\ FreshIsPrivate /\ OnlySyncStarts
  /\ NoStartedRecordMeanwhile /\ NotInOtherMode
  /\ NoZombieRecord /\ StartedAsAsked

\* The type invariant holds initially and is preserved by every step.
LEMMA TypeInit == Init => TypeOK
<1> SUFFICES ASSUME Init PROVE TypeOK
  OBVIOUS
<1>1. NewRecord(NoConfig) \in RecordType
  BY DEF NewRecord, RecordType
<1>2. NoCluster \in Clusters
  BY DEF NoCluster, Clusters
<1>3. obj \in Clusters
  <2>1. CASE obj = [phase |-> "live", cfg |-> NoConfig, provisioned |-> FALSE]
    BY <2>1 DEF Clusters
  <2>2. ASSUME NEW c \in Configs, obj = [phase |-> "live", cfg |-> c, provisioned |-> TRUE]
        PROVE  obj \in Clusters
    BY <2>2 DEF Clusters
  <2> QED BY <2>1, <2>2, FirstAreConfigs DEF Init
<1>4. rec \in [Records -> RecordType] /\ snap \in [Threads -> Clusters]
  BY <1>1, <1>2, Zenon DEF Init
<1>5. /\ pc \in [Threads -> PCs] /\ mine \in [Threads -> Records \cup {None}]
      /\ ret \in [Threads -> {"ok", "fail", "mark", "toRecord", "removed"}]
      /\ made \in [Threads -> BOOLEAN]
  BY DEF Init, PCs
<1>6. cache \in Clusters /\ controllers \in Records \cup {None}
  BY <1>3 DEF Init
<1>7. /\ ready \in BOOLEAN /\ wantOwner \in BOOLEAN /\ reachable \in BOOLEAN
      /\ own \in BOOLEAN /\ changes \in Nat
  BY Zenon DEF Init
<1> QED
  BY <1>3, <1>4, <1>5, <1>6, <1>7 DEF TypeOK

\* Every step keeps the types.
LEMMA TypeStep == TypeOK /\ [Next]_vars => TypeOK'
<1> SUFFICES ASSUME TypeOK, [Next]_vars PROVE TypeOK'
  OBVIOUS
<1> USE ThreadsDistinct, NoneDistinct DEF TypeOK, Goto, PCs, envVars, locals, Threads
<1>1. ASSUME NEW t \in Threads, Step(t) PROVE TypeOK'
  <2>1. CASE StopLoad(t) BY <2>1 DEF StopLoad
  <2>2. CASE StopCancel(t) BY <2>2, ZenonT(30) DEF StopCancel, RecordType
  <2>3. CASE StopDelete(t) BY <2>3 DEF StopDelete
  <2>4. CASE Load(t) BY <2>4, ZenonT(30) DEF Load
  <2>5. CASE ToRecord(t)
    <3>1. snap' \in [Threads -> Clusters]
      BY <2>5 DEF ToRecord, NoCluster, Clusters
    <3>2. rec' \in [Records -> RecordType]
      <4>1. CASE UNCHANGED rec BY <4>1
      <4>2. CASE ~UNCHANGED rec
        <5>1. PICK r \in Records : rec' = [rec EXCEPT ![r] = NewRecord(snap[t].cfg)]
          BY <2>5, <4>2 DEF ToRecord
        <5>2. NewRecord(snap[t].cfg) \in RecordType
          BY DEF NewRecord, RecordType, Clusters
        <5> QED BY <5>1, <5>2
      <4> QED BY <4>1, <4>2
    <3>3. mine' \in [Threads -> Records \cup {None}]
      BY <2>5 DEF ToRecord
    <3> QED BY <2>5, <3>1, <3>2, <3>3 DEF ToRecord
  <2>6. CASE LoadOrStore(t) BY <2>6 DEF LoadOrStore
  <2>7. CASE StartController(t) BY <2>7 DEF StartController, AfterError
  <2>8. CASE Locked(t) BY <2>8 DEF Locked, AfterError
  <2>9. CASE DoStart(t)
    <3>1. rec' \in [Records -> RecordType]
      <4>1. CASE UNCHANGED rec BY <4>1
      <4>2. CASE rec' = [rec EXCEPT ![mine[t]].started = TRUE, ![mine[t]].owner = own]
        <5>1. ASSUME NEW r \in Records
              PROVE  [rec[r] EXCEPT !.started = TRUE, !.owner = own] \in RecordType
          <6> HIDE DEF TypeOK
          <6>1. rec[r] \in RecordType /\ own \in BOOLEAN
            BY DEF TypeOK
          <6> QED BY <6>1, Zenon DEF RecordType
        <5>2. \A r \in Records :
                rec'[r] = IF r = mine[t] THEN [rec[r] EXCEPT !.started = TRUE, !.owner = own] ELSE rec[r]
          BY <4>2, Zenon
        <5>3. DOMAIN rec' = Records /\ rec' = [r \in Records |-> rec'[r]]
          BY <4>2, ZenonT(30)
        <5>4. \A r \in Records : rec[r] \in RecordType
          OBVIOUS
        <5> HIDE DEF TypeOK
        <5>5. \A r \in Records : rec'[r] \in RecordType
          BY <5>1, <5>2, <5>4, Zenon
        <5> QED BY <5>3, <5>5, Zenon
      <4>3. CASE rec' = [rec EXCEPT ![mine[t]].cancelled = TRUE]
        BY <4>3, ZenonT(30) DEF RecordType
      <4> QED BY <2>9, <4>1, <4>2, <4>3 DEF DoStart
    <3> QED BY <2>9, <3>1 DEF DoStart, AfterError
  <2>10. CASE MarkUnavailable(t) BY <2>10, ZenonT(30) DEF MarkUnavailable
  <2>11. CASE Return(t) BY <2>11 DEF Return, NoCluster, Clusters
  <2> QED BY <1>1, <2>1, <2>2, <2>3, <2>4, <2>5, <2>6, <2>7, <2>8, <2>9, <2>10, <2>11, Zenon DEF Step
<1>2. ASSUME NEW t \in APIs, UserContext(t) PROVE TypeOK'
  BY <1>2 DEF UserContext
<1>3. CASE SyncEntry
  BY <1>3 DEF SyncEntry, PeersSyncStart, PeersSyncStop, Reload
<1>4. CASE Remove
  <2>1. CASE RemoveImported BY <2>1 DEF RemoveImported
  <2>2. CASE RemoveOther BY <2>2 DEF RemoveOther
  <2>3. CASE RemoveCleaned BY <2>3 DEF RemoveCleaned, NoCluster, Clusters
  <2>4. CASE RemoveDone BY <2>4 DEF RemoveDone, Clusters
  <2> QED BY <1>4, <2>1, <2>2, <2>3, <2>4, Zenon DEF Remove
<1>5. CASE Environment
  <2>1. CASE Reconfigure
    <3>1. obj' \in Clusters
      <4>1. CASE obj' = [obj EXCEPT !.provisioned = FALSE]
        BY <4>1, Zenon DEF Clusters
      <4>2. ASSUME NEW c \in Configs, obj' = [obj EXCEPT !.cfg = c, !.provisioned = TRUE]
            PROVE  obj' \in Clusters
        BY <4>2, Zenon DEF Clusters
      <4> QED BY <2>1, <4>1, <4>2, Zenon DEF Reconfigure
    <3>2. /\ Change("reconfigure")
          /\ UNCHANGED <<ready, cache, wantOwner, reachable, controllers, rec, pc, locals>>
      BY <2>1, Zenon DEF Reconfigure
    <3> QED BY <3>1, <3>2 DEF Change
  <2>2. CASE Delete BY <2>2 DEF Delete, Change, Clusters
  <2>3. CASE Informer BY <2>3 DEF Informer
  <2>4. CASE MoveOwner
    <3>1. wantOwner' \in BOOLEAN BY <2>4, Zenon DEF MoveOwner
    <3> QED BY <2>4, <3>1 DEF MoveOwner, Change
  <2>5. CASE Network
    <3>1. reachable' \in BOOLEAN BY <2>5, Zenon DEF Network
    <3> QED BY <2>5, <3>1 DEF Network, Change
  <2> QED BY <1>5, <2>1, <2>2, <2>3, <2>4, <2>5, Zenon DEF Environment
<1>6. CASE UNCHANGED vars BY <1>6 DEF vars
<1> QED BY <1>1, <1>2, <1>3, <1>4, <1>5, <1>6 DEF Next

\* The state of Manager is always well typed.
THEOREM TypeCorrect == Spec => []TypeOK
  BY TypeInit, TypeStep, PTL DEF Spec

-----------------------------------------------------------------------------
\* The inductive invariant holds at the start, ...
LEMMA InvInit == Init => Inv
<1> SUFFICES ASSUME Init PROVE Inv
  OBVIOUS
<1>1. \A t \in Threads : pc[t] = "idle"
  BY DEF Init
<1>2. Sync \in Threads /\ controllers = None
  BY DEF Init, Threads
<1> QED BY <1>1, <1>2, TypeInit, NoneDistinct DEF Inv, HoldsRecord, FreshIsPrivate, OnlySyncStarts,
     NoStartedRecordMeanwhile, NotInOtherMode, NoZombieRecord, StartedAsAsked

\* A step that leaves the map, the records and the locals of the goroutines
\* alone, and moves no goroutine, preserves the invariant.
LEMMA EnvironmentStep ==
  ASSUME Inv, TypeOK', UNCHANGED <<controllers, rec, pc, locals>>
  PROVE  Inv'
  BY DEF Inv, HoldsRecord, FreshIsPrivate, OnlySyncStarts, NoStartedRecordMeanwhile,
     NotInOtherMode, NoZombieRecord, StartedAsAsked, InStop, locals

\* ... and every step keeps it.
LEMMA InvStep == Inv /\ [Next]_vars => Inv'
<1> SUFFICES ASSUME Inv, [Next]_vars PROVE Inv'
  OBVIOUS
<1>t. TypeOK /\ TypeOK'
  BY TypeStep DEF Inv
<1> USE ThreadsDistinct, NoneDistinct, <1>t
    DEF Inv, TypeOK, HoldsRecord, FreshIsPrivate, OnlySyncStarts, NoStartedRecordMeanwhile,
        NotInOtherMode, NoZombieRecord, StartedAsAsked, Goto, envVars, locals, Threads, InStop
<1>1. ASSUME NEW t \in Threads, Step(t) PROVE Inv'
  <2>1. CASE StopLoad(t)
    BY <2>1 DEF StopLoad
  <2>2. CASE StopCancel(t)
    BY <2>2 DEF StopCancel, RecordType
  <2>3. CASE StopDelete(t)
    BY <2>3 DEF StopDelete
  <2>4. CASE Load(t)
    BY <2>4 DEF Load, Changed
  <2>5. CASE ToRecord(t)
    BY <2>5, SMTT(30) DEF ToRecord, Unreachable, NewRecord, RecordType
  <2>6. CASE LoadOrStore(t)
    BY <2>6 DEF LoadOrStore
  <2>7. CASE StartController(t)
    BY <2>7, Zenon DEF StartController, AfterError
  <2>8. CASE Locked(t)
    BY <2>8 DEF Locked, AfterError
  <2>9. CASE DoStart(t)
    <3>0. pc[t] = "syncing" /\ UNCHANGED <<controllers, mine, own, made>>
      BY <2>9, Zenon DEF DoStart
    <3>1. CASE /\ rec' = [rec EXCEPT ![mine[t]].started = TRUE, ![mine[t]].owner = own]
               /\ ~rec[mine[t]].cancelled /\ pc' = [pc EXCEPT ![t] = "ok"] /\ ret' = ret
      BY <3>0, <3>1, SMTT(30) DEF RecordType
    <3>2. CASE rec' = rec /\ pc' = [pc EXCEPT ![t] = "stopLoad"] /\ \E x : ret' = [ret EXCEPT ![t] = x]
      BY <3>0, <3>2, SMTT(30) DEF RecordType
    <3>3. CASE /\ rec' = [rec EXCEPT ![mine[t]].cancelled = TRUE]
               /\ pc' = [pc EXCEPT ![t] = "stopLoad"] /\ \E x : ret' = [ret EXCEPT ![t] = x]
      BY <3>0, <3>3, SMTT(30) DEF RecordType
    <3> QED BY <2>9, <3>1, <3>2, <3>3, Zenon DEF DoStart
  <2>10. CASE MarkUnavailable(t)
    BY <2>10 DEF MarkUnavailable
  <2>11. CASE Return(t)
    BY <2>11 DEF Return
  <2> QED BY <1>1, <2>1, <2>2, <2>3, <2>4, <2>5, <2>6, <2>7, <2>8, <2>9, <2>10, <2>11, Zenon DEF Step
<1>2. ASSUME NEW t \in APIs, UserContext(t) PROVE Inv'
  BY <1>2, Zenon DEF UserContext
<1>3. CASE SyncEntry
  BY <1>3 DEF SyncEntry, PeersSyncStart, PeersSyncStop, Reload
<1>4. CASE Remove
  BY <1>4 DEF Remove, RemoveImported, RemoveOther, RemoveCleaned, RemoveDone
<1>5. CASE Environment
  BY <1>5, EnvironmentStep, Zenon DEF Environment, Reconfigure, Delete, Informer, MoveOwner, Network
<1>6. CASE UNCHANGED vars
  BY <1>6, EnvironmentStep, Zenon DEF vars
<1> QED BY <1>1, <1>2, <1>3, <1>4, <1>5, <1>6, Zenon DEF Next

\* A cancelled record never stays in the map: see NoZombieRecord.
THEOREM NoZombie == Spec => []NoZombieRecord
<1>1. Inv => NoZombieRecord
  BY DEF Inv
<1> QED BY InvInit, InvStep, <1>1, PTL DEF Spec

\* A successful Start leaves the controllers in the mode asked for: see StartedAsAsked.
THEOREM StartMode == Spec => []StartedAsAsked
<1>1. Inv => StartedAsAsked
  BY DEF Inv
<1> QED BY InvInit, InvStep, <1>1, PTL DEF Spec

=============================================================================

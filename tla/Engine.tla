------------------------------- MODULE Engine -------------------------------
(***************************************************************************)
(* vendor/github.com/rancher/kontainer-engine: the engine that creates,    *)
(* updates and removes the cluster of a hosted provider, and the Secret in *)
(* which it keeps what it knows of the cluster (pkg/encryptedstore).       *)
(* One caller at a time; the caller waits until epc is a result.           *)
(***************************************************************************)
EXTENDS Naturals

CONSTANTS
  MaxConfig,     \* configurations are numbered
  NoSecret,
  SlowInformer,  \* the lister can be old for longer than a driver's call takes
  MaxFaults      \* bound: failed calls, writes by others, returns to an earlier
                 \* configuration, restarts

ASSUME ConfigsAreNumbers == MaxConfig \in Nat \ {0} /\ MaxFaults \in Nat

VARIABLES
  secret,   \* the Secret in the API server
  lister,   \* the lister's copy, which the store changes in place
  lagging,  \* the copy's resource version is old
  cloud,    \* the configuration with which the driver has last called the provider for
            \* the cluster that is there; 0: there is none
  epc,      \* where the engine is
  c,        \* its Cluster: status and info
  want,     \* the configuration that is being provisioned; 0: none
  gaveUp,   \* a removal has left the provider's cluster alone
  faults

enVars == <<secret, lister, lagging, cloud, epc, c, want, gaveUp, faults>>
store  == <<secret, lister, lagging>>

Configs == 1 .. MaxConfig

\* Pre-Creating and Creating are told apart by nobody; Init is never stored.  The info
\* is empty or has the driver's metadata; endpoint and token are left out.
Statuses == {"", "Creating", "PostCheck", "Running", "Updating", "Error"}
Value == [status : Statuses, info : {"none", "meta"}]
Blank == [status |-> "", info |-> "none"]

ASSUME NoSecretIsNone == NoSecret \notin Value

Results == {"ok", "exists", "failed"}

EnInit ==
  /\ secret = NoSecret /\ lister = NoSecret /\ lagging = FALSE
  /\ cloud = 0
  /\ epc = "idle" /\ c = Blank /\ want = 0
  /\ gaveUp = FALSE /\ faults = 0

EnTypeOK ==
  /\ {secret, lister} \subseteq Value \cup {NoSecret} /\ lagging \in BOOLEAN
  /\ cloud \in Configs \cup {0}
  /\ epc \in Results \cup {"idle", "create", "createDriver", "createPost", "createDone",
                           "update", "updateDriver", "updatePost",
                           "generate", "remove", "removeDriver", "forget"}
  /\ c \in Value /\ want \in Configs \cup {0}
  /\ gaveUp \in BOOLEAN

Fault == faults < MaxFaults /\ faults' = faults + 1

\* A step that may fail.
Works == UNCHANGED faults

-----------------------------------------------------------------------------
(* GenericEncryptedStore                                                   *)

\* set: a Secret that is not in the lister is created, and one that exists all the
\* same is left as it is.  Otherwise the lister's object is changed in place and sent, if
\* there is a change; if the API server refuses it as old, the next try finds none.
Set(v) ==
  IF lister = NoSecret
  THEN /\ secret' = IF secret = NoSecret THEN v ELSE secret
       /\ lagging' = TRUE
       /\ UNCHANGED lister
  ELSE /\ lister' = v
       /\ secret' = IF lagging \/ v = lister THEN secret ELSE v
       /\ lagging' = (lagging \/ v # lister)

\* The API server fails to store the change, the next try finds nothing left to change.
Lose(v) == lister # NoSecret /\ lister' = v /\ UNCHANGED <<secret, lagging>>

\* set in a step that does not fail otherwise.
Put(v) == (Set(v) /\ Works) \/ (Lose(v) /\ Fault)

SecretEvent ==
  /\ lagging
  /\ lister' = secret /\ lagging' = FALSE
  /\ UNCHANGED <<secret, cloud, epc, c, want, gaveUp, faults>>

\* The status and the info that restore reads.
Restored == IF lister = NoSecret THEN Blank ELSE lister

WithStatus(v, status) == [v EXCEPT !.status = status]

PersistStatus(v, status) == Put(WithStatus(v, status))

-----------------------------------------------------------------------------
(* Create                                                                  *)

\* The calls of the driver take minutes.
DriverEnds == SlowInformer \/ ~lagging

\* A new info, with the driver's metadata.
Meta == [status |-> "", info |-> "meta"]

\* Create after an error: the status is stored, or lost with the rest.
CreateFails(v) ==
  /\ Fault
  /\ Set(WithStatus(v, "Error")) \/ Lose(WithStatus(v, "Error"))
  /\ epc' = "failed"

\* createInner and the beginning of create, which stores the status twice: Pre-Creating
\* and Creating.  Either Create of a new Secret may fail.
EngineCreate ==
  /\ epc = "create"
  /\ IF Restored.status \in {"Updating", "Running", "PostCheck"}
     THEN PersistStatus(Restored, "Running") /\ epc' = "exists" /\ UNCHANGED c
     ELSE /\ c' = Restored
          /\ \/ PersistStatus(c', "Creating") /\ epc' = "createDriver"
             \/ /\ Fault /\ lister = NoSecret
                /\ Set(WithStatus(c', "Creating")) \/ Set(WithStatus(c', "Error"))
                /\ epc' = "failed"
  /\ UNCHANGED <<cloud, want, gaveUp>>

\* The driver returns a new info, and some when it fails, too.
EngineCreateDriver ==
  /\ epc = "createDriver" /\ DriverEnds
  /\ \/ /\ cloud' = want /\ c' = Meta
        /\ PersistStatus(c', "PostCheck") /\ epc' = "createPost"
     \/ cloud' \in {cloud, want} /\ c' \in {c, Meta} /\ CreateFails(c')
  /\ UNCHANGED <<want, gaveUp>>

\* PostCheck stores the status of the driver's info.
EngineCreatePost ==
  /\ epc = "createPost"
  /\ \/ Put(c) /\ epc' = "createDone"
     \/ CreateFails(c)
  /\ UNCHANGED <<cloud, c, want, gaveUp>>

EngineCreateDone ==
  /\ epc = "createDone"
  /\ PersistStatus(c, "Running") /\ epc' = "ok"
  /\ c' = Blank
  /\ UNCHANGED <<cloud, want, gaveUp>>

-----------------------------------------------------------------------------
(* Update, GenerateServiceAccount                                          *)

EngineUpdate ==
  /\ epc = "update"
  /\ CASE lister = NoSecret \/ Restored.status = "Creating" ->
            epc' = "failed" /\ UNCHANGED <<store, c, faults>>
       [] Restored.status = "Error" ->
            epc' = "create" /\ UNCHANGED <<store, c, faults>>
       [] OTHER ->
            c' = Restored /\ PersistStatus(c', "Updating") /\ epc' = "updateDriver"
  /\ UNCHANGED <<cloud, want, gaveUp>>

\* A driver that is not given metadata fails.
DriverFails == IF c.info = "none" THEN Works ELSE Fault

\* A driver returns the info it was given, or a new one; the one of AKS needs no metadata.
EngineUpdateDriver ==
  /\ epc = "updateDriver" /\ DriverEnds
  /\ \/ /\ cloud' = want
        /\ c' \in {c, Meta} /\ c'.info # "none"
        /\ PersistStatus(c', "PostCheck") /\ epc' = "updatePost"
     \/ /\ DriverFails
        /\ cloud' \in {cloud, want} /\ epc' = "failed"
        /\ UNCHANGED <<store, c>>
  /\ UNCHANGED <<want, gaveUp>>

EngineGenerate ==
  /\ epc = "generate"
  /\ IF lister = NoSecret
     THEN epc' = "failed" /\ UNCHANGED <<store, c, faults>>
     ELSE c' = Restored /\ PersistStatus(c', "Updating") /\ epc' = "updatePost"
  /\ UNCHANGED <<cloud, want, gaveUp>>

\* The last step of both: the driver's PostCheck, which needs the metadata, then Store.
EngineUpdatePost ==
  /\ epc = "updatePost"
  /\ \/ c.info # "none" /\ Put(c) /\ epc' = "ok"
     \/ DriverFails /\ epc' = "failed" /\ UNCHANGED store
  /\ c' = Blank
  /\ UNCHANGED <<cloud, want, gaveUp>>

-----------------------------------------------------------------------------
(* Remove, with the four attempts of the provisioner                       *)

\* Mutant: a cluster without a Secret cannot be removed.
EngineRemoveNotFound ==
  /\ epc = "remove"
  /\ c' = Restored
  /\ epc' = IF lister = NoSecret THEN "failed" ELSE "removeDriver"
  /\ UNCHANGED <<store, cloud, want, gaveUp, faults>>

EngineRemove ==
  /\ epc = "remove"
  /\ c' = Restored
  /\ epc' = IF lister = NoSecret THEN "ok" ELSE "removeDriver"
  /\ UNCHANGED <<store, cloud, want, gaveUp, faults>>

\* A driver that does not know the cluster's metadata fails.  The fourth attempt goes
\* on after a failure, and the Secret of a driver that has been deleted is kept.
EngineRemoveDriver ==
  /\ epc = "removeDriver" /\ DriverEnds
  /\ \/ /\ c.info # "none"
        /\ cloud' = 0 /\ epc' = "forget"
        /\ UNCHANGED <<gaveUp, faults>>
     \/ /\ c.info = "none" /\ UNCHANGED faults
        /\ gaveUp' = (cloud # 0) /\ epc' = "forget"
        /\ UNCHANGED cloud
     \/ /\ Fault
        /\ gaveUp' = (cloud # 0) /\ epc' \in {"forget", "ok"}
        /\ UNCHANGED cloud
  /\ UNCHANGED <<store, c, want>>

EngineForget ==
  /\ epc = "forget"
  /\ \/ /\ secret' = NoSecret /\ lagging' = (secret # NoSecret \/ lagging) /\ epc' = "ok"
        /\ UNCHANGED faults
     \/ Fault /\ epc' = "failed" /\ UNCHANGED <<secret, lagging>>
  /\ UNCHANGED <<lister, cloud, c, want, gaveUp>>

\* The service cannot start or reach the driver.
EngineNotStarted ==
  /\ epc \in {"create", "update", "generate", "remove"}
  /\ Fault /\ epc' = "failed"
  /\ UNCHANGED <<store, cloud, c, want, gaveUp>>

-----------------------------------------------------------------------------
EngineStep ==
  \/ EngineCreate \/ EngineCreateDriver \/ EngineCreatePost \/ EngineCreateDone
  \/ EngineUpdate \/ EngineUpdateDriver \/ EngineGenerate \/ EngineUpdatePost
  \/ EngineRemove \/ EngineRemoveDriver \/ EngineForget \/ EngineNotStarted

\* The process ends; what it has sent to the provider may still be done.
EnRestart ==
  /\ lister' = secret /\ lagging' = FALSE
  /\ epc' = "idle" /\ c' = Blank /\ want' = 0
  /\ cloud' \in {cloud} \cup
       CASE epc \in {"createDriver", "updateDriver"} -> {want}
         [] epc = "removeDriver" /\ c.info # "none" -> {0}
         [] OTHER -> {cloud}
  /\ UNCHANGED <<secret, gaveUp>>
=============================================================================

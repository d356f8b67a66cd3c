----------------------------- MODULE Lifecycle -----------------------------
(***************************************************************************)
(* norman/lifecycle/object.go: the adapter that turns events of an object  *)
(* into calls of Create, Updated and Finalize, by a finalizer and an       *)
(* annotation it keeps in the object.  The handlers' own work is left to   *)
(* the module that extends this one.                                       *)
(*                                                                         *)
(* The API server refuses an update of an old copy.  Instead of resource   *)
(* versions the model keeps which copies are current: a write makes every  *)
(* copy but the writer's old.                                              *)
(***************************************************************************)
EXTENDS Naturals, FiniteSets

CONSTANTS
  Objects,
  Data,      \* what the handlers keep in an object
  NewData    \* a new object's

VARIABLES
  obj,       \* the objects in the API server
  cache,     \* the lister's copies
  old,       \* the objects whose copy in the cache is old
  mine,      \* the copy the handler of each object works on
  conflict,  \* the objects whose handler has an old copy
  queue,     \* the keys in the work queue, delayed ones included
  pc,        \* where the handler of each object is
  tries      \* attempts to remove the finalizer

lcVars == <<obj, cache, old, mine, conflict, queue, pc, tries>>

ObjectType == [there : BOOLEAN, deleting : BOOLEAN, fin : BOOLEAN, init : BOOLEAN, data : Data]

Absent == [there |-> FALSE, deleting |-> FALSE, fin |-> FALSE, init |-> FALSE, data |-> NewData]

LCInit ==
  /\ obj = [b \in Objects |-> Absent]
  /\ cache = obj /\ mine = obj
  /\ old = {} /\ conflict = {} /\ queue = {}
  /\ pc = [b \in Objects |-> "idle"]
  /\ tries = [b \in Objects |-> 0]

LCTypeOK ==
  /\ obj \in [Objects -> ObjectType] /\ cache \in [Objects -> ObjectType]
  /\ mine \in [Objects -> ObjectType]
  /\ old \subseteq Objects /\ conflict \subseteq Objects /\ queue \subseteq Objects
  /\ tries \in [Objects -> 0..2]

-----------------------------------------------------------------------------
(* The API server and the informer.                                        *)

\* The server has a new version of the object.
Store(b, new) ==
  /\ obj' = [obj EXCEPT ![b] = new]
  /\ old' = old \cup {b}

\* Somebody else than the handler writes the object.
WriteBy(b, new) ==
  /\ Store(b, new)
  /\ conflict' = IF pc[b] = "idle" THEN conflict ELSE conflict \cup {b}

\* The name of an object that is gone and forgotten can be used for a new one.
Unused(b) == ~obj[b].there /\ ~cache[b].there /\ pc[b] = "idle" /\ b \notin queue \cup old

\* An object with a finalizer only gets its deletion timestamp, and once.
DeleteBy(b) ==
  IF obj[b].deleting THEN UNCHANGED <<obj, old, conflict>>
  ELSE WriteBy(b, IF obj[b].fin THEN [obj[b] EXCEPT !.deleting = TRUE] ELSE Absent)

Informer(b) ==
  /\ b \in old
  /\ cache' = [cache EXCEPT ![b] = obj[b]]
  /\ old' = old \ {b}
  /\ queue' = queue \cup {b}
  /\ UNCHANGED <<obj, mine, conflict, pc, tries>>

-----------------------------------------------------------------------------
(* The handler of one object.                                              *)

\* The handler goes on with a copy it has just got, made or stored.
Continue(b, label, copy) ==
  /\ pc' = [pc EXCEPT ![b] = label]
  /\ mine' = [mine EXCEPT ![b] = copy]
  /\ UNCHANGED queue

Ends(b) ==
  /\ pc' = [pc EXCEPT ![b] = "idle"]
  /\ mine' = [mine EXCEPT ![b] = Absent]
  /\ conflict' = conflict \ {b}
  /\ tries' = [tries EXCEPT ![b] = 0]

Return(b) == Ends(b) /\ UNCHANGED queue

\* An error: the key comes back after a delay.
Retry(b) == Ends(b) /\ queue' = queue \cup {b}

\* The handler's Update, which succeeds if its copy is not old.
Update(b, new) == b \notin conflict /\ Store(b, new)

\* What sync does first with a copy o: finalize, create or Updated, which is left to
\* the module that extends this one.
FirstStep(o) ==
  CASE ~o.there                   -> "idle"
    [] o.there /\ o.deleting      -> IF o.fin THEN "finalize" ELSE "idle"
    [] o.there /\ ~o.deleting     -> IF o.init THEN "idle" ELSE
                                     IF o.fin THEN "create" ELSE "addFinalizer"

Sync(b) ==
  /\ pc[b] = "idle" /\ b \in queue
  /\ queue' = queue \ {b}
  /\ pc' = [pc EXCEPT ![b] = FirstStep(cache[b])]
  /\ IF FirstStep(cache[b]) = "idle"
     THEN UNCHANGED <<mine, conflict>>
     ELSE /\ mine' = [mine EXCEPT ![b] = cache[b]]
          /\ conflict' = IF b \in old THEN conflict \cup {b} ELSE conflict
  /\ UNCHANGED <<obj, cache, old, tries>>

\* Mutant: Create runs first, the finalizer is added when there is something to
\* clean up.
AddFinalizerLate(b) ==
  /\ pc[b] = "addFinalizer"
  /\ Continue(b, "create", mine[b])
  /\ UNCHANGED <<obj, cache, old, conflict, tries>>

AddFinalizer(b) ==
  /\ pc[b] = "addFinalizer"
  /\ LET new == [mine[b] EXCEPT !.fin = TRUE]
     IN  Update(b, new) /\ Continue(b, "create", new)
  /\ UNCHANGED <<cache, conflict, tries>>

\* Create has returned without an error.
SetInitialized(b) ==
  /\ pc[b] = "setInitialized"
  /\ Update(b, [mine[b] EXCEPT !.init = TRUE])
  /\ Return(b)
  /\ UNCHANGED cache

\* An Update of an old copy, or a call that fails; not one of removeFinalizer.
Fails(b) ==
  /\ pc[b] \notin {"idle", "removeFinalizer"}
  /\ Retry(b)
  /\ UNCHANGED <<obj, cache, old>>

\* A deleted object without a finalizer is gone.
RemoveFinalizer(b) ==
  /\ pc[b] = "removeFinalizer"
  /\ Update(b, Absent)
  /\ Return(b)
  /\ UNCHANGED cache

\* After an Update that fails, for whatever reason, the object is read again; the third
\* failure is an error, and so is an object that has gone.
RemoveFinalizerAgain(b) ==
  /\ pc[b] = "removeFinalizer"
  /\ IF obj[b].there /\ tries[b] < 2
     THEN /\ Continue(b, "removeFinalizer", obj[b])
          /\ conflict' = conflict \ {b}
          /\ tries' = [tries EXCEPT ![b] = @ + 1]
     ELSE Retry(b)
  /\ UNCHANGED <<obj, cache, old>>

\* The server is restarted: its handlers are gone, the informer lists anew.
LCRestart ==
  /\ cache' = obj
  /\ old' = {} /\ conflict' = {}
  /\ queue' = {b \in Objects : obj[b].there}
  /\ pc' = [b \in Objects |-> "idle"]
  /\ mine' = [b \in Objects |-> Absent]
  /\ tries' = [b \in Objects |-> 0]
  /\ UNCHANGED obj
=============================================================================

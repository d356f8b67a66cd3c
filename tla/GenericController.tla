------------------------- MODULE GenericController -------------------------
(***************************************************************************)
(* norman/controller/generic_controller.go with the work queue and the     *)
(* informer it uses: one controller, its list of handlers, the workers     *)
(* that call them, the generations by which handlers that are added to a   *)
(* running controller get the objects that are already there.              *)
(***************************************************************************)
EXTENDS Integers, Sequences, FiniteSets

CONSTANTS
  Keys, Handlers, Workers,
  Late,        \* the handlers a cluster's context adds; the others are the server's
  None,
  MaxVersion,  \* bound: changes of one object
  MaxFailures  \* bound: handler calls that fail

ASSUME LateAreHandlers == Late \subseteq Handlers
ASSUME BoundsAreNumbers == MaxVersion \in Nat /\ MaxFailures \in Nat

All == -1  \* the generation of a plain key: it is meant for all handlers

VARIABLES
  api, live,  \* the objects' versions in the API server, and those that exist
  store, present,  \* the same in the informer's store
  notify,     \* keys whose event has not reached queueObject
  handlers,   \* g.handlers
  gen,        \* handler.generation (All: not added yet)
  cancelled,  \* handlers whose context is done and that have been taken out
  generation, running,
  dirty, processing, delayed,  \* the queue; delayed: after AddRateLimited
  wpc, item, copy, todo, err,  \* the workers in processNextWorkItem
  handled,    \* the newest version of each object each handler knows
  failures

env     == <<api, live, store, present, notify>>
list    == <<handlers, gen, cancelled, generation, running>>
queue   == <<dirty, processing, delayed>>
workers == <<wpc, item, copy, todo, err>>
vars    == <<env, list, queue, workers, handled, failures>>

Items == (Nat \cup {All}) \X Keys
Plain(k) == <<All, k>>

Listed == {handlers[i] : i \in DOMAIN handlers}

Init ==
  /\ live \in SUBSET Keys /\ api = [k \in Keys |-> IF k \in live THEN 1 ELSE 0]
  /\ store = [k \in Keys |-> 0] /\ present = {}
  /\ notify = {}
  /\ handlers = <<>>
  /\ gen = [h \in Handlers |-> All]
  /\ cancelled = {}
  /\ generation = 0 /\ running = FALSE
  /\ dirty = {} /\ processing = {} /\ delayed = {}
  /\ wpc = [w \in Workers |-> "get"]
  /\ item = [w \in Workers |-> None]
  /\ copy = [w \in Workers |-> 0]
  /\ todo = [w \in Workers |-> <<>>]
  /\ err = [w \in Workers |-> "none"]
  /\ handled = [h \in Handlers |-> [k \in Keys |-> 0]]
  /\ failures = 0

-----------------------------------------------------------------------------
(* Objects, the informer, the queue.                                       *)

\* Somebody creates, changes or deletes the object.
Write(k) ==
  /\ api[k] < MaxVersion
  /\ api' = [api EXCEPT ![k] = @ + 1]
  /\ \/ live' = live \cup {k}
     \/ k \in live /\ live' = live \ {k}
  /\ UNCHANGED <<store, present, notify, list, queue, workers, handled, failures>>

\* The informer, which runs once the controller is started, brings its store up
\* to date; the listeners are told afterwards.
Informer(k) ==
  /\ running
  /\ store[k] # api[k]
  /\ store' = [store EXCEPT ![k] = api[k]]
  /\ present' = IF k \in live THEN present \cup {k} ELSE present \ {k}
  /\ notify' = notify \cup {k}
  /\ UNCHANGED <<api, live, list, queue, workers, handled, failures>>

\* Type.Add: an item that is being processed is put into the queue by Done.
Add(items) == dirty' = dirty \cup items

\* AddFunc, UpdateFunc and DeleteFunc.
QueueObject(k) ==
  /\ k \in notify
  /\ notify' = notify \ {k}
  /\ Add({Plain(k)})
  /\ UNCHANGED <<api, live, store, present, list, processing, delayed, workers, handled, failures>>

\* The rate limiter's delay is over.
Delayed(k) ==
  /\ k \in delayed
  /\ delayed' = delayed \ {k}
  /\ Add({Plain(k)})
  /\ UNCHANGED <<env, list, processing, workers, handled, failures>>

-----------------------------------------------------------------------------
(* The list of handlers, under the controller's mutex.                     *)

\* The server adds its handlers before it starts the controller, a cluster's
\* context comes later.  A handler has nothing to learn about objects that were
\* gone when it came.
AddHandler(h) ==
  /\ gen[h] = All
  /\ running <=> h \in Late
  /\ gen' = [gen EXCEPT ![h] = generation]
  /\ handlers' = Append(handlers, h)
  /\ handled' = [handled EXCEPT ![h] = [k \in Keys |->
                   IF k \in present THEN 0 ELSE store[k]]]
  /\ UNCHANGED <<env, cancelled, generation, running, queue, workers, failures>>

\* The goroutine of AddHandler when the cluster's context is done: it appends h once for
\* every other handler.
Deregister(h) ==
  /\ h \in Late /\ gen[h] # All /\ h \notin cancelled
  /\ cancelled' = cancelled \cup {h}
  /\ LET others == {i \in DOMAIN handlers : handlers[i] # h}
     IN  handlers' = [i \in 1..Cardinality(others) |-> h]
  /\ UNCHANGED <<env, gen, generation, running, queue, workers, handled, failures>>

\* Mutant: Start does not queue the objects for handlers that came late.
StartNoRequeue ==
  /\ \/ ~running
     \/ \E h \in Listed : gen[h] = generation
  /\ generation' = generation + 1
  /\ running' = TRUE
  /\ UNCHANGED <<env, handlers, gen, cancelled, queue, workers, handled, failures>>

\* The first Start runs the informer and the workers; a later one queues every
\* object for the handlers of the present generation, if there is any (without
\* any it would only count the generation).
Start ==
  /\ \/ ~running /\ UNCHANGED dirty
     \/ /\ running
        /\ \E h \in Listed : gen[h] = generation
        /\ Add({<<generation, k>> : k \in present})
  /\ generation' = generation + 1
  /\ running' = TRUE
  /\ UNCHANGED <<env, handlers, gen, cancelled, processing, delayed, workers, handled, failures>>

-----------------------------------------------------------------------------
(* processNextWorkItem and syncHandler                                     *)

Goto(w, label) == wpc' = [wpc EXCEPT ![w] = label]

Key(w) == item[w][2]

\* Type.Get (the queue holds the dirty items that nobody processes) and the
\* GetByKey that follows it: an informer's update in between could as well have
\* come before, its event as well later.  A missing object is nil, and has a
\* version like others.
Get(w) ==
  /\ wpc[w] = "get" /\ running
  /\ \E i \in dirty \ processing :
       /\ item' = [item EXCEPT ![w] = i]
       /\ processing' = processing \cup {i}
       /\ dirty' = dirty \ {i}
       /\ copy' = [copy EXCEPT ![w] = store[i[2]]]
  /\ Goto(w, "range")
  /\ UNCHANGED <<env, list, delayed, todo, err, handled, failures>>

\* The loop ranges over the list as it is now, read without the mutex.
RangeHandlers(w) ==
  /\ wpc[w] = "range"
  /\ todo' = [todo EXCEPT ![w] = handlers]
  /\ Goto(w, "call")
  /\ UNCHANGED <<env, list, queue, item, copy, err, handled, failures>>

Meant(i, h) == i[1] = All \/ i[1] = gen[h]

Skip(w) ==
  /\ wpc[w] = "call" /\ todo[w] # <<>>
  /\ ~Meant(item[w], Head(todo[w]))
  /\ todo' = [todo EXCEPT ![w] = Tail(@)]
  /\ UNCHANGED <<env, list, queue, wpc, item, copy, err, handled, failures>>

Newer(a, b) == IF a < b THEN b ELSE a

Handles(w, h, ver) ==
  handled' = [handled EXCEPT ![h][Key(w)] = Newer(@, ver)]

\* The worker is at a handler the item is meant for.
Calling(w) == wpc[w] = "call" /\ todo[w] # <<>> /\ Meant(item[w], Head(todo[w]))

CallSucceeds(w) ==
  /\ Calling(w)
  /\ Handles(w, Head(todo[w]), copy[w])
  /\ todo' = [todo EXCEPT ![w] = Tail(@)]
  /\ UNCHANGED <<env, list, queue, wpc, item, copy, err, failures>>

\* The handler changes the object, which it can if its copy is the newest; the
\* handlers after it get what it returned.
CallWrites(w) ==
  /\ Calling(w)
  /\ Key(w) \in live /\ copy[w] = api[Key(w)] /\ copy[w] < MaxVersion
  /\ api' = [api EXCEPT ![Key(w)] = @ + 1]
  /\ copy' = [copy EXCEPT ![w] = @ + 1]
  /\ Handles(w, Head(todo[w]), copy[w] + 1)
  /\ todo' = [todo EXCEPT ![w] = Tail(@)]
  /\ UNCHANGED <<live, store, present, notify, list, queue, wpc, item, err, failures>>

\* Mutant: several errors are an error of its own kind.
AddErrorMulti(e, kind) == IF e = "none" THEN kind ELSE "multi"

\* types.NewErrors: a single ForgetError is dropped by the caller, several
\* errors of whatever kind are retried.
AddError(e, kind) == IF e = "none" THEN kind ELSE "retry"

\* A handler returns an error.
CallFails(w) ==
  /\ Calling(w)
  /\ failures < MaxFailures
  /\ failures' = failures + 1
  /\ err' = [err EXCEPT ![w] = AddError(@, "retry")]
  /\ todo' = [todo EXCEPT ![w] = Tail(@)]
  /\ UNCHANGED <<env, list, queue, wpc, item, copy, handled>>

\* A handler returns a ForgetError: it has done what it could.
CallForgets(w) ==
  /\ Calling(w)
  /\ failures < MaxFailures
  /\ failures' = failures + 1
  /\ err' = [err EXCEPT ![w] = AddError(@, "forget")]
  /\ Handles(w, Head(todo[w]), copy[w])
  /\ todo' = [todo EXCEPT ![w] = Tail(@)]
  /\ UNCHANGED <<env, list, queue, wpc, item, copy>>

\* A panic, recovered in syncHandler: the other handlers are not called.
CallPanics(w) ==
  /\ Calling(w)
  /\ failures < MaxFailures
  /\ failures' = failures + 1
  /\ err' = [err EXCEPT ![w] = "retry"]
  /\ todo' = [todo EXCEPT ![w] = <<>>]
  /\ UNCHANGED <<env, list, queue, wpc, item, copy, handled>>

\* Mutant: the item is never reported as done.
FinishNotDone(w) ==
  /\ wpc[w] = "call" /\ todo[w] = <<>>
  /\ delayed' = IF err[w] = "retry" THEN delayed \cup {Key(w)} ELSE delayed
  /\ item' = [item EXCEPT ![w] = None]
  /\ err' = [err EXCEPT ![w] = "none"]
  /\ copy' = [copy EXCEPT ![w] = 0]
  /\ Goto(w, "get")
  /\ UNCHANGED <<env, list, dirty, processing, todo, handled, failures>>

\* AddRateLimited of the plain key after an error, and Done.
Finish(w) ==
  /\ wpc[w] = "call" /\ todo[w] = <<>>
  /\ delayed' = IF err[w] = "retry" THEN delayed \cup {Key(w)} ELSE delayed
  /\ processing' = processing \ {item[w]}
  /\ item' = [item EXCEPT ![w] = None]
  /\ err' = [err EXCEPT ![w] = "none"]
  /\ copy' = [copy EXCEPT ![w] = 0]
  /\ Goto(w, "get")
  /\ UNCHANGED <<env, list, dirty, todo, handled, failures>>

-----------------------------------------------------------------------------
Work(w) ==
  \/ RangeHandlers(w) \/ Skip(w)
  \/ CallSucceeds(w) \/ CallWrites(w)
  \/ CallFails(w) \/ CallForgets(w) \/ CallPanics(w) \/ Finish(w)

Next ==
  \/ Start
  \/ \E h \in Handlers : AddHandler(h) \/ Deregister(h)
  \/ \E k \in Keys : Write(k) \/ Informer(k) \/ QueueObject(k) \/ Delayed(k)
  \/ \E w \in Workers : Get(w) \/ Work(w)

Spec == Init /\ [][Next]_vars

\* Whoever adds handlers calls Start afterwards; the informer delivers; the
\* queue is first in first out, so an item in it is taken in the end; workers
\* run on.
Fairness ==
  /\ WF_vars(Start)
  /\ \A k \in Keys : WF_vars(Informer(k)) /\ WF_vars(QueueObject(k)) /\ WF_vars(Delayed(k))
  /\ \A w \in Workers : WF_vars(Work(w))
  /\ \A i \in (0..Cardinality(Handlers) \cup {All}) \X Keys :
       SF_vars(\E w \in Workers : Get(w) /\ item'[w] = i)

FairSpec == Spec /\ Fairness
-----------------------------------------------------------------------------
(* Properties *)

\* Type correctness of the controller's state.
TypeOK ==
  /\ api \in [Keys -> Nat] /\ live \subseteq Keys
  /\ store \in [Keys -> Nat] /\ present \subseteq Keys
  /\ notify \subseteq Keys /\ delayed \subseteq Keys
  /\ handlers \in Seq(Handlers)
  /\ gen \in [Handlers -> Nat \cup {All}]
  /\ cancelled \subseteq Handlers
  /\ generation \in Nat /\ running \in BOOLEAN
  /\ dirty \subseteq Items /\ processing \subseteq Items
  /\ wpc \in [Workers -> {"get", "range", "call"}]
  /\ item \in [Workers -> Items \cup {None}]
  /\ copy \in [Workers -> Nat]
  /\ todo \in [Workers -> Seq(Handlers)]
  /\ err \in [Workers -> {"none", "forget", "retry"}]
  /\ handled \in [Handlers -> [Keys -> Nat]]
  /\ failures \in Nat

\* The handlers in the list whose context is not done.
Served == Listed \ cancelled

\* h does not know the state of k that is in the store.
Behind(h, k) == h \in Served /\ handled[h][k] < store[k]

\* Worker w is going to call h with what is in the store, or to retry k.
InHand(w, h, k) ==
  /\ wpc[w] # "get" /\ Key(w) = k
  /\ \/ wpc[w] = "range" /\ Meant(item[w], h) /\ copy[w] >= store[k]
     \/ /\ wpc[w] = "call" /\ Meant(item[w], h) /\ copy[w] >= store[k]
        /\ \E i \in DOMAIN todo[w] : todo[w][i] = h
     \/ wpc[w] = "call" /\ err[w] = "retry"

\* No handler is forgotten: while one has not handled what the store holds, an
\* event is on its way, or the key (for all, or for the handler's generation) is
\* in the queue or with a worker that will call it or retry, or the Start that
\* follows its registration has still to come.
NoLostWork ==
  \A h \in Handlers, k \in Keys : Behind(h, k) =>
    \/ k \in notify \cup delayed
    \/ Plain(k) \in dirty \/ <<gen[h], k>> \in dirty
    \/ gen[h] = generation
    \/ \E w \in Workers : InHand(w, h, k)

Owed == {p \in Handlers \X Keys : Behind(p[1], p[2])}

Abstract == INSTANCE Delivery WITH registered <- Served, owed <- Owed

\* The controller keeps the promise of Delivery: what a handler is behind with
\* is handled in the end, although handlers fail, panic and change objects, come
\* while the controller runs, and are taken out again.
DeliversAll == Abstract!Spec
=============================================================================

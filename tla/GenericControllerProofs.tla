---------------------- MODULE GenericControllerProofs ----------------------
(***************************************************************************)
(* Theorems about GenericController, for any number of objects, handlers,  *)
(* workers, changes and failures.                                          *)
(***************************************************************************)
EXTENDS GenericController, FiniteSetTheorems, TLAPS

\* What the other invariants need to know of each worker, the list, the store.
Basics ==
  /\ \A w \in Workers : wpc[w] # "get" => item[w] \in Items
  /\ \A k \in Keys : store[k] <= api[k] /\ (~running => k \notin present)
  /\ \A h \in Listed \cup cancelled : gen[h] # All

\* NoLostWork is not inductive: Start queues only the objects that exist, so a
\* handler may wait for its Start only with these, and only if the controller
\* runs already.
IsCovered(h, k) ==
  \/ k \in notify \cup delayed
  \/ Plain(k) \in dirty \/ <<gen[h], k>> \in dirty
  \/ gen[h] = generation /\ running /\ k \in present
  \/ \E w \in Workers : InHand(w, h, k)

Covered == \A h \in Handlers, k \in Keys : Behind(h, k) => IsCovered(h, k)

IInv == TypeOK /\ Basics /\ Covered

-----------------------------------------------------------------------------
(* Numbers, sequences of handlers, and the record of an object. *)

LEMMA NoLess == (\A n \in Nat : n >= n /\ n + 1 >= n /\ n + 1 \in Nat) /\ DOMAIN <<>> = {}
  OBVIOUS

\* What remains of a list of handlers is a list of handlers.
LEMMA TailOfHandlers ==
  ASSUME NEW s \in Seq(Handlers), s # <<>>
  PROVE  /\ Head(s) \in Handlers /\ Tail(s) \in Seq(Handlers)
         /\ \A i \in DOMAIN s : s[i] = Head(s) \/ \E j \in DOMAIN Tail(s) : Tail(s)[j] = s[i]
<1>1. Head(s) \in Handlers /\ Tail(s) \in Seq(Handlers)
  OBVIOUS
<1>2. ASSUME NEW i \in DOMAIN s, i # 1
      PROVE  \E j \in DOMAIN Tail(s) : Tail(s)[j] = s[i]
  <2>1. i - 1 \in DOMAIN Tail(s) /\ Tail(s)[i - 1] = s[i]
    BY <1>2
  <2> QED BY <2>1
<1> QED BY <1>1, <1>2

\* The other handlers in a list can be counted.
LEMMA OthersAreFinite ==
  ASSUME NEW s \in Seq(Handlers), NEW h \in Handlers
  PROVE  Cardinality({i \in DOMAIN s : s[i] # h}) \in Nat
<1>1. IsFiniteSet(1..Len(s)) /\ DOMAIN s = 1..Len(s)
  BY FS_Interval
<1>2. IsFiniteSet({i \in DOMAIN s : s[i] # h})
  BY <1>1, FS_Subset
<1> QED BY <1>2, FS_CardinalityType

\* What a call that counts does to the versions the handlers know.
LEMMA HandlesStep ==
  ASSUME handled \in [Handlers -> [Keys -> Nat]],
         NEW w \in Workers, NEW h \in Handlers, NEW v \in Nat,
         Key(w) \in Keys, Handles(w, h, v)
  PROVE  /\ handled' \in [Handlers -> [Keys -> Nat]]
         /\ \A g \in Handlers, k \in Keys :
              /\ handled'[g][k] >= handled[g][k]
              /\ g # h \/ k # Key(w) => handled'[g][k] = handled[g][k]
         /\ handled'[h][Key(w)] >= v
<1> DEFINE c == Key(w)
           n == Newer(handled[h][c], v)
<1>1. n \in Nat /\ n >= v /\ n >= handled[h][c]
  BY DEF Newer
<1>2. handled' = [handled EXCEPT ![h] = [@ EXCEPT ![c] = n]]
  BY DEF Handles
<1> HIDE DEF n, c
<1> QED BY <1>1, <1>2 DEF c

-----------------------------------------------------------------------------
\* The invariant holds at the start.
LEMMA InitInv == Init => IInv
<1> SUFFICES ASSUME Init PROVE IInv
  OBVIOUS
<1> USE DEF Init, All
<1>1. TypeOK
  <2>1. /\ api \in [Keys -> Nat] /\ todo \in [Workers -> Seq(Handlers)]
        /\ handlers \in Seq(Handlers)
    OBVIOUS
  <2> QED BY <2>1, Zenon DEF TypeOK
<1>2. Listed = {}
  BY DEF Listed
<1>3. Basics /\ Covered
  <2>1. \A k \in Keys : store[k] <= api[k]
    OBVIOUS
  <2> QED BY <1>2, <2>1 DEF Basics, Covered, Behind, Served
<1> QED BY <1>1, <1>3 DEF IInv

\* Type correctness of the controller's state: every step keeps the queue's items,
\* the workers' locals and the list of handlers well formed.
LEMMA TypeStep == ASSUME TypeOK, Basics, [Next]_vars PROVE TypeOK'
<1> USE BoundsAreNumbers DEF TypeOK
<1>1. CASE UNCHANGED vars
  BY <1>1 DEF vars, env, list, queue, workers
<1>2. CASE Start
  BY <1>2 DEF Start, Add, Items, env, workers
<1>3. ASSUME NEW h \in Handlers, AddHandler(h) PROVE TypeOK'
  BY <1>3 DEF AddHandler, env, queue, workers
<1>4. ASSUME NEW h \in Handlers, Deregister(h) PROVE TypeOK'
  <2>1. handlers' \in Seq(Handlers)
    <3> DEFINE n == Cardinality({i \in DOMAIN handlers : handlers[i] # h})
    <3>1. n \in Nat
      BY OthersAreFinite
    <3>2. handlers' = [i \in 1..n |-> h]
      BY <1>4 DEF Deregister
    <3> HIDE DEF n
    <3> QED BY <3>1, <3>2
  <2> QED BY <1>4, <2>1 DEF Deregister, env, queue, workers
<1>5. ASSUME NEW k \in Keys, Write(k) PROVE TypeOK'
  BY <1>5, SMTT(30) DEF Write, list, queue, workers
<1>6. ASSUME NEW k \in Keys, Informer(k) \/ QueueObject(k) \/ Delayed(k) PROVE TypeOK'
  <2>1. Plain(k) \in Items
    BY DEF Plain, Items
  <2> QED BY <1>6, <2>1 DEF Informer, QueueObject, Delayed, Add, env, list, queue, workers
<1>7. ASSUME NEW w \in Workers, Get(w) PROVE TypeOK'
  BY <1>7 DEF Get, Goto, Items, env, list
<1>8. ASSUME NEW w \in Workers, RangeHandlers(w) \/ Skip(w) \/ Finish(w) PROVE TypeOK'
  <2>1. Key(w) \in Keys
    BY <1>8 DEF RangeHandlers, Skip, Finish, Key, Basics, Items
  <2>2. CASE Skip(w)
    <3>1. Tail(todo[w]) \in Seq(Handlers)
      BY <2>2, TailOfHandlers DEF Skip
    <3> QED BY <2>2, <3>1 DEF Skip, env, list, queue
  <2>3. CASE RangeHandlers(w)
    BY <2>3 DEF RangeHandlers, Goto, env, list, queue
  <2>4. CASE Finish(w)
    BY <2>1, <2>4 DEF Finish, Goto, env, list, queue
  <2> QED BY <1>8, <2>2, <2>3, <2>4, Zenon
<1>9. ASSUME NEW w \in Workers, Calling(w),
             CallSucceeds(w) \/ CallWrites(w) \/ CallFails(w) \/ CallForgets(w)
      PROVE  TypeOK'
  <2>1. Key(w) \in Keys /\ Head(todo[w]) \in Handlers /\ Tail(todo[w]) \in Seq(Handlers)
    BY <1>9, TailOfHandlers, Zenon DEF Calling, Key, Basics, Items
  <2>2. ASSUME NEW v \in Nat, Handles(w, Head(todo[w]), v)
        PROVE  handled' \in [Handlers -> [Keys -> Nat]]
    BY <2>1, <2>2, HandlesStep
  <2>3. CASE CallSucceeds(w)
    BY <2>1, <2>2, <2>3, Zenon DEF CallSucceeds, env, list, queue
  <2>4. CASE CallWrites(w)
    <3>1. copy[w] + 1 \in Nat
      OBVIOUS
    <3>2. handled' \in [Handlers -> [Keys -> Nat]]
      BY <2>2, <2>4, <3>1 DEF CallWrites
    <3>3. api' \in [Keys -> Nat] /\ copy' \in [Workers -> Nat] /\ todo' \in [Workers -> Seq(Handlers)]
      BY <2>1, <2>4, SMTT(30) DEF CallWrites
    <3>4. UNCHANGED <<live, store, present, notify, list, queue, wpc, item, err, failures>>
      BY <2>4 DEF CallWrites
    <3> QED BY <3>2, <3>3, <3>4, Zenon DEF list, queue
  <2>5. CASE CallFails(w)
    BY <2>1, <2>5 DEF CallFails, AddError, env, list, queue
  <2>6. CASE CallForgets(w)
    <3>1. UNCHANGED <<env, list, queue, wpc, item, copy>> /\ failures' = failures + 1
      BY <2>6, Zenon DEF CallForgets
    <3>5. failures + 1 \in Nat
      OBVIOUS
    <3>2. handled' \in [Handlers -> [Keys -> Nat]]
      BY <2>2, <2>6, Zenon DEF CallForgets
    <3>3. todo' \in [Workers -> Seq(Handlers)]
      BY <2>1, <2>6, Zenon DEF CallForgets
    <3>4. err' \in [Workers -> {"none", "forget", "retry"}]
      BY <2>6, SMT DEF CallForgets, AddError
    <3> QED BY <3>1, <3>2, <3>3, <3>4, <3>5, Zenon DEF env, list, queue
  <2> QED BY <1>9, <2>3, <2>4, <2>5, <2>6, Zenon
<1>10. ASSUME NEW w \in Workers, CallPanics(w) PROVE TypeOK'
  <2>1. todo' \in [Workers -> Seq(Handlers)]
    BY <1>10 DEF CallPanics
  <2> QED BY <1>10, <2>1 DEF CallPanics, env, list, queue
<1> QED BY <1>1, <1>2, <1>3, <1>4, <1>5, <1>6, <1>7, <1>8, <1>9, <1>10, Zenon
  DEF Next, Work, CallSucceeds, CallWrites, CallFails, CallForgets

-----------------------------------------------------------------------------
\* Which parts of the state a step of the list leaves alone, and what it does to
\* the handlers that are served.
LEMMA ListSteps ==
  ASSUME TypeOK, Basics, NEW h \in Handlers
  PROVE  /\ AddHandler(h) => Listed' = Listed \cup {h} /\ h \notin Listed \cup cancelled
         /\ Deregister(h) => Listed' \subseteq {h} /\ Served' = {}
<1>1. ASSUME AddHandler(h) PROVE Listed' = Listed \cup {h}
  <2>1. handlers' = Append(handlers, h) /\ handlers \in Seq(Handlers)
    BY <1>1 DEF AddHandler, TypeOK
  <2>2. /\ DOMAIN handlers' = DOMAIN handlers \cup {Len(handlers) + 1}
        /\ \A i \in DOMAIN handlers : handlers'[i] = handlers[i]
        /\ handlers'[Len(handlers) + 1] = h
    BY <2>1
  <2> HIDE <2>1
  <2> QED BY <2>2 DEF Listed
<1>2. ASSUME AddHandler(h) PROVE h \notin Listed \cup cancelled
  BY <1>2, Zenon DEF AddHandler, Basics
<1>3. ASSUME Deregister(h) PROVE Listed' \subseteq {h}
  <2> DEFINE n == Cardinality({i \in DOMAIN handlers : handlers[i] # h})
  <2>1. handlers' = [i \in 1..n |-> h]
    BY <1>3, Zenon DEF Deregister
  <2> HIDE DEF n
  <2> QED BY <2>1 DEF Listed
<1>4. ASSUME Deregister(h) PROVE Served' = {}
  BY <1>3, <1>4 DEF Served, Deregister
<1> QED BY <1>1, <1>2, <1>3, <1>4

\* Every step keeps the basic facts about items, copies and generations.
LEMMA BasicsStep == ASSUME TypeOK, Basics, [Next]_vars PROVE Basics'
<1> USE DEF Basics
<1>1. CASE UNCHANGED vars
  BY <1>1, Zenon DEF vars, env, list, queue, workers, Listed
<1>2. CASE Start
  BY <1>2 DEF Start, env, workers, Listed
<1>3. ASSUME NEW h \in Handlers, AddHandler(h) PROVE Basics'
  <2>1. \A g \in Listed' \cup cancelled' : gen'[g] # All
    <3>1. Listed' = Listed \cup {h} /\ Listed \subseteq Handlers
      <4>1. Listed \subseteq Handlers
        BY DEF Listed, TypeOK
      <4> QED BY <1>3, <4>1, ListSteps
    <3>2. /\ cancelled' = cancelled /\ gen' = [gen EXCEPT ![h] = generation]
          /\ generation # All
      BY <1>3 DEF AddHandler, TypeOK, All
    <3> QED BY <3>1, <3>2 DEF TypeOK
  <2> QED BY <1>3, <2>1 DEF AddHandler, env, workers
<1>4. ASSUME NEW h \in Handlers, Deregister(h) PROVE Basics'
  <2>1. \A g \in Listed' \cup cancelled' : gen'[g] # All
    <3>1. Listed' \subseteq {h}
      BY <1>4, ListSteps, Zenon
    <3>2. cancelled' = cancelled \cup {h} /\ gen' = gen /\ gen[h] # All
      BY <1>4 DEF Deregister
    <3> QED BY <3>1, <3>2
  <2> QED BY <1>4, <2>1, Zenon DEF Deregister, env, workers
<1>5. ASSUME NEW k \in Keys, Write(k) \/ Informer(k) \/ QueueObject(k) \/ Delayed(k) PROVE Basics'
  <2>1. CASE Write(k)
    BY <2>1 DEF Write, TypeOK, list, workers, Listed
  <2>2. CASE Informer(k)
    BY <2>2 DEF Informer, TypeOK, list, workers, Listed
  <2>3. CASE QueueObject(k) \/ Delayed(k)
    BY <2>3 DEF QueueObject, Delayed, env, list, workers, Listed
  <2> QED BY <1>5, <2>1, <2>2, <2>3
<1>6. ASSUME NEW w \in Workers, Get(w) PROVE Basics'
  <2>1. \A v \in Workers : wpc'[v] # "get" => item'[v] \in Items
    BY <1>6 DEF Get, Goto, TypeOK
  <2> QED BY <1>6, <2>1 DEF Get, env, list, Listed
<1>7. ASSUME NEW w \in Workers, RangeHandlers(w) \/ Skip(w) \/ Finish(w) PROVE Basics'
  <2>1. \A v \in Workers : wpc'[v] # "get" => item'[v] \in Items
    BY <1>7, Zenon DEF RangeHandlers, Skip, Finish, Goto, TypeOK
  <2> QED BY <1>7, <2>1 DEF RangeHandlers, Skip, Finish, env, list, Listed
<1>8. ASSUME NEW w \in Workers,
             CallSucceeds(w) \/ CallFails(w) \/ CallForgets(w) \/ CallPanics(w)
      PROVE  Basics'
  BY <1>8 DEF CallSucceeds, CallFails, CallForgets, CallPanics, env, list, Listed
<1>9. ASSUME NEW w \in Workers, CallWrites(w) PROVE Basics'
  <2>1. UNCHANGED <<wpc, item, store, present, running, handlers, cancelled, gen>>
    BY <1>9, Zenon DEF CallWrites, list
  <2>2. \A k \in Keys : api[k] \in Nat /\ store[k] \in Nat /\ api'[k] \in {api[k], api[k] + 1}
    BY <1>9, Zenon DEF CallWrites, TypeOK
  <2>3. ASSUME NEW k \in Keys PROVE store'[k] <= api'[k]
    <3>1. api[k] \in Nat /\ store[k] \in Nat /\ store[k] <= api[k]
      BY <2>2, Zenon DEF Basics
    <3>2. store[k] <= api[k] + 1
      BY <3>1, SMT
    <3> QED BY <2>1, <2>2, <3>1, <3>2, Zenon
  <2> QED BY <2>1, <2>3, Zenon DEF Basics, Listed
<1> QED BY <1>1, <1>2, <1>3, <1>4, <1>5, <1>6, <1>7, <1>8, <1>9, Zenon DEF Next, Work

-----------------------------------------------------------------------------
\* A worker that a step does not touch keeps what it has in hand.
LEMMA SameInHand ==
  ASSUME NEW v \in Workers, NEW h, NEW k, InHand(v, h, k),
         wpc'[v] = wpc[v], item'[v] = item[v], copy'[v] = copy[v],
         todo'[v] = todo[v], err'[v] = err[v], gen'[h] = gen[h], store'[k] = store[k]
  PROVE  InHand(v, h, k)'
  BY DEF InHand, Meant, Key

\* A step of a worker in the loop: the others keep what they have in hand, so
\* what this worker had in hand is all there is to show.
LEMMA WorkKeepsCovered ==
  ASSUME TypeOK, Basics, NEW w \in Workers, Work(w), ~Finish(w),
         NEW h \in Handlers, NEW k \in Keys, IsCovered(h, k),
         InHand(w, h, k) => InHand(w, h, k)'
  PROVE  IsCovered(h, k)'
<1>1. /\ UNCHANGED <<store, present, notify, list, queue>>
      /\ \A v \in Workers \ {w} : /\ wpc'[v] = wpc[v] /\ item'[v] = item[v]
                                  /\ copy'[v] = copy[v] /\ todo'[v] = todo[v] /\ err'[v] = err[v]
  BY Zenon DEF Work, RangeHandlers, Skip, CallSucceeds, CallWrites, CallFails, CallForgets,
         CallPanics, Goto, env, TypeOK
<1>2. ASSUME NEW v \in Workers, InHand(v, h, k) PROVE InHand(v, h, k)'
  BY <1>1, <1>2, SameInHand, Zenon DEF list
<1> QED BY <1>1, <1>2, Zenon DEF IsCovered, list, queue, Plain

\* Every step keeps what handlers are behind with covered.
LEMMA CoveredStep == ASSUME IInv, TypeOK', [Next]_vars PROVE Covered'
<1> USE DEF IInv
<1> SUFFICES ASSUME NEW h \in Handlers, NEW k \in Keys, Behind(h, k)'
             PROVE  IsCovered(h, k)'
  BY DEF Covered
<1>1. ASSUME Served' \subseteq Served, handled'[h][k] >= handled[h][k], store'[k] = store[k]
      PROVE  Behind(h, k) /\ IsCovered(h, k)
  <2>1. h \in Served /\ handled[h][k] < store[k]
    BY <1>1 DEF Behind, TypeOK
  <2> QED BY <2>1, Zenon DEF Behind, Covered
<1>u. ASSUME UNCHANGED <<handlers, cancelled, handled, store>>
      PROVE  h \in Listed /\ IsCovered(h, k)
  <2>1. Served' = Served /\ h \in Listed
    BY <1>u DEF Served, Listed, Behind
  <2>2. handled[h][k] \in Nat
    BY DEF TypeOK
  <2> QED BY <1>u, <1>1, <2>1, <2>2
<1>2. CASE UNCHANGED vars
  <2>1. IsCovered(h, k)
    BY <1>2, <1>u DEF vars, env, list
  <2> QED BY <1>2, <2>1, SameInHand, Zenon
          DEF IsCovered, vars, env, list, queue, workers, Plain
<1>3. CASE Start
  <2>1. IsCovered(h, k)
    BY <1>3, <1>u, Zenon DEF Start, env
  <2>2. \A w \in Workers : InHand(w, h, k) => InHand(w, h, k)'
    BY <1>3, SameInHand, Zenon DEF Start, env, workers
  <2>3. ASSUME gen[h] = generation, running, k \in present PROVE <<gen[h], k>> \in dirty'
    BY <1>3, <2>3, Zenon DEF Start, Add
  <2> QED BY <1>3, <2>1, <2>2, <2>3, Zenon DEF IsCovered, Start, Add, env, Plain
<1>4. ASSUME NEW g \in Handlers, AddHandler(g) PROVE IsCovered(h, k)'
  <2>1. CASE g = h
    <3>1. /\ gen'[h] = generation /\ generation' = generation /\ running' = running
          /\ present' = present /\ store' = store
          /\ handled'[h][k] = IF k \in present THEN 0 ELSE store[k]
      BY <1>4, <2>1, Zenon DEF AddHandler, TypeOK, env
    <3>2. handled'[h][k] < store[k] /\ store[k] \in Nat
      BY <3>1, Zenon DEF Behind, TypeOK
    <3>3. ~(store[k] < store[k])
      BY <3>2, SMT
    <3>4. k \in present /\ running
      BY <3>1, <3>2, <3>3, Zenon DEF Basics
    <3> QED BY <3>1, <3>4, Zenon DEF IsCovered
  <2>2. CASE g # h
    <3>1. h \in Served /\ handled'[h][k] = handled[h][k] /\ gen'[h] = gen[h]
      <4>1. h \in Served
        <5>1. Listed' = Listed \cup {g} /\ cancelled' = cancelled
          BY <1>4, ListSteps, Zenon DEF AddHandler
        <5> QED BY <2>2, <5>1, Zenon DEF Behind, Served
      <4> QED BY <1>4, <2>2, <4>1, Zenon DEF AddHandler, TypeOK
    <3>2. IsCovered(h, k)
      BY <1>4, <3>1, Zenon DEF AddHandler, Behind, Covered, env
    <3>3. \A w \in Workers : InHand(w, h, k) => InHand(w, h, k)'
      BY <1>4, <3>1, SameInHand, Zenon DEF AddHandler, env, workers
    <3>4. UNCHANGED <<notify, delayed, dirty, generation, running, present>>
      BY <1>4 DEF AddHandler, env, queue
    <3> QED BY <3>1, <3>2, <3>3, <3>4, Zenon DEF IsCovered, Plain
  <2> QED BY <2>1, <2>2
<1>5. ASSUME NEW g \in Handlers, Deregister(g) PROVE IsCovered(h, k)'
  BY <1>5, ListSteps DEF Behind
<1>6. ASSUME NEW c \in Keys, Informer(c) PROVE IsCovered(h, k)'
  <2>1. CASE c = k
    BY <1>6, <2>1 DEF Informer, IsCovered
  <2>2. CASE c # k
    <3>1. store'[k] = store[k] /\ (k \in present' <=> k \in present)
      BY <1>6, <2>2, Zenon DEF Informer, TypeOK
    <3>2. IsCovered(h, k)
      <4>1. Served' = Served /\ handled' = handled
        BY <1>6, Zenon DEF Informer, list, Served, Listed
      <4>2. handled[h][k] \in Nat
        BY Zenon DEF TypeOK
      <4>3. handled[h][k] >= handled[h][k]
        BY <4>2, NoLess, Zenon
      <4> QED BY <1>1, <3>1, <4>1, <4>3, Zenon
    <3>3. \A w \in Workers : InHand(w, h, k) => InHand(w, h, k)'
      BY <1>6, <3>1, SameInHand, Zenon DEF Informer, list, workers
    <3> QED BY <1>6, <3>1, <3>2, <3>3 DEF IsCovered, Informer, list, queue, Plain
  <2> QED BY <2>1, <2>2
<1>7. ASSUME NEW c \in Keys, Write(c) \/ QueueObject(c) \/ Delayed(c) PROVE IsCovered(h, k)'
  <2>1. IsCovered(h, k)
    <3>1. UNCHANGED <<handlers, cancelled, handled, store>>
      BY <1>7, Zenon DEF Write, QueueObject, Delayed, env, list
    <3> QED BY <1>u, <3>1
  <2>2. \A w \in Workers : InHand(w, h, k) => InHand(w, h, k)'
    BY <1>7, SameInHand, Zenon DEF Write, QueueObject, Delayed, env, list, workers
  <2> QED BY <1>7, <2>1, <2>2
          DEF IsCovered, Write, QueueObject, Delayed, Add, env, list, queue, Plain
<1>8. ASSUME NEW w \in Workers, Get(w) PROVE IsCovered(h, k)'
  <2>1. IsCovered(h, k)
    BY <1>8, <1>u, Zenon DEF Get, env, list
  <2>2. PICK i \in dirty \ processing : item'[w] = i /\ dirty' = dirty \ {i} /\ copy'[w] = store[i[2]]
    BY <1>8 DEF Get, TypeOK
  <2>3. ASSUME NEW v \in Workers, InHand(v, h, k) PROVE InHand(v, h, k)'
    <3>1. v # w
      BY <1>8, <2>3, Zenon DEF Get, InHand
    <3> QED BY <1>8, <2>3, <3>1, SameInHand DEF Get, Goto, env, list, TypeOK
  <2>4. ASSUME i \in {Plain(k), <<gen[h], k>>} PROVE InHand(w, h, k)'
    <3>1. wpc'[w] = "range" /\ store'[k] = store[k] /\ gen' = gen
      BY <1>8, Zenon DEF Get, Goto, env, list, TypeOK
    <3>0. store[k] \in Nat
      BY Zenon DEF TypeOK
    <3>2. i[2] = k /\ (i[1] = All \/ i[1] = gen[h]) /\ store[k] \in Nat
      BY <2>4, <3>0, SMT DEF Plain
    <3>3. item'[w] = i /\ copy'[w] = store'[k] /\ store'[k] \in Nat
      BY <2>2, <3>1, <3>2, Zenon
    <3>4. Meant(item[w], h)' /\ Key(w)' = k /\ copy'[w] >= store'[k]
      BY <3>1, <3>2, <3>3 DEF Meant, Key
    <3> QED BY <3>1, <3>4, Zenon DEF InHand
  <2> QED BY <1>8, <2>1, <2>2, <2>3, <2>4, Zenon DEF IsCovered, Get, env, list, Plain
<1>9. ASSUME NEW w \in Workers, RangeHandlers(w) \/ Skip(w) PROVE IsCovered(h, k)'
  <2>1. IsCovered(h, k) /\ h \in Listed
    BY <1>9, <1>u, Zenon DEF RangeHandlers, Skip, env, list
  <2>2. Work(w) /\ ~Finish(w)
    BY <1>9, Zenon DEF Work, RangeHandlers, Skip, Finish
  <2>3. ASSUME RangeHandlers(w), InHand(w, h, k) PROVE InHand(w, h, k)'
    <3>1. \E j \in DOMAIN todo'[w] : todo'[w][j] = h
      BY <2>1, <2>3, Zenon DEF RangeHandlers, Listed, TypeOK
    <3>2. wpc'[w] = "call" /\ wpc[w] = "range"
      BY <2>3, Zenon DEF RangeHandlers, Goto, TypeOK
    <3> QED BY <2>3, <3>1, <3>2, Zenon DEF InHand, Meant, Key, RangeHandlers, env, list
  <2>4. ASSUME Skip(w), InHand(w, h, k) PROVE InHand(w, h, k)'
    <3>1. CASE err[w] = "retry"
      BY <2>4, <3>1, Zenon DEF InHand, Skip, Key
    <3>2. CASE err[w] # "retry"
      <4>1. /\ Meant(item[w], h) /\ copy[w] >= store[k] /\ Key(w) = k
            /\ \E j \in DOMAIN todo[w] : todo[w][j] = h
        BY <2>4, <3>2, Zenon DEF InHand, Skip
      <4>2. h # Head(todo[w]) /\ todo'[w] = Tail(todo[w])
        BY <2>4, <4>1, Zenon DEF Skip, TypeOK
      <4>3. \E j \in DOMAIN todo'[w] : todo'[w][j] = h
        <5>1. todo[w] \in Seq(Handlers) /\ todo[w] # <<>>
          BY <2>4, Zenon DEF Skip, TypeOK
        <5>2. \E j \in DOMAIN Tail(todo[w]) : Tail(todo[w])[j] = h
          BY <4>1, <4>2, <5>1, TailOfHandlers, ZenonT(30)
        <5> QED BY <4>2, <5>2, Zenon
      <4> QED BY <2>4, <4>1, <4>3, Zenon DEF InHand, Skip, Meant, Key, env, list
    <3> QED BY <3>1, <3>2
  <2> QED BY <1>9, <2>1, <2>2, <2>3, <2>4, WorkKeepsCovered
<1>10. ASSUME NEW w \in Workers, Calling(w),
              CallSucceeds(w) \/ CallWrites(w) \/ CallFails(w) \/ CallForgets(w)
       PROVE  IsCovered(h, k)'
  <2>1. /\ Key(w) \in Keys /\ Head(todo[w]) \in Handlers
        /\ todo[w] \in Seq(Handlers) /\ todo[w] # <<>> /\ wpc[w] = "call"
    BY <1>10, TailOfHandlers, Zenon DEF Calling, Key, Basics, Items, TypeOK
  <2>2. \/ CallFails(w) /\ handled' = handled
        \/ /\ \A g \in Handlers, c \in Keys : handled'[g][c] >= handled[g][c]
           /\ handled'[Head(todo[w])][Key(w)] >= copy[w]
    <3>0. copy[w] \in Nat /\ handled \in [Handlers -> [Keys -> Nat]]
      BY Zenon DEF TypeOK
    <3>1. copy[w] \in Nat /\ copy[w] + 1 \in Nat /\ handled \in [Handlers -> [Keys -> Nat]]
      BY <3>0, NoLess, Zenon
    <3>2. CASE CallFails(w)
      BY <3>2, Zenon DEF CallFails
    <3>3. CASE CallSucceeds(w) \/ CallForgets(w)
      BY <2>1, <3>1, <3>3, HandlesStep, Zenon DEF CallSucceeds, CallForgets
    <3>4. CASE CallWrites(w)
      <4>1. Handles(w, Head(todo[w]), copy[w] + 1)
        BY <3>4, Zenon DEF CallWrites
      <4>2. /\ handled' \in [Handlers -> [Keys -> Nat]]
            /\ \A g \in Handlers, c \in Keys : handled'[g][c] >= handled[g][c]
            /\ handled'[Head(todo[w])][Key(w)] >= copy[w] + 1
        BY <2>1, <3>1, <4>1, HandlesStep, Zenon
      <4>3. handled'[Head(todo[w])][Key(w)] \in Nat
        BY <2>1, <4>2, Zenon
      <4>4. handled'[Head(todo[w])][Key(w)] >= copy[w]
        BY <3>1, <4>2, <4>3
      <4> QED BY <4>2, <4>4, Zenon
    <3> QED BY <1>10, <3>2, <3>3, <3>4, Zenon
  <2>3. /\ store' = store /\ gen' = gen /\ Served' = Served /\ item'[w] = item[w] /\ wpc'[w] = wpc[w]
        /\ todo'[w] = Tail(todo[w]) /\ copy'[w] >= copy[w]
        /\ err[w] = "retry" \/ CallFails(w) => err'[w] = "retry"
    <3>1. UNCHANGED <<store, gen, handlers, cancelled, item, wpc>>
      BY <1>10, Zenon DEF CallSucceeds, CallWrites, CallFails, CallForgets, env, list
    <3>2. todo'[w] = Tail(todo[w]) /\ copy'[w] >= copy[w]
      <4>1. CASE CallWrites(w)
        <5>1. copy \in [Workers -> Nat] /\ todo \in [Workers -> Seq(Handlers)]
          BY Zenon DEF TypeOK
        <5>2. /\ copy' = [copy EXCEPT ![w] = copy[w] + 1]
              /\ todo' = [todo EXCEPT ![w] = Tail(todo[w])]
          BY <4>1, Zenon DEF CallWrites
        <5>3. copy'[w] = copy[w] + 1 /\ todo'[w] = Tail(todo[w]) /\ copy[w] \in Nat
          BY <5>1, <5>2, Zenon
        <5> QED BY <5>3, NoLess, Zenon
      <4>2. CASE CallSucceeds(w) \/ CallFails(w) \/ CallForgets(w)
        <5>1. copy' = copy /\ todo' = [todo EXCEPT ![w] = Tail(@)]
          BY <4>2, Zenon DEF CallSucceeds, CallFails, CallForgets
        <5>2. todo \in [Workers -> Seq(Handlers)] /\ copy[w] \in Nat
          BY Zenon DEF TypeOK
        <5> QED BY <5>1, <5>2, NoLess, Zenon
      <4> QED BY <1>10, <4>1, <4>2, Zenon
    <3>3. err[w] = "retry" \/ CallFails(w) => err'[w] = "retry"
      <4>1. CASE CallFails(w)
        BY <4>1 DEF CallFails, AddError, TypeOK
      <4>2. CASE CallForgets(w) /\ ~CallFails(w)
        BY <4>2 DEF CallForgets, AddError, TypeOK
      <4>3. CASE (CallSucceeds(w) \/ CallWrites(w)) /\ ~CallFails(w)
        BY <4>3, Zenon DEF CallSucceeds, CallWrites
      <4> QED BY <1>10, <4>1, <4>2, <4>3, Zenon
    <3> QED BY <3>1, <3>2, <3>3, Zenon DEF Served, Listed
  <2>4. Behind(h, k) /\ IsCovered(h, k)
    <3>1. handled[h][k] \in Nat /\ Served' = Served /\ store'[k] = store[k]
      BY <2>3, Zenon DEF TypeOK
    <3>2. handled[h][k] >= handled[h][k]
      BY <3>1, NoLess, Zenon
    <3>3. handled'[h][k] >= handled[h][k]
      BY <2>2, <3>2, Zenon
    <3> QED BY <1>1, <3>1, <3>3, Zenon
  <2>5. ASSUME InHand(w, h, k) PROVE InHand(w, h, k)'
    <3>1. CASE err'[w] = "retry"
      BY <2>1, <2>3, <2>5, <3>1, Zenon DEF InHand, Key
    <3>2. CASE err'[w] # "retry"
      <4>1. /\ Meant(item[w], h) /\ copy[w] >= store[k] /\ Key(w) = k
            /\ \E j \in DOMAIN todo[w] : todo[w][j] = h
        BY <2>1, <2>3, <2>5, <3>2, Zenon DEF InHand
      <4>2. h # Head(todo[w])
        <5>1. ~CallFails(w) /\ handled'[Head(todo[w])][Key(w)] >= copy[w]
          BY <2>2, <2>3, <3>2, Zenon
        <5>2. handled'[h][k] < store[k] /\ handled'[h][k] \in Nat /\ store[k] \in Nat /\ copy[w] \in Nat
          BY <2>3, Zenon DEF Behind, TypeOK
        <5> QED BY <4>1, <5>1, <5>2
      <4>3. \E j \in DOMAIN todo'[w] : todo'[w][j] = h
        BY <2>1, <2>3, <4>1, <4>2, TailOfHandlers, ZenonT(30)
      <4>4. copy'[w] >= store'[k] /\ Meant(item[w], h)'
        <5>1. /\ copy[w] \in Nat /\ copy'[w] \in Nat /\ store[k] \in Nat
              /\ copy'[w] >= copy[w] /\ copy[w] >= store[k]
          BY <2>3, <4>1, Zenon DEF TypeOK
        <5>2. copy'[w] >= store[k]
          BY <5>1, SMT
        <5>3. Meant(item[w], h)'
          BY <2>3, <4>1, Zenon DEF Meant
        <5> QED BY <2>3, <5>2, <5>3, Zenon
      <4> QED BY <2>1, <2>3, <4>1, <4>3, <4>4, Zenon DEF InHand, Meant, Key
    <3> QED BY <3>1, <3>2
  <2>6. Work(w) /\ ~Finish(w)
    BY <1>10, <2>1, Zenon DEF Work, Finish
  <2> QED BY <2>4, <2>5, <2>6, WorkKeepsCovered, Zenon
<1>11. ASSUME NEW w \in Workers, CallPanics(w) PROVE IsCovered(h, k)'
  <2>1. IsCovered(h, k)
    BY <1>11, <1>u DEF CallPanics, env, list
  <2>2. ASSUME InHand(w, h, k) PROVE InHand(w, h, k)'
    BY <1>11, <2>2 DEF CallPanics, Calling, InHand, Key, TypeOK
  <2>3. Work(w) /\ ~Finish(w)
    BY <1>11, Zenon DEF Work, Finish, CallPanics, Calling
  <2> QED BY <2>1, <2>2, <2>3, WorkKeepsCovered, Zenon
<1>12. ASSUME NEW w \in Workers, Finish(w) PROVE IsCovered(h, k)'
  <2>1. IsCovered(h, k)
    BY <1>12, <1>u, Zenon DEF Finish, env, list
  <2>2. ASSUME NEW v \in Workers, InHand(v, h, k) PROVE k \in delayed' \/ InHand(v, h, k)'
    <3>1. CASE v = w
      <4>1. err[w] = "retry" /\ Key(w) = k
        <5>1. wpc[w] = "call" /\ todo[w] = <<>>
          BY <1>12, Zenon DEF Finish
        <5>2. DOMAIN todo[w] = {}
          BY <5>1, NoLess, Zenon
        <5> QED BY <2>2, <3>1, <5>1, <5>2, Zenon DEF InHand
      <4> QED BY <1>12, <4>1, Zenon DEF Finish
    <3>2. CASE v # w
      <4>1. /\ wpc'[v] = wpc[v] /\ item'[v] = item[v] /\ copy'[v] = copy[v]
            /\ todo'[v] = todo[v] /\ err'[v] = err[v]
        BY <1>12, <3>2, Zenon DEF Finish, Goto, TypeOK
      <4>2. gen' = gen /\ store' = store
        BY <1>12, Zenon DEF Finish, env, list
      <4> QED BY <2>2, <4>1, <4>2, SameInHand, Zenon
    <3> QED BY <3>1, <3>2
  <2>3. UNCHANGED <<notify, dirty, gen, generation, running, present>> /\ delayed \subseteq delayed'
    BY <1>12, Zenon DEF Finish, env, list
  <2> QED BY <2>1, <2>2, <2>3, Zenon DEF IsCovered, Plain
<1> QED
  BY <1>2, <1>3, <1>4, <1>5, <1>6, <1>7, <1>8, <1>9, <1>10, <1>11, <1>12, Zenon
  DEF Next, Work, CallSucceeds, CallWrites, CallFails, CallForgets

\* The invariant always holds.
LEMMA Invariance == Spec => []IInv
<1>1. IInv /\ [Next]_vars => IInv'
  BY TypeStep, BasicsStep, CoveredStep DEF IInv
<1> QED BY InitInv, <1>1, PTL DEF Spec

\* Type correctness: the queue's items, the workers' locals and the list of
\* handlers are well formed in every state of the generic controller.
THEOREM TypeCorrect == Spec => []TypeOK
<1>1. IInv => TypeOK
  BY DEF IInv
<1> QED BY Invariance, <1>1, PTL

\* The work queue and the generations of the generic controller lose nothing:
\* as long as a handler has not handled what the store holds, something that
\* leads to its call is pending, for any number of objects, handlers, workers
\* and failures.
THEOREM NothingLost == Spec => []NoLostWork
<1>1. IInv => NoLostWork
  BY DEF IInv, Covered, IsCovered, NoLostWork
<1> QED BY Invariance, <1>1, PTL

-----------------------------------------------------------------------------
(* The controller implements Delivery.                                     *)

\* Steps that leave the list, the store and the handlers' knowledge alone.
LEMMA Stutters ==
  ASSUME UNCHANGED <<handlers, cancelled, store, handled>>
  PROVE  UNCHANGED Abstract!vars
  BY Zenon DEF Abstract!vars, Served, Listed, Owed, Behind

\* A call that counts serves at most what the handler was owed of this object.
LEMMA CallServes ==
  ASSUME TypeOK, NEW w \in Workers, NEW h \in Handlers, NEW v \in Nat,
         Key(w) \in Keys, Handles(w, h, v), UNCHANGED <<handlers, cancelled, store>>
  PROVE  [Abstract!Next]_(Abstract!vars)
<1>0. PICK k \in Keys : k = Key(w)
  OBVIOUS
<1>1. /\ \A g \in Handlers, c \in Keys : g # h \/ c # k => handled'[g][c] = handled[g][c]
      /\ handled'[h][k] >= handled[h][k] /\ handled' \in [Handlers -> [Keys -> Nat]]
  <2>1. handled \in [Handlers -> [Keys -> Nat]]
    BY Zenon DEF TypeOK
  <2>2. /\ handled' \in [Handlers -> [Keys -> Nat]]
        /\ \A g \in Handlers, c \in Keys :
             /\ handled'[g][c] >= handled[g][c]
             /\ g # h \/ c # Key(w) => handled'[g][c] = handled[g][c]
    BY <2>1, HandlesStep, Zenon
  <2> QED BY <1>0, <2>2, Zenon
<1>2. Served' = Served /\ store' = store
  BY Zenon DEF Served, Listed
<1>3. ASSUME NEW g \in Handlers, NEW c \in Keys, g # h \/ c # k
      PROVE  Behind(g, c)' <=> Behind(g, c)
  BY <1>1, <1>2, <1>3, Zenon DEF Behind
<1>4. Behind(h, k)' => Behind(h, k)
  BY <1>1, <1>2 DEF Behind, TypeOK
<1>5. CASE Behind(h, k)' <=> Behind(h, k)
  <2>1. Owed' = Owed
    BY <1>3, <1>5 DEF Owed
  <2> QED BY <1>2, <2>1 DEF Abstract!vars
<1>6. CASE Behind(h, k) /\ ~Behind(h, k)'
  <2>1. Owed' = Owed \ {<<h, k>>} /\ <<h, k>> \in Owed /\ k \in Keys
    BY <1>3, <1>6 DEF Owed
  <2>2. Abstract!Serve(h, k)
    BY <1>2, <2>1 DEF Abstract!Serve
  <2> QED BY <2>1, <2>2 DEF Abstract!Next
<1> QED BY <1>4, <1>5, <1>6

\* Every step is a step of Delivery or leaves its variables alone.
LEMMA RefinedStep == ASSUME IInv, [Next]_vars PROVE [Abstract!Next]_(Abstract!vars)
<1> USE DEF IInv
<1>1. CASE UNCHANGED vars
  BY <1>1, Stutters, Zenon DEF vars, env, list
<1>2. CASE Start
  BY <1>2, Stutters, Zenon DEF Start, env
<1>3. ASSUME NEW h \in Handlers, AddHandler(h) PROVE Abstract!Next
  <2> DEFINE K == {k \in Keys : Behind(h, k)'}
  <2>1. Served' = Served \cup {h} /\ h \notin Served
    BY <1>3, ListSteps, Zenon DEF Served, AddHandler
  <2>2. ASSUME NEW g \in Handlers \ {h}, NEW k \in Keys PROVE Behind(g, k)' <=> Behind(g, k)
    BY <1>3, <2>1, Zenon DEF AddHandler, Behind, TypeOK, env
  <2>3. Owed' = Owed \cup ({h} \X K)
    BY <2>1, <2>2, Zenon DEF Owed, Behind
  <2>4. Abstract!Register(h)
    BY <2>1, <2>3, Zenon DEF Abstract!Register
  <2> QED BY <2>4 DEF Abstract!Next
<1>4. ASSUME NEW h \in Handlers, Deregister(h) PROVE Abstract!Next
  <2>1. Served' = {}
    BY <1>4, ListSteps, Zenon
  <2>2. Owed' = {}
    BY <2>1 DEF Owed, Behind
  <2> QED BY <2>1, <2>2 DEF Abstract!Next, Abstract!Deregister
<1>5. ASSUME NEW k \in Keys, Informer(k) PROVE Abstract!Next
  <2> DEFINE R == {h \in Served : handled[h][k] < api[k]}
  <2>1. Served' = Served /\ handled' = handled /\ Served \subseteq Handlers
    <3>1. Listed \subseteq Handlers
      BY DEF Listed, TypeOK
    <3> QED BY <1>5, <3>1, Zenon DEF Informer, list, Served, Listed
  <2>2. ASSUME NEW h \in Handlers, NEW c \in Keys \ {k} PROVE Behind(h, c)' <=> Behind(h, c)
    BY <1>5, <2>1, Zenon DEF Informer, Behind, TypeOK
  <2>3. ASSUME NEW h \in Handlers
        PROVE  (Behind(h, k)' <=> h \in R) /\ (Behind(h, k) => h \in R)
    <3>1. store'[k] = api[k]
      BY <1>5, Zenon DEF Informer, TypeOK
    <3>2. /\ store[k] \in Nat /\ api[k] \in Nat /\ handled[h][k] \in Nat /\ store[k] <= api[k]
      BY Zenon DEF Basics, TypeOK
    <3>3. handled[h][k] < store[k] => handled[h][k] < api[k]
      BY <3>2, SMT
    <3> QED BY <2>1, <3>1, <3>3, Zenon DEF Behind
  <2>4. Owed' = Owed \cup (R \X {k})
    BY <2>1, <2>2, <2>3 DEF Owed
  <2>5. Abstract!Change(k)
    BY <2>1, <2>4, Zenon DEF Abstract!Change
  <2> QED BY <2>5 DEF Abstract!Next
<1>6. ASSUME NEW k \in Keys, Write(k) \/ QueueObject(k) \/ Delayed(k)
      PROVE  UNCHANGED Abstract!vars
  BY <1>6, Stutters, Zenon DEF Write, QueueObject, Delayed, env, list
<1>7. ASSUME NEW w \in Workers,
             \/ Get(w) \/ RangeHandlers(w) \/ Skip(w) \/ CallFails(w) \/ CallPanics(w) \/ Finish(w)
      PROVE  UNCHANGED Abstract!vars
  <2>1. UNCHANGED <<handlers, cancelled, store, handled>>
    BY <1>7, Zenon DEF Get, RangeHandlers, Skip, CallFails, CallPanics, Finish, env, list
  <2> QED BY <2>1, Stutters
<1>8. ASSUME NEW w \in Workers, CallSucceeds(w) \/ CallWrites(w) \/ CallForgets(w)
      PROVE  [Abstract!Next]_(Abstract!vars)
  <2>1. Key(w) \in Keys /\ Head(todo[w]) \in Handlers
    <3>1. Calling(w)
      BY <1>8, Zenon DEF CallSucceeds, CallWrites, CallForgets
    <3> QED BY <3>1, TailOfHandlers, Zenon DEF Calling, Key, Basics, Items, TypeOK
  <2>2. UNCHANGED <<handlers, cancelled, store>>
    <3>1. CASE CallSucceeds(w)
      BY <3>1 DEF CallSucceeds, env, list
    <3>2. CASE CallWrites(w)
      BY <3>2, Zenon DEF CallWrites, list
    <3>3. CASE CallForgets(w)
      BY <3>3, Zenon DEF CallForgets, env, list
    <3> QED BY <1>8, <3>1, <3>2, <3>3
  <2>3. copy[w] \in Nat /\ copy[w] + 1 \in Nat
    BY DEF TypeOK
  <2>4. Handles(w, Head(todo[w]), copy[w]) \/ Handles(w, Head(todo[w]), copy[w] + 1)
    BY <1>8, Zenon DEF CallSucceeds, CallWrites, CallForgets
  <2> QED BY <2>1, <2>2, <2>3, <2>4, CallServes
<1> QED BY <1>1, <1>2, <1>3, <1>4, <1>5, <1>6, <1>7, <1>8, Zenon DEF Next, Work

\* The generic controller implements Delivery's steps: a handler is owed the
\* objects that exist when it comes and every change after that, and only a call
\* that succeeds (or gives up with a ForgetError) takes from what it is owed.
THEOREM Implements == Spec => Abstract!Init /\ [][Abstract!Next]_(Abstract!vars)
<1>1. Init => Abstract!Init
  BY DEF Init, Abstract!Init, Served, Listed, Owed, Behind
<1> QED BY Invariance, RefinedStep, <1>1, PTL DEF Spec
=============================================================================

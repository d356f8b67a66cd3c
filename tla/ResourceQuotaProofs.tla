------------------------- MODULE ResourceQuotaProofs -------------------------
(***************************************************************************)
(* ResourceQuota for every set of namespaces, fields and quotas, any       *)
(* number of changes and any ages of the caches: type correctness, and     *)
(* that the namespaces are never allowed more than their project.          *)
(***************************************************************************)
EXTENDS ResourceQuota, FiniteSetTheorems, TLAPS

-----------------------------------------------------------------------------
(* Quotas and copies of namespaces.                                        *)

\* Of numbers.
LEMMA Order ==
  /\ \A x \in Nat : x <= x
  /\ \A x \in Nat : 0 \in Nat /\ 0 <= x
  /\ \A x, y, z \in Nat : x <= y /\ y <= z => x <= z
  OBVIOUS

\* What Get returns.
LEMMA GetType ==
  ASSUME NEW q \in Quota, NEW f
  PROVE  Get(q, f) \in Nat
<1>1. CASE q = NoQuota
  BY <1>1 DEF Get
<1>2. CASE q \in Quantities
  <2>1. PICK D \in SUBSET Fields : q \in [D -> Amounts]
    BY <1>2 DEF Quantities
  <2>2. f \in DOMAIN q => q[f] \in Nat
    BY <2>1, AmountsAssumption, Zenon
  <2> QED BY <2>2 DEF Get
<1> QED BY <1>1, <1>2 DEF Quota

\* A quota for every field: none of them is allowed anything.
LEMMA ZeroQuota == Zero \in Quantities /\ \A f : Get(Zero, f) = 0 /\ Get(NoQuota, f) = 0
<1>1. Zero \in [Fields -> Amounts]
  BY AmountsAssumption DEF Zero
<1>2. \A f : Get(Zero, f) = 0
  BY DEF Zero, Get
<1>3. \A f : Get(NoQuota, f) = 0
  BY DEF Get
<1> QED BY <1>1, <1>2, <1>3 DEF Quantities

\* Completing a quota takes nothing away from the fields of the default.
LEMMA Completes ==
  ASSUME NEW q \in Quantities, NEW d \in Quantities
  PROVE  /\ CompleteQuota(q, d) \in Quantities
         /\ \A f \in DOMAIN d : Get(q, f) <= Get(CompleteQuota(q, d), f)
<1>1. PICK D \in SUBSET Fields : d \in [D -> Amounts]
  BY DEF Quantities
<1>2. PICK E \in SUBSET Fields : q \in [E -> Amounts]
  BY DEF Quantities
<1>3. CompleteQuota(q, d) \in [D -> Amounts]
  BY <1>1, <1>2 DEF CompleteQuota
<1>4. CompleteQuota(q, d) \in Quantities
  BY <1>3 DEF Quantities
<1>5. ASSUME NEW f \in DOMAIN d PROVE Get(q, f) <= Get(CompleteQuota(q, d), f)
  <2>1. /\ f \in DOMAIN CompleteQuota(q, d)
        /\ CompleteQuota(q, d)[f] = IF f \in DOMAIN q THEN q[f] ELSE d[f]
    BY <1>1 DEF CompleteQuota
  <2>2. CompleteQuota(q, d) # NoQuota /\ q # NoQuota
    BY <1>4, LimitsAreQuantities
  <2>3. d[f] \in Nat /\ (f \in DOMAIN q => q[f] \in Nat)
    BY <1>1, <1>2, AmountsAssumption, Zenon
  <2> QED BY <2>1, <2>2, <2>3 DEF Get
<1> QED BY <1>4, <1>5

\* What a project's quota consists of.
LEMMA ProjectParts ==
  ASSUME NEW p \in ProjectQuotas
  PROVE  /\ p # NoQuota /\ p.limit \in Quantities /\ p.default \in Quantities
         /\ p.limit # NoQuota /\ p.default # NoQuota /\ DOMAIN p.limit \subseteq Fields
         /\ \A f \in DOMAIN p.limit : p.limit[f] \in Nat
<1>1. p # NoQuota /\ p.limit \in Quantities /\ p.default \in Quantities
  BY ProjectQuotasAssumption
<1>2. PICK D \in SUBSET Fields : p.limit \in [D -> Amounts]
  BY <1>1 DEF Quantities
<1>3. DOMAIN p.limit \subseteq Fields /\ \A f \in DOMAIN p.limit : p.limit[f] \in Nat
  BY <1>2, AmountsAssumption, Zenon
<1> QED BY <1>1, <1>3, LimitsAreQuantities

\* What getResourceQuotaToUpdate fills in.
LEMMA Fills ==
  ASSUME NEW c \in NamespaceType, NEW p \in ProjectQuotas \cup {NoQuota}
  PROVE  /\ ToFill(c, p) \in Quota
         /\ p = NoQuota => ToFill(c, p) = NoQuota
         /\ p # NoQuota /\ c.quota = NoQuota => ToFill(c, p) # NoQuota
         /\ p # NoQuota /\ ToFill(c, p) # NoQuota =>
              \A f \in DOMAIN p.default : Get(c.quota, f) <= Get(ToFill(c, p), f)
<1>q. c.quota \in Quota
  BY DEF NamespaceType
<1>1. CASE p = NoQuota
  BY <1>1 DEF ToFill, Quota
<1>2. CASE p # NoQuota /\ c.quota = NoQuota
  <2>1. p.default \in Quantities /\ p.default # NoQuota
    BY <1>2, ProjectParts
  <2>2. ToFill(c, p) = p.default
    BY <1>2 DEF ToFill
  <2>3. \A f : Get(c.quota, f) <= Get(p.default, f)
    BY <1>2, <2>1, ZeroQuota, GetType DEF Quota
  <2> QED BY <1>2, <2>1, <2>2, <2>3 DEF Quota
<1>3. CASE p # NoQuota /\ c.quota # NoQuota
  <2>1. p.default \in Quantities /\ c.quota \in Quantities
    BY <1>q, <1>3, ProjectParts DEF Quota
  <2>2. ToFill(c, p) \in {NoQuota, CompleteQuota(c.quota, p.default)}
    BY <1>3 DEF ToFill
  <2> QED BY <1>3, <2>1, <2>2, Completes DEF Quota
<1> QED BY <1>1, <1>2, <1>3

\* What a namespace asks for is what its copy says.
LEMMA Asks ==
  ASSUME NEW c \in NamespaceType, NEW p \in ProjectQuotas \cup {NoQuota}
  PROVE  /\ Asked(c, p) \in Quota
         /\ (Asked(c, p) = NoQuota) <=> (p = NoQuota)
         /\ p # NoQuota => \A f : Get(Asked(c, p), f) = Get(c.quota, f)
<1>1. c.quota \in Quota
  BY DEF NamespaceType
<1>2. Zero # NoQuota
  BY ZeroQuota, LimitsAreQuantities
<1> QED BY <1>1, <1>2, ZeroQuota DEF Asked, Quota

Granting == {"create", "update"}

\* A namespace that moves to another project, ...
LEMMA QuotaReset ==
  ASSUME NEW c \in NamespaceType
  PROVE  LET d == [c EXCEPT !.quota = NoQuota] IN
         /\ d \in NamespaceType /\ d.there = c.there /\ d.valid = c.valid /\ d.ending = c.ending
         /\ c.quota = NoQuota => d = c
<1>1. NoQuota \in Quota
  BY DEF Quota
<1> QED BY <1>1, Zenon DEF NamespaceType

\* ... and one that is deleted.
LEMMA EndingSet ==
  ASSUME NEW c \in NamespaceType
  PROVE  LET d == [c EXCEPT !.ending = TRUE] IN
         /\ d \in NamespaceType /\ d.quota = c.quota /\ d.there = c.there /\ d.valid = c.valid
         /\ d.ending
  BY Zenon DEF NamespaceType

\* What is written into a namespace.
LEMMA NamespaceUpdates ==
  ASSUME NEW c \in NamespaceType
  PROVE  /\ \A q \in Quota :
              LET d == [c EXCEPT !.quota = q] IN
              d \in NamespaceType /\ d.quota = q /\ d.there = c.there /\ d.valid = c.valid
         /\ \A q \in Quota :
              LET d == [c EXCEPT !.there = TRUE, !.quota = q] IN
              d \in NamespaceType /\ d.quota = q /\ d.there
         /\ \A v \in {"True", "False"} :
              LET d == [c EXCEPT !.valid = v] IN
              d \in NamespaceType /\ d.quota = c.quota /\ d.there = c.there
         /\ LET d == [c EXCEPT !.init = TRUE] IN
              d \in NamespaceType /\ d.quota = c.quota /\ d.there = c.there /\ d.valid = c.valid
<1>1. \A q \in Quota :
        LET d == [c EXCEPT !.quota = q] IN
        d \in NamespaceType /\ d.quota = q /\ d.there = c.there /\ d.valid = c.valid
  BY Zenon DEF NamespaceType
<1>2. \A q \in Quota :
        LET d == [c EXCEPT !.there = TRUE, !.quota = q] IN
        d \in NamespaceType /\ d.quota = q /\ d.there
  BY Zenon DEF NamespaceType
<1>3. \A v \in {"True", "False"} :
        LET d == [c EXCEPT !.valid = v] IN
        d \in NamespaceType /\ d.quota = c.quota /\ d.there = c.there
  BY Zenon DEF NamespaceType
<1>4. LET d == [c EXCEPT !.init = TRUE] IN
        d \in NamespaceType /\ d.quota = c.quota /\ d.there = c.there /\ d.valid = c.valid
  BY Zenon DEF NamespaceType
<1> QED BY <1>1, <1>2, <1>3, <1>4, Zenon

\* The copy of a namespace that is not there.
LEMMA MissingType ==
  /\ Missing \in NamespaceType /\ ~Missing.there /\ ~Missing.ending
  /\ Missing.quota = NoQuota /\ Missing.valid = "none"
<1>1. NoQuota \in Quota
  BY DEF Quota
<1>2. ~Missing.there /\ ~Missing.ending /\ Missing.quota = NoQuota /\ Missing.valid = "none"
  BY Zenon DEF Missing
<1>3. \A q \in Quota : [there |-> FALSE, ending |-> FALSE, quota |-> q, valid |-> "none", init |-> FALSE] \in NamespaceType
  BY Zenon DEF NamespaceType
<1> QED BY <1>1, <1>2, <1>3, Zenon DEF Missing

-----------------------------------------------------------------------------
(* What the workers do.                                                    *)

\* A worker leaves its copy of the namespace alone or stores the copy c.
Saves(n, c) == UNCHANGED <<ns, old>> \/ (n \notin stale /\ Store(n, c))

\* A copy of the worker's namespace with other conditions.
Condition(n, c) == c \in NamespaceType /\ c.quota = loc[n].ns.quota /\ c.there = loc[n].ns.there

\* A worker returns.
Returns(n) == \E b \in BOOLEAN : \E c : End(n, b) /\ Saves(n, c) /\ Condition(n, c)


\* The locals of a worker, after it has validated, ...
LEMMA LocUpdates ==
  ASSUME NEW c \in NamespaceType, NEW q \in Quota, NEW m \in LocType,
         NEW l, l = [m EXCEPT !.ns = c, !.spec = q]
  PROVE  /\ l \in LocType /\ l.ns = c /\ l.spec = q
         /\ l.op = m.op /\ l.limit = m.limit /\ l.id = m.id
  BY Zenon DEF LocType

\* ... and when it is idle.
LEMMA NoLocType ==
  /\ NoLoc \in LocType /\ NoLoc.ns = Missing /\ NoLoc.op = "none" /\ NoLoc.limit = NoQuota
<1>1. NoQuota \in Quota /\ NoQuota \in ProjectQuotas \cup {NoQuota} /\ NoQuota \in QuotaIds \cup {NoQuota}
  BY DEF Quota
<1>2. Missing \in NamespaceType
  BY MissingType
<1> QED BY <1>1, <1>2, Zenon DEF NoLoc, LocType

\* What CreateResourceQuota does depends on what is wanted.
LEMMA Operations ==
  ASSUME TypeOK, NEW n \in Namespaces, NEW id \in First(n)
  PROVE  /\ id \in QuotaIds \cup {NoQuota} /\ Op(n, id) \in {"none", "create", "update", "delete"}
         /\ Op(n, id) \in Granting => Asked(cache[n], pcache) # NoQuota
         /\ Op(n, id) \in {"update", "delete"} => id \in QuotaIds
<1>1. id \in QuotaIds \cup {NoQuota}
  BY DEF First
<1>2. id = NoQuota => Op(n, id) \in {"none", "create"}
  BY DEF Op, Operation
<1>3. Op(n, id) \in {"none", "create", "update", "delete"}
  BY Zenon DEF Op, Operation
<1>4. Op(n, id) \in Granting => Asked(cache[n], pcache) # NoQuota
  BY DEF Op, Operation, Granting
<1> QED BY <1>1, <1>2, <1>3, <1>4

\* A worker that starts has the copy new of its namespace and the locals l; the
\* copy is the cache's, completed if the worker is going to allow something.
Starts(n, new, l) ==
  /\ cache[n].there /\ new \in NamespaceType /\ new.there = cache[n].there /\ new.valid = cache[n].valid
  /\ \/ new = cache[n] /\ UNCHANGED <<ns, old>>
     \/ n \notin old /\ Store(n, new)
  /\ queue' = queue \ {n}
  /\ stale' = IF n \in old THEN stale \cup {n} ELSE stale
  /\ loc' = [loc EXCEPT ![n] = l]
  /\ l \in LocType /\ l.ns = new /\ l.limit = pcache /\ l.spec = Asked(cache[n], pcache)
  /\ pc' = [pc EXCEPT ![n] = IF l.op \in Granting THEN "validate" ELSE "write"]
  /\ l.op \in {"update", "delete"} => l.id \in QuotaIds
  /\ l.op = "create" => \E i \in QuotaIds : rq[n][i] = NoQuota
  /\ l.op \notin Granting => new = cache[n]
  /\ l.op \in Granting =>
       /\ pcache # NoQuota /\ new.quota # NoQuota
       /\ \A f \in DOMAIN pcache.default : Get(cache[n].quota, f) <= Get(new.quota, f)

\* What Sync does.
LEMMA SyncParts ==
  ASSUME TypeOK, NEW n \in Namespaces, Sync(n)
  PROVE  /\ pc[n] = "idle" /\ UNCHANGED <<pvars, cache, rvars, todo, uvars>>
         /\ \/ UNCHANGED <<ns, old, queue, pc, loc, stale>>
            \/ \E new, l : Starts(n, new, l)
<1>1. pc[n] = "idle" /\ cache[n].there /\ UNCHANGED <<pvars, cache, rvars, todo, uvars>>
  BY Zenon DEF Sync
<1> DEFINE fill == ToFill(cache[n], pcache)
           spec1 == Asked(cache[n], pcache)
           New(op) == IF op \in {"create", "update"} /\ fill # NoQuota
                      THEN [cache[n] EXCEPT !.quota = fill] ELSE cache[n]
           L(id) == [ns |-> New(Op(n, id)), op |-> Op(n, id), spec |-> spec1,
                     limit |-> pcache, id |-> id, fresh |-> <<n, id>> \notin rqold]
<1>2. PICK id \in First(n) :
        /\ Op(n, id) = "create" => \E i \in QuotaIds : rq[n][i] = NoQuota
        /\ \/ UNCHANGED <<ns, old, queue, pc, loc, stale>>
           \/ /\ New(Op(n, id)) = cache[n] \/ n \notin old
              /\ IF New(Op(n, id)) = cache[n] THEN UNCHANGED <<ns, old>> ELSE Store(n, New(Op(n, id)))
              /\ queue' = queue \ {n}
              /\ stale' = IF n \in old THEN stale \cup {n} ELSE stale
              /\ loc' = [loc EXCEPT ![n] = L(id)]
              /\ pc' = [pc EXCEPT ![n] = IF Op(n, id) \in {"create", "update"} THEN "validate" ELSE "write"]
  BY Zenon DEF Sync, Goto
<1>3. CASE UNCHANGED <<ns, old, queue, pc, loc, stale>>
  BY <1>1, <1>3
<1>4. CASE ~UNCHANGED <<ns, old, queue, pc, loc, stale>>
  <2> DEFINE op == Op(n, id)
             new == New(op)
             l == L(id)
  <2>t. cache[n] \in NamespaceType /\ pcache \in ProjectQuotas \cup {NoQuota}
    BY DEF TypeOK
  <2>o. /\ id \in QuotaIds \cup {NoQuota} /\ op \in {"none", "create", "update", "delete"}
        /\ op \in Granting => spec1 # NoQuota
        /\ op \in {"update", "delete"} => id \in QuotaIds
    BY Operations
  <2>a. spec1 \in Quota /\ (spec1 = NoQuota <=> pcache = NoQuota)
    BY <2>t, Asks
  <2>f. /\ fill \in Quota
        /\ pcache # NoQuota /\ cache[n].quota = NoQuota => fill # NoQuota
        /\ pcache # NoQuota /\ fill # NoQuota =>
             \A f \in DOMAIN pcache.default : Get(cache[n].quota, f) <= Get(fill, f)
    BY <2>t, Fills
  <2> HIDE DEF fill, spec1
  <2>1. new \in NamespaceType /\ new.there = cache[n].there /\ new.valid = cache[n].valid
    BY <2>t, <2>f, NamespaceUpdates, Zenon
  <2>2. op \notin Granting => new = cache[n]
    BY DEF Granting
  <2>3. ASSUME op \in Granting
        PROVE  /\ pcache # NoQuota /\ new.quota # NoQuota
               /\ \A f \in DOMAIN pcache.default : Get(cache[n].quota, f) <= Get(new.quota, f)
    <3>1. pcache # NoQuota
      BY <2>3, <2>o, <2>a
    <3>2. CASE fill # NoQuota
      <4>1. new.quota = fill
        BY <2>3, <2>t, <2>f, <3>2, NamespaceUpdates, Zenon DEF Granting
      <4> QED BY <2>f, <3>1, <3>2, <4>1
    <3>3. CASE fill = NoQuota
      <4>1. new = cache[n] /\ cache[n].quota # NoQuota
        BY <2>f, <3>1, <3>3
      <4>2. cache[n].quota \in Quota
        BY <2>t DEF NamespaceType
      <4>3. \A f : Get(cache[n].quota, f) <= Get(cache[n].quota, f)
        BY <4>2, GetType
      <4> QED BY <3>1, <4>1, <4>3, Zenon
    <3> QED BY <3>2, <3>3
  <2>4. /\ l \in LocType /\ l.ns = new /\ l.op = op /\ l.spec = spec1 /\ l.limit = pcache /\ l.id = id
    <3> DEFINE b == <<n, id>> \notin rqold
    <3>1. l = [ns |-> new, op |-> op, spec |-> spec1, limit |-> pcache, id |-> id, fresh |-> b]
      OBVIOUS
    <3>2. b \in BOOLEAN
      OBVIOUS
    <3> HIDE DEF new, op, l, b
    <3> QED BY <2>t, <2>o, <2>a, <2>1, <3>1, <3>2, Zenon DEF LocType
  <2>5. /\ new = cache[n] \/ n \notin old
        /\ IF new = cache[n] THEN UNCHANGED <<ns, old>> ELSE Store(n, new)
        /\ queue' = queue \ {n}
        /\ stale' = IF n \in old THEN stale \cup {n} ELSE stale
        /\ loc' = [loc EXCEPT ![n] = l]
        /\ pc' = [pc EXCEPT ![n] = IF op \in Granting THEN "validate" ELSE "write"]
        /\ op = "create" => \E i \in QuotaIds : rq[n][i] = NoQuota
    BY <1>2, <1>4, Zenon DEF Granting
  <2> HIDE DEF new, l, op
  <2>6. Starts(n, new, l)
    BY <1>1, <2>o, <2>1, <2>2, <2>3, <2>4, <2>5, Zenon DEF Starts, spec1
  <2> QED BY <1>1, <2>6, Zenon
<1> QED BY <1>3, <1>4

\* A worker goes on to write, with the copy c of its namespace.
GoesOn(n, c, l) ==
  /\ GoOn(n, "write", l)
  /\ Condition(n, c)
  /\ \/ c = loc[n].ns /\ UNCHANGED <<ns, old>>
     \/ n \notin stale /\ Store(n, c)
  /\ l \in LocType /\ l.ns = c
  /\ l.op = loc[n].op /\ l.limit = loc[n].limit /\ l.id = loc[n].id
  /\ l.spec = IF Fits(n) THEN loc[n].spec ELSE Zero

\* What Validate does.
LEMMA ValidateParts ==
  ASSUME TypeOK, NEW n \in Namespaces, Validate(n)
  PROVE  /\ pc[n] = "validate" /\ UNCHANGED <<pvars, cache, rvars, todo, uvars>>
         /\ Returns(n) \/ \E c, l : GoesOn(n, c, l)
<1> DEFINE c == [loc[n].ns EXCEPT !.valid = IF Fits(n) THEN "True" ELSE "False"]
           q == IF Fits(n) THEN loc[n].spec ELSE Zero
           l == [loc[n] EXCEPT !.ns = c, !.spec = q]
<1>1. pc[n] = "validate" /\ UNCHANGED <<pvars, cache, rvars, todo, uvars>>
  BY Zenon DEF Validate
<1>2. IF c # loc[n].ns /\ n \in stale
      THEN End(n, TRUE) /\ UNCHANGED <<ns, old>>
      ELSE /\ IF c = loc[n].ns THEN UNCHANGED <<ns, old>> ELSE Store(n, c)
           /\ IF loc[n].op = "update" /\ ~Fits(n) THEN End(n, FALSE) ELSE GoOn(n, "write", l)
  BY Zenon DEF Validate
<1>t. loc[n] \in LocType
  BY DEF TypeOK
<1>u. loc[n].ns \in NamespaceType /\ loc[n].spec \in Quota
  BY <1>t DEF LocType
<1>3. Condition(n, c)
  <2>1. (IF Fits(n) THEN "True" ELSE "False") \in {"True", "False"}
    OBVIOUS
  <2> QED BY <1>u, <2>1, NamespaceUpdates, Zenon DEF Condition
<1>4. q \in Quota
  BY <1>u, ZeroQuota DEF Quota
<1>5. /\ l \in LocType /\ l.ns = c /\ l.spec = q
      /\ l.op = loc[n].op /\ l.limit = loc[n].limit /\ l.id = loc[n].id
  <2>1. c \in NamespaceType
    BY <1>3, Zenon DEF Condition
  <2> HIDE DEF c, q
  <2> QED BY <1>t, <1>4, <2>1, Zenon DEF LocType
<1>6. q = IF Fits(n) THEN loc[n].spec ELSE Zero
  OBVIOUS
<1> HIDE DEF c, l, q
<1>7. CASE c # loc[n].ns /\ n \in stale
  BY <1>1, <1>2, <1>3, <1>7, Zenon DEF Returns, Saves
<1>8. CASE ~(c # loc[n].ns /\ n \in stale) /\ loc[n].op = "update" /\ ~Fits(n)
  BY <1>1, <1>2, <1>3, <1>8, Zenon DEF Returns, Saves
<1>9. CASE ~(c # loc[n].ns /\ n \in stale) /\ ~(loc[n].op = "update" /\ ~Fits(n))
  <2>1. GoesOn(n, c, l)
    BY <1>2, <1>3, <1>5, <1>6, <1>9, Zenon DEF GoesOn
  <2> QED BY <1>1, <2>1, Zenon
<1> QED BY <1>7, <1>8, <1>9

\* A worker writes the quota q into the ResourceQuota i of its namespace, which it
\* allows if the namespace is there or the ResourceQuota was.
Writes(n, i, q) ==
  /\ q \in Quota
  /\ rq' = [rq EXCEPT ![n] = [rq[n] EXCEPT ![i] = q]]
  /\ rqold' = rqold \cup {<<n, i>>}
  /\ \/ q = NoQuota
     \/ /\ q = loc[n].spec /\ loc[n].op \in Granting
        /\ ns[n].there \/ rq[n][i] # NoQuota

\* What Write does.
LEMMA WriteParts ==
  ASSUME TypeOK, NEW n \in Namespaces, Write(n),
         loc[n].op = "create" => \E i \in QuotaIds : rq[n][i] = NoQuota,
         loc[n].op \in {"update", "delete"} => loc[n].id \in QuotaIds
  PROVE  /\ pc[n] = "write" /\ UNCHANGED <<pvars, cache, rqcache, todo, uvars>>
         /\ Returns(n)
         /\ UNCHANGED <<rq, rqold>> \/ \E i \in QuotaIds : \E q : Writes(n, i, q)
<1>t. loc[n] \in LocType
  BY DEF TypeOK
<1>u. loc[n].ns \in NamespaceType /\ loc[n].spec \in Quota /\ NoQuota \in Quota
  BY <1>t DEF LocType, Quota
<1>1. pc[n] = "write" /\ UNCHANGED <<pvars, cache, rqcache, todo, uvars>>
  BY Zenon DEF Write
<1> DEFINE Set(i, q) == /\ rq' = [rq EXCEPT ![n] = [rq[n] EXCEPT ![i] = q]]
                        /\ rqold' = rqold \cup {<<n, i>>}
                        /\ SetInit(n)
           Refused == End(n, TRUE) /\ UNCHANGED <<ns, old, rq, rqold>>
           free == CHOOSE i \in QuotaIds : rq[n][i] = NoQuota
<1>2. \/ SetInit(n) /\ UNCHANGED <<rq, rqold>>
      \/ Refused
      \/ loc[n].op = "create" /\ ns[n].there /\ Set(free, loc[n].spec)
      \/ loc[n].op = "update" /\ rq[n][loc[n].id] # NoQuota /\ Set(loc[n].id, loc[n].spec)
      \/ loc[n].op = "delete" /\ Set(loc[n].id, NoQuota)
  BY Zenon DEF Write
<1>3. ASSUME SetInit(n) PROVE Returns(n)
  <2> DEFINE c == [loc[n].ns EXCEPT !.init = TRUE]
  <2>1. Condition(n, c)
    BY <1>u, NamespaceUpdates, Zenon DEF Condition
  <2>2. IF c # loc[n].ns /\ n \in stale
        THEN End(n, TRUE) /\ UNCHANGED <<ns, old>>
        ELSE End(n, FALSE) /\ IF c = loc[n].ns THEN UNCHANGED <<ns, old>> ELSE Store(n, c)
    BY <1>3, Zenon DEF SetInit
  <2> HIDE DEF c
  <2> QED BY <2>1, <2>2, Zenon DEF Returns, Saves
<1>4. CASE SetInit(n) /\ UNCHANGED <<rq, rqold>>
  BY <1>1, <1>3, <1>4
<1>5. CASE Refused
  <2>1. Condition(n, loc[n].ns)
    BY <1>u DEF Condition
  <2>2. Returns(n)
    BY <1>5, <2>1, Zenon DEF Returns, Saves
  <2> QED BY <1>1, <1>5, <2>2
<1>6. CASE loc[n].op = "create" /\ ns[n].there /\ Set(free, loc[n].spec)
  <2>1. free \in QuotaIds
    BY <1>6, Zenon
  <2> HIDE DEF free
  <2>2. Writes(n, free, loc[n].spec)
    BY <1>u, <1>6, Zenon DEF Writes, Granting
  <2> QED BY <1>1, <1>3, <1>6, <2>1, <2>2, Zenon
<1>7. CASE loc[n].op = "update" /\ rq[n][loc[n].id] # NoQuota /\ Set(loc[n].id, loc[n].spec)
  <2>1. Writes(n, loc[n].id, loc[n].spec) /\ loc[n].id \in QuotaIds
    BY <1>u, <1>7, Zenon DEF Writes, Granting
  <2> QED BY <1>1, <1>3, <1>7, <2>1, Zenon
<1>8. CASE loc[n].op = "delete" /\ Set(loc[n].id, NoQuota)
  <2>1. Writes(n, loc[n].id, NoQuota) /\ loc[n].id \in QuotaIds
    BY <1>u, <1>8, Zenon DEF Writes
  <2> QED BY <1>1, <1>3, <1>8, <2>1, Zenon
<1> QED BY <1>2, <1>4, <1>5, <1>6, <1>7, <1>8, Zenon

-----------------------------------------------------------------------------
(* The kinds of steps, by what the invariants below are about.             *)

\* The workers: what they were sure of when they started; and a project's
\* default has the fields of its limit.
WorkInv ==
  /\ \A q \in {project, pcache} \ {NoQuota} : DOMAIN q.default = DOMAIN q.limit
  /\ \A n \in Namespaces :
       /\ loc[n].op \in {"update", "delete"} => loc[n].id \in QuotaIds
       /\ loc[n].op = "create" => \E i \in QuotaIds : rq[n][i] = NoQuota
       /\ loc[n].op \in Granting => loc[n].limit # NoQuota
       /\ pc[n] = "validate" => loc[n].op \in Granting

\* The copies of a namespace: those that are not old are the namespace, and of a
\* name that has not been used yet there is none.  ResourceQuotas go with their
\* namespace.
CopyInv ==
  \A n \in Namespaces :
    /\ n \notin old => cache[n] = ns[n]
    /\ pc[n] # "idle" /\ n \notin stale => ns[n] = loc[n].ns
    /\ ~ns[n].there => \A i \in QuotaIds : rq[n][i] = NoQuota
    /\ ~ns[n].there /\ ~ns[n].ending => ns[n] = Missing /\ cache[n] = Missing /\ pc[n] = "idle"

\* Nothing that matters changes.
Quiet == UNCHANGED <<project, pcache, nvars, rq, pc, loc, stale, lowered>>

SeesNamespace(n) ==
  /\ n \in old /\ old' = old \ {n} /\ cache' = [cache EXCEPT ![n] = ns[n]]
  /\ UNCHANGED <<project, pcache, ns, rq, pc, loc, stale, lowered>>

SeesProject == pcache' = project /\ UNCHANGED <<project, nvars, rq, pc, loc, stale, lowered>>

Begins(n) ==
  /\ pc[n] = "idle" /\ \E new, l : Starts(n, new, l)
  /\ UNCHANGED <<project, pcache, cache, rq, lowered>>

Validates(n) ==
  /\ pc[n] = "validate" /\ \E c, l : GoesOn(n, c, l)
  /\ UNCHANGED <<project, pcache, cache, rq, lowered>>

Finishes(n) ==
  /\ pc[n] # "idle" /\ Returns(n)
  /\ UNCHANGED rq \/ (pc[n] = "write" /\ \E i \in QuotaIds : \E q : Writes(n, i, q))
  /\ UNCHANGED <<project, pcache, cache, lowered>>

\* Somebody else than the worker writes new: no namespace goes or appears again,
\* and unless a limit is lowered its quota grows.
Changes(n, new) ==
  /\ new \in NamespaceType /\ (new.valid # "none" => new.there) /\ WriteBy(n, new)
  /\ new.there \/ (~ns[n].there /\ new.ending = ns[n].ending /\ (ns[n] = Missing => new = Missing))
  /\ ~lowered' => /\ ~lowered /\ new.there /\ (ns[n].there \/ ns[n] = Missing)
                  /\ \A f \in Fields : Get(ns[n].quota, f) <= Get(new.quota, f)
  /\ UNCHANGED <<project, pcache, cache, rq, pc, loc>>

Vanishes(n) ==
  /\ \E c \in NamespaceType :
       c.ending /\ ~c.there /\ c.valid = "none" /\ WriteBy(n, c)
  /\ rq' = [rq EXCEPT ![n] = [i \in QuotaIds |-> NoQuota]]
  /\ UNCHANGED <<project, pcache, cache, pc, loc, lowered>>

Limited(q) ==
  /\ q \in ProjectQuotas \cup {NoQuota} /\ (q # NoQuota => ValidProject(q)) /\ project' = q
  /\ ~lowered' => ~lowered /\ q # NoQuota /\ (project = NoQuota \/ ~Tighter(q.limit, project.limit))
  /\ UNCHANGED <<pcache, nvars, rq, pc, loc, stale>>

Restarts ==
  /\ pcache' = project /\ cache' = ns /\ old' = {} /\ stale' = {}
  /\ pc' = [n \in Namespaces |-> "idle"] /\ loc' = [n \in Namespaces |-> NoLoc]
  /\ UNCHANGED <<project, ns, rq, lowered>>

Kind ==
  \/ Quiet \/ SeesProject \/ Restarts
  \/ \E n \in Namespaces :
       \/ SeesNamespace(n) \/ Begins(n) \/ Validates(n) \/ Finishes(n) \/ Vanishes(n)
       \/ \E new : Changes(n, new)
  \/ \E q : Limited(q)

\* A limit that is not lowered in any field that some field of another is not below.
LEMMA NotBelow ==
  ASSUME NEW a \in Quota, NEW b \in Quota, ~Below(a, b)
  PROVE  \A f \in Fields : Get(b, f) <= Get(a, f)
  BY GetType DEF Below

\* What somebody else writes.
LEMMA ChangesOutside ==
  ASSUME TypeOK, CopyInv, NEW n \in Namespaces,
         ResetNamespaceQuota(n) \/ DeleteNamespace(n) \/ (\E r \in req : r.ns = n /\ WriteRequest(r))
  PROVE  Quiet \/ \E new : Changes(n, new)
<1>t. /\ ns[n] \in NamespaceType /\ cache[n] \in NamespaceType /\ lowered \in BOOLEAN
      /\ ns[n].valid # "none" => ns[n].there
      /\ cache[n].valid # "none" => cache[n].there
  BY DEF TypeOK
<1>q. ns[n].quota \in Quota /\ NoQuota \in Quota
  BY <1>t DEF NamespaceType, Quota
<1>1. CASE ResetNamespaceQuota(n)
  <2> DEFINE new == [cache[n] EXCEPT !.quota = NoQuota]
  <2>1. CASE n \in old
    <3>1. UNCHANGED <<ns, old, stale, lowered>> /\ UNCHANGED <<pvars, cache, rvars, pc, loc, req, changes>>
      BY <1>1, <2>1, Zenon DEF ResetNamespaceQuota
    <3> QED BY <3>1 DEF Quiet, pvars, nvars, rvars
  <2>2. CASE n \notin old
    <3>1. WriteBy(n, new) /\ lowered' = TRUE /\ UNCHANGED <<pvars, cache, rvars, pc, loc, req, changes>>
      BY <1>1, <2>2, Zenon DEF ResetNamespaceQuota
    <3>2. UNCHANGED <<project, pcache, cache, rq, pc, loc>>
      BY <3>1 DEF pvars, rvars
    <3>3. cache[n] = ns[n]
      BY <2>2 DEF CopyInv
    <3>4. /\ new \in NamespaceType /\ new.there = cache[n].there /\ new.valid = cache[n].valid
          /\ new.ending = cache[n].ending
          /\ cache[n].quota = NoQuota => new = cache[n]
      BY <1>t, QuotaReset, Zenon
    <3>6. ns[n] = Missing => new = Missing
      BY <3>3, <3>4, MissingType, Zenon
    <3> HIDE DEF new
    <3>7. Changes(n, new)
      BY <1>t, <3>1, <3>2, <3>3, <3>4, <3>6, Zenon DEF Changes
    <3> QED BY <3>7, Zenon
  <2> QED BY <2>1, <2>2
<1>2. CASE DeleteNamespace(n)
  <2> DEFINE new == [ns[n] EXCEPT !.ending = TRUE]
  <2>1. /\ ns[n].there /\ WriteBy(n, new)
        /\ UNCHANGED <<pvars, cache, rvars, queue, todo, pc, loc, req, lowered>>
    BY <1>2, Zenon DEF DeleteNamespace
  <2>2. UNCHANGED <<project, pcache, cache, rq, pc, loc, lowered>>
    BY <2>1 DEF pvars, rvars
  <2>3. new \in NamespaceType /\ new.quota = ns[n].quota /\ new.there
    BY <1>t, <2>1, EndingSet, Zenon
  <2>4. \A f \in Fields : Get(ns[n].quota, f) <= Get(new.quota, f)
    BY <1>q, <2>3, GetType, Order, Zenon
  <2> HIDE DEF new
  <2>5. ~lowered' => ~lowered
    BY <2>2
  <2>6. Changes(n, new)
    BY <2>1, <2>2, <2>3, <2>4, <2>5, Zenon DEF Changes
  <2> QED BY <2>6, Zenon
<1>3. ASSUME NEW r \in req, r.ns = n, WriteRequest(r)
      PROVE  Quiet \/ \E new : Changes(n, new)
  <2> DEFINE new == [ns[n] EXCEPT !.there = TRUE, !.quota = r.quota]
  <2>r. r.quota \in Quota
    <3>1. r \in [ns : Namespaces, quota : Limits \cup {NoQuota}]
      BY DEF TypeOK
    <3> QED BY <3>1, LimitsAreQuantities DEF Quota
  <2>1. UNCHANGED <<pvars, cache, rvars, queue, todo, pc, loc, changes>>
    BY <1>3, Zenon DEF WriteRequest
  <2>2. UNCHANGED <<project, pcache, cache, rq, pc, loc>>
    BY <2>1 DEF pvars, rvars
  <2>3. CASE ns[n] = Missing \/ ns[n].there
    <3>1. WriteBy(n, new) /\ lowered' = (lowered \/ Below(r.quota, ns[n].quota))
      BY <1>3, <2>3, Zenon DEF WriteRequest
    <3>2. new \in NamespaceType /\ new.quota = r.quota /\ new.there
      BY <1>t, <2>r, NamespaceUpdates, Zenon
    <3>3. ~lowered' => \A f \in Fields : Get(ns[n].quota, f) <= Get(new.quota, f)
      BY <1>q, <2>r, <3>1, <3>2, NotBelow, Zenon
    <3> HIDE DEF new
    <3>4. Changes(n, new)
      BY <1>t, <2>2, <2>3, <3>1, <3>2, <3>3, Zenon DEF Changes
    <3> QED BY <3>4, Zenon
  <2>4. CASE ~(ns[n] = Missing \/ ns[n].there)
    <3>1. UNCHANGED <<ns, old, stale, lowered>>
      BY <1>3, <2>4, Zenon DEF WriteRequest
    <3> QED BY <2>2, <3>1 DEF Quiet, nvars
  <2> QED BY <2>3, <2>4
<1> QED BY <1>1, <1>2, <1>3, Zenon

\* Every step is of one of these kinds.
LEMMA Steps ==
  ASSUME TypeOK, WorkInv, CopyInv, [Next]_vars
  PROVE  Kind
<1>1. CASE UNCHANGED vars
  BY <1>1 DEF vars, pvars, nvars, rvars, wvars, uvars, Kind, Quiet
<1>2. CASE ProjectSync \/ Resync \/ \E n \in Namespaces : SyncIdle(n) \/ \E i \in QuotaIds : QuotaEvent(n, i)
  <2>1. UNCHANGED <<pvars, nvars, rq, pc, loc, stale, uvars>>
    BY <1>2, Zenon DEF ProjectSync, Resync, SyncIdle, QuotaEvent, rvars, wvars
  <2> QED BY <2>1 DEF pvars, uvars, Kind, Quiet
<1>3. CASE \E q : ValidateCreate(q) \/ \E n \in Namespaces : ValidateUpdate(n, q)
  <2>1. UNCHANGED <<pvars, nvars, rvars, wvars, lowered>>
    BY <1>3, Zenon DEF ValidateCreate, ValidateUpdate
  <2> QED BY <2>1 DEF pvars, rvars, wvars, Kind, Quiet
<1>4. CASE ProjectEvent
  <2>1. SeesProject
    BY <1>4 DEF ProjectEvent, nvars, rvars, uvars, SeesProject
  <2> QED BY <2>1 DEF Kind
<1>5. CASE Restart
  <2>1. Restarts
    BY <1>5, Zenon DEF Restart, Restarts
  <2> QED BY <2>1 DEF Kind
<1>6. ASSUME NEW n \in Namespaces, NamespaceEvent(n) PROVE Kind
  <2>1. SeesNamespace(n)
    BY <1>6 DEF NamespaceEvent, SeesNamespace, pvars, rvars, uvars
  <2> QED BY <2>1, Zenon DEF Kind
<1>7. ASSUME NEW n \in Namespaces, Sync(n) PROVE Kind
  <2>1. /\ pc[n] = "idle" /\ UNCHANGED <<pvars, cache, rvars, todo, uvars>>
        /\ UNCHANGED <<ns, old, queue, pc, loc, stale>> \/ \E new, l : Starts(n, new, l)
    BY <1>7, SyncParts, Zenon
  <2>2. UNCHANGED <<project, pcache, cache, rq, lowered>>
    BY <2>1 DEF pvars, rvars, uvars
  <2>3. CASE UNCHANGED <<ns, old, queue, pc, loc, stale>>
    BY <2>2, <2>3 DEF Kind, Quiet, nvars
  <2>4. CASE \E new, l : Starts(n, new, l)
    BY <2>1, <2>2, <2>4, Zenon DEF Kind, Begins
  <2> QED BY <2>1, <2>3, <2>4
<1>8. ASSUME NEW n \in Namespaces, Validate(n) PROVE Kind
  <2>1. /\ pc[n] = "validate" /\ UNCHANGED <<pvars, cache, rvars, todo, uvars>>
        /\ Returns(n) \/ \E c, l : GoesOn(n, c, l)
    BY <1>8, ValidateParts, Zenon
  <2>2. UNCHANGED <<project, pcache, cache, rq, lowered>> /\ pc[n] # "idle"
    BY <2>1 DEF pvars, rvars, uvars
  <2> QED BY <2>1, <2>2, Zenon DEF Kind, Validates, Finishes
<1>9. ASSUME NEW n \in Namespaces, Write(n) PROVE Kind
  <2>0. /\ loc[n].op = "create" => \E i \in QuotaIds : rq[n][i] = NoQuota
        /\ loc[n].op \in {"update", "delete"} => loc[n].id \in QuotaIds
    BY Zenon DEF WorkInv
  <2>1. /\ pc[n] = "write" /\ UNCHANGED <<pvars, cache, rqcache, todo, uvars>>
        /\ Returns(n)
        /\ UNCHANGED <<rq, rqold>> \/ \E i \in QuotaIds : \E q : Writes(n, i, q)
    BY <1>9, <2>0, WriteParts, Zenon
  <2>2. UNCHANGED <<project, pcache, cache, lowered>> /\ pc[n] # "idle"
    BY <2>1 DEF pvars, uvars
  <2>3. Finishes(n)
    BY <2>1, <2>2, Zenon DEF Finishes
  <2> QED BY <2>3, Zenon DEF Kind
<1>10. ASSUME NEW n \in Namespaces, Gone(n) PROVE Kind
  <2> DEFINE c == [Missing EXCEPT !.ending = TRUE]
  <2>1. /\ WriteBy(n, c) /\ rq' = [rq EXCEPT ![n] = [i \in QuotaIds |-> NoQuota]]
        /\ UNCHANGED <<pvars, cache, rqcache, queue, todo, pc, loc, uvars>>
    BY <1>10, Zenon DEF Gone
  <2>2. UNCHANGED <<project, pcache, cache, pc, loc, lowered>>
    BY <2>1 DEF pvars, uvars
  <2>3. c \in NamespaceType /\ c.ending /\ ~c.there /\ c.valid = "none"
    BY MissingType, EndingSet, Zenon
  <2> HIDE DEF c
  <2>4. Vanishes(n)
    BY <2>1, <2>2, <2>3, Zenon DEF Vanishes
  <2> QED BY <2>4, Zenon DEF Kind
<1>11. ASSUME NEW n \in Namespaces,
              ResetNamespaceQuota(n) \/ DeleteNamespace(n) \/ (\E r \in req : r.ns = n /\ WriteRequest(r))
       PROVE  Kind
  BY <1>11, ChangesOutside, Zenon DEF Kind
<1>12. ASSUME NEW r \in req, WriteRequest(r) PROVE Kind
  <2>1. r.ns \in Namespaces
    BY Zenon DEF TypeOK
  <2> QED BY <1>11, <1>12, <2>1, Zenon
<1>13. ASSUME NEW q \in ProjectQuotas \cup {NoQuota}, UpdateProject(q) PROVE Kind
  <2>1. /\ q # NoQuota => ValidProject(q)
        /\ project' = q
        /\ lowered' = (\/ lowered
                       \/ q = NoQuota
                       \/ project # NoQuota /\ Tighter(q.limit, project.limit))
        /\ UNCHANGED <<pcache, nvars, rvars, queue, todo, pc, loc, stale, req>>
    BY <1>13, Zenon DEF UpdateProject
  <2>2. UNCHANGED <<pcache, nvars, rq, pc, loc, stale>>
    BY <2>1 DEF rvars
  <2>3. ~lowered' => ~lowered /\ q # NoQuota /\ (project = NoQuota \/ ~Tighter(q.limit, project.limit))
    BY <2>1, Zenon
  <2>4. Limited(q)
    BY <2>1, <2>2, <2>3, Zenon DEF Limited
  <2> QED BY <2>4, Zenon DEF Kind
<1> QED
  BY <1>1, <1>2, <1>3, <1>4, <1>5, <1>6, <1>7, <1>8, <1>9, <1>10, <1>11, <1>12, <1>13, Zenon
  DEF Next, Running, Events, Users, Worker, ProjectWorker

-----------------------------------------------------------------------------
(* Type correctness.                                                       *)

NsOK ==
  /\ ns \in [Namespaces -> NamespaceType]
  /\ \A n \in Namespaces : ns[n].valid # "none" => ns[n].there
CacheOK ==
  /\ cache \in [Namespaces -> NamespaceType]
  /\ \A n \in Namespaces : cache[n].valid # "none" => cache[n].there
LocalsOK(l, label) ==
  /\ l \in LocType /\ label \in {"idle", "validate", "write"}
  /\ l.ns.valid # "none" => l.ns.there
  /\ (label = "idle") <=> ~l.ns.there
  /\ label = "validate" => l.limit # NoQuota /\ l.ns.quota # NoQuota
LocOK ==
  /\ pc \in [Namespaces -> {"idle", "validate", "write"}]
  /\ loc \in [Namespaces -> LocType]
  /\ \A n \in Namespaces : LocalsOK(loc[n], pc[n])
StoreOK ==
  /\ {project, pcache} \subseteq ProjectQuotas \cup {NoQuota}
  /\ rq \in [Namespaces -> [QuotaIds -> Quota]]
  /\ old \subseteq Namespaces /\ stale \subseteq Namespaces /\ lowered \in BOOLEAN
RestOK ==
  /\ pold \in BOOLEAN /\ rqcache \in [Namespaces -> [QuotaIds -> Quota]]
  /\ todo \subseteq Namespaces /\ rqold \subseteq Namespaces \X QuotaIds
  /\ queue \subseteq Namespaces \cup {Project}
  /\ req \subseteq [ns : Namespaces, quota : Limits \cup {NoQuota}]
  /\ changes \in Nat

\* The parts of the type invariant.
LEMMA TypeParts == TypeOK <=> NsOK /\ CacheOK /\ LocOK /\ StoreOK /\ RestOK
<1>1. TypeOK => NsOK /\ CacheOK
  BY Zenon DEF TypeOK, NsOK, CacheOK
<1>2. TypeOK => LocOK
  BY Zenon DEF TypeOK, LocOK, LocalsOK
<1>3. TypeOK => StoreOK /\ RestOK
  BY Zenon DEF TypeOK, StoreOK, RestOK
<1>4. ASSUME NsOK, CacheOK, LocOK, NEW n \in Namespaces
      PROVE  /\ \A c \in {ns[n], cache[n], loc[n].ns} : c.valid # "none" => c.there
             /\ (pc[n] = "idle") <=> ~loc[n].ns.there
             /\ pc[n] = "validate" => loc[n].limit # NoQuota /\ loc[n].ns.quota # NoQuota
  BY <1>4, Zenon DEF NsOK, CacheOK, LocOK, LocalsOK
<1>5. NsOK /\ CacheOK /\ LocOK /\ StoreOK /\ RestOK => TypeOK
  BY <1>4, Zenon DEF NsOK, CacheOK, LocOK, StoreOK, RestOK, TypeOK
<1> QED BY <1>1, <1>2, <1>3, <1>5

\* The copy of a namespace that a worker is left with is as good as the one it had.
LEMMA ConditionOK ==
  ASSUME LocOK, NEW n \in Namespaces, pc[n] # "idle", NEW c, Condition(n, c)
  PROVE  c \in NamespaceType /\ c.there
  BY Zenon DEF LocOK, LocalsOK, Condition

LEMMA NsStep ==
  ASSUME NsOK, CacheOK, LocOK, Kind
  PROVE  NsOK'
<1>s. ASSUME NEW n \in Namespaces, NEW c \in NamespaceType, c.valid # "none" => c.there, Store(n, c)
      PROVE  NsOK'
  <2>1. ns' = [ns EXCEPT ![n] = c]
    BY <1>s DEF Store
  <2> QED BY <1>s, <2>1 DEF NsOK
<1>u. ASSUME UNCHANGED ns PROVE NsOK'
  BY <1>u DEF NsOK
<1>1. CASE Quiet \/ SeesProject \/ Restarts \/ (\E n \in Namespaces : SeesNamespace(n)) \/ \E q : Limited(q)
  BY <1>1, <1>u, Zenon DEF Quiet, SeesProject, Restarts, SeesNamespace, Limited, nvars
<1>2. ASSUME NEW n \in Namespaces, Begins(n) PROVE NsOK'
  <2>1. PICK new, l : Starts(n, new, l)
    BY <1>2, Zenon DEF Begins
  <2>2. new \in NamespaceType /\ new.there
    BY <2>1, Zenon DEF Starts
  <2> QED BY <1>s, <1>u, <2>1, <2>2, Zenon DEF Starts
<1>3. ASSUME NEW n \in Namespaces, Validates(n) PROVE NsOK'
  <2>1. PICK c, l : GoesOn(n, c, l)
    BY <1>3, Zenon DEF Validates
  <2>2. c \in NamespaceType /\ c.there
    BY <1>3, <2>1, ConditionOK, Zenon DEF Validates, GoesOn
  <2> QED BY <1>s, <1>u, <2>1, <2>2, Zenon DEF GoesOn
<1>4. ASSUME NEW n \in Namespaces, Finishes(n) PROVE NsOK'
  <2>1. PICK c : Saves(n, c) /\ Condition(n, c)
    BY <1>4, Zenon DEF Finishes, Returns
  <2>2. c \in NamespaceType /\ c.there
    BY <1>4, <2>1, ConditionOK DEF Finishes
  <2> QED BY <1>s, <1>u, <2>1, <2>2, Zenon DEF Saves
<1>5. ASSUME NEW n \in Namespaces, Vanishes(n) \/ \E new : Changes(n, new) PROVE NsOK'
  BY <1>s, <1>5, Zenon DEF Vanishes, Changes, WriteBy
<1> QED BY <1>1, <1>2, <1>3, <1>4, <1>5, Zenon DEF Kind

LEMMA CacheStep ==
  ASSUME NsOK, CacheOK, Kind
  PROVE  CacheOK'
<1>1. CASE UNCHANGED cache
  BY <1>1 DEF CacheOK
<1>2. CASE Restarts
  BY <1>2 DEF Restarts, NsOK, CacheOK
<1>3. ASSUME NEW n \in Namespaces, SeesNamespace(n) PROVE CacheOK'
  BY <1>3 DEF SeesNamespace, NsOK, CacheOK
<1>4. CASE ~Restarts /\ ~\E n \in Namespaces : SeesNamespace(n)
  <2>1. UNCHANGED cache
    BY <1>4, Zenon DEF Kind, Quiet, SeesProject, Begins, Validates, Finishes, Vanishes, Changes, Limited, nvars
  <2> QED BY <1>1, <2>1
<1> QED BY <1>2, <1>3, <1>4, Zenon

LEMMA LocStep ==
  ASSUME CacheOK, LocOK, Kind
  PROVE  LocOK'
<1>u. ASSUME UNCHANGED <<pc, loc>> PROVE LocOK'
  BY <1>u DEF LocOK, LocalsOK
<1>s. ASSUME NEW n \in Namespaces, NEW l, NEW label, LocalsOK(l, label),
             loc' = [loc EXCEPT ![n] = l], pc' = [pc EXCEPT ![n] = label]
      PROVE  LocOK'
  <2>1. /\ loc'[n] = l /\ pc'[n] = label
        /\ \A m \in Namespaces \ {n} : loc'[m] = loc[m] /\ pc'[m] = pc[m]
    BY <1>s DEF LocOK
  <2>2. \A m \in Namespaces : LocalsOK(loc'[m], pc'[m])
    <3>1. ASSUME NEW m \in Namespaces PROVE LocalsOK(loc'[m], pc'[m])
      <4>1. CASE m = n
        BY <1>s, <2>1, <4>1, Zenon
      <4>2. CASE m # n
        BY <2>1, <4>2, Zenon DEF LocOK
      <4> QED BY <4>1, <4>2
    <3> QED BY <3>1
  <2>3. l \in LocType /\ label \in {"idle", "validate", "write"}
    BY <1>s DEF LocalsOK
  <2> QED BY <1>s, <2>2, <2>3 DEF LocOK
<1>0. LocalsOK(NoLoc, "idle")
  BY NoLocType, MissingType DEF LocalsOK
<1>1. CASE Quiet \/ SeesProject \/ (\E n \in Namespaces : SeesNamespace(n)) \/ \E q : Limited(q)
  BY <1>1, <1>u, Zenon DEF Quiet, SeesProject, SeesNamespace, Limited
<1>2. ASSUME NEW n \in Namespaces, Begins(n) PROVE LocOK'
  <2>1. PICK new, l : Starts(n, new, l)
    BY <1>2, Zenon DEF Begins
  <2> DEFINE label == IF l.op \in Granting THEN "validate" ELSE "write"
  <2>2. loc' = [loc EXCEPT ![n] = l] /\ pc' = [pc EXCEPT ![n] = label]
    BY <2>1, Zenon DEF Starts
  <2>3. l \in LocType /\ l.ns = new /\ new.there
    BY <2>1, Zenon DEF Starts
  <2>4. label \in {"validate", "write"}
    OBVIOUS
  <2>5. label = "validate" => l.limit # NoQuota /\ l.ns.quota # NoQuota
    BY <2>1, Zenon DEF Starts
  <2> HIDE DEF label
  <2>6. LocalsOK(l, label)
    BY <2>3, <2>4, <2>5 DEF LocalsOK
  <2> QED BY <1>s, <2>2, <2>6, Zenon
<1>3. ASSUME NEW n \in Namespaces, Validates(n) PROVE LocOK'
  <2>1. PICK c, l : GoesOn(n, c, l)
    BY <1>3, Zenon DEF Validates
  <2>2. loc' = [loc EXCEPT ![n] = l] /\ pc' = [pc EXCEPT ![n] = "write"]
    BY <2>1 DEF GoesOn, GoOn, Goto
  <2>3. c.there
    BY <1>3, <2>1, ConditionOK, Zenon DEF Validates, GoesOn
  <2>4. LocalsOK(l, "write")
    BY <2>1, <2>3, Zenon DEF GoesOn, LocalsOK
  <2> QED BY <1>s, <2>2, <2>4, Zenon
<1>4. ASSUME NEW n \in Namespaces, Finishes(n) PROVE LocOK'
  <2>1. loc' = [loc EXCEPT ![n] = NoLoc] /\ pc' = [pc EXCEPT ![n] = "idle"]
    BY <1>4, Zenon DEF Finishes, Returns, End, Goto
  <2> QED BY <1>0, <1>s, <2>1, Zenon
<1>5. ASSUME NEW n \in Namespaces, Vanishes(n) \/ \E new : Changes(n, new) PROVE LocOK'
  BY <1>u, <1>5, Zenon DEF Vanishes, Changes
<1>6. CASE Restarts
  BY <1>0, <1>6, Zenon DEF Restarts, LocOK, LocalsOK
<1> QED BY <1>1, <1>2, <1>3, <1>4, <1>5, <1>6, Zenon DEF Kind

LEMMA StoreStep ==
  ASSUME StoreOK, Kind, lowered' \in BOOLEAN
  PROVE  StoreOK'
<1>1. {project', pcache'} \subseteq ProjectQuotas \cup {NoQuota}
  BY Zenon DEF StoreOK, Kind, Quiet, SeesProject, Restarts, SeesNamespace, Begins, Validates, Finishes,
         Vanishes, Changes, Limited
<1>2. ASSUME NEW n \in Namespaces, Finishes(n) \/ Vanishes(n) PROVE rq' \in [Namespaces -> [QuotaIds -> Quota]]
  <2>1. NoQuota \in Quota
    BY DEF Quota
  <2>2. CASE UNCHANGED rq
    BY <2>2 DEF StoreOK
  <2>3. ASSUME NEW i \in QuotaIds, NEW q, Writes(n, i, q) PROVE rq' \in [Namespaces -> [QuotaIds -> Quota]]
    BY <2>3, Zenon DEF Writes, StoreOK
  <2>4. CASE Vanishes(n)
    BY <2>1, <2>4 DEF Vanishes, StoreOK
  <2> QED BY <1>2, <2>2, <2>3, <2>4, Zenon DEF Finishes
<1>3. rq' \in [Namespaces -> [QuotaIds -> Quota]]
  <2>1. CASE ~\E n \in Namespaces : Finishes(n) \/ Vanishes(n)
    BY <2>1, Zenon DEF StoreOK, Kind, Quiet, SeesProject, Restarts, SeesNamespace, Begins, Validates, Changes, Limited
  <2> QED BY <1>2, <2>1, Zenon
<1>4. old' \subseteq Namespaces /\ stale' \subseteq Namespaces
  <2>1. ASSUME NEW n \in Namespaces, NEW c, Store(n, c) PROVE old' \subseteq Namespaces
    BY <2>1 DEF Store, StoreOK
  <2>2. CASE Quiet \/ SeesProject \/ Restarts \/ (\E n \in Namespaces : SeesNamespace(n)) \/ \E q : Limited(q)
    BY <2>2 DEF StoreOK, Quiet, SeesProject, Restarts, SeesNamespace, Limited, nvars
  <2>3. ASSUME NEW n \in Namespaces, Begins(n) PROVE old' \subseteq Namespaces /\ stale' \subseteq Namespaces
    BY <2>1, <2>3, Zenon DEF StoreOK, Begins, Starts
  <2>4. ASSUME NEW n \in Namespaces, Validates(n) PROVE old' \subseteq Namespaces /\ stale' \subseteq Namespaces
    BY <2>1, <2>4 DEF StoreOK, Validates, GoesOn, GoOn
  <2>5. ASSUME NEW n \in Namespaces, Finishes(n) PROVE old' \subseteq Namespaces /\ stale' \subseteq Namespaces
    BY <2>1, <2>5 DEF StoreOK, Finishes, Returns, Saves, End
  <2>6. ASSUME NEW n \in Namespaces, Vanishes(n) \/ \E new : Changes(n, new)
        PROVE  old' \subseteq Namespaces /\ stale' \subseteq Namespaces
    BY <2>1, <2>6, Zenon DEF StoreOK, Vanishes, Changes, WriteBy
  <2> QED BY <2>2, <2>3, <2>4, <2>5, <2>6, Zenon DEF Kind
<1> QED BY <1>1, <1>3, <1>4 DEF StoreOK

LEMMA RestStep ==
  ASSUME TypeOK, WorkInv, [Next]_vars
  PROVE  RestOK' /\ lowered' \in BOOLEAN
<1>t. RestOK /\ lowered \in BOOLEAN /\ rq \in [Namespaces -> [QuotaIds -> Quota]]
  BY TypeParts DEF StoreOK
<1>1. CASE UNCHANGED vars
  BY <1>t, <1>1 DEF vars, pvars, rvars, wvars, uvars, RestOK
<1>2. CASE ProjectSync \/ Resync
  BY <1>t, <1>2, Zenon DEF ProjectSync, Resync, pvars, rvars, uvars, RestOK
<1>3. ASSUME NEW n \in Namespaces, SyncIdle(n) \/ NamespaceEvent(n) PROVE RestOK' /\ lowered' \in BOOLEAN
  BY <1>t, <1>3, Zenon DEF SyncIdle, NamespaceEvent, pvars, rvars, uvars, RestOK
<1>4. ASSUME NEW n \in Namespaces, NEW i \in QuotaIds, QuotaEvent(n, i) PROVE RestOK' /\ lowered' \in BOOLEAN
  <2>1. UNCHANGED <<pold, wvars, uvars>> /\ rqold' = rqold \ {<<n, i>>}
    BY <1>4 DEF QuotaEvent, pvars
  <2>2. rqcache' = [rqcache EXCEPT ![n] = [rqcache[n] EXCEPT ![i] = rq[n][i]]] /\ rq[n][i] \in Quota
    BY <1>t, <1>4 DEF QuotaEvent
  <2>3. rqcache' \in [Namespaces -> [QuotaIds -> Quota]]
    BY <1>t, <2>2 DEF RestOK
  <2> QED BY <1>t, <2>1, <2>3 DEF RestOK, wvars, uvars
<1>5. CASE ProjectEvent
  BY <1>t, <1>5, Zenon DEF ProjectEvent, rvars, uvars, RestOK
<1>6. ASSUME NEW n \in Namespaces, Sync(n) PROVE RestOK' /\ lowered' \in BOOLEAN
  <2>1. UNCHANGED <<pvars, rvars, todo, uvars>>
    BY <1>6, SyncParts, Zenon
  <2>2. queue' \subseteq queue
    <3>1. UNCHANGED queue \/ queue' = queue \ {n}
      BY <1>6, SyncParts, Zenon DEF Starts
    <3> QED BY <3>1
  <2> QED BY <1>t, <2>1, <2>2 DEF pvars, rvars, uvars, RestOK
<1>r. ASSUME NEW n \in Namespaces, Returns(n) PROVE queue' \subseteq queue \cup {n}
  BY <1>r DEF Returns, End
<1>7. ASSUME NEW n \in Namespaces, Validate(n) PROVE RestOK' /\ lowered' \in BOOLEAN
  <2>1. UNCHANGED <<pvars, rvars, todo, uvars>>
    BY <1>7, Zenon DEF Validate
  <2>2. queue' \subseteq queue \cup {n}
    <3>1. Returns(n) \/ UNCHANGED queue
      BY <1>7, ValidateParts, Zenon DEF GoesOn, GoOn
    <3> QED BY <1>r, <3>1
  <2> QED BY <1>t, <2>1, <2>2 DEF pvars, rvars, uvars, RestOK
<1>8. ASSUME NEW n \in Namespaces, Write(n) PROVE RestOK' /\ lowered' \in BOOLEAN
  <2>0. /\ loc[n].op = "create" => \E i \in QuotaIds : rq[n][i] = NoQuota
        /\ loc[n].op \in {"update", "delete"} => loc[n].id \in QuotaIds
    BY Zenon DEF WorkInv
  <2>1. /\ UNCHANGED <<pvars, rqcache, todo, uvars>> /\ Returns(n)
        /\ UNCHANGED <<rq, rqold>> \/ \E i \in QuotaIds : \E q : Writes(n, i, q)
    BY <1>8, <2>0, WriteParts, Zenon
  <2>2. rqold' \subseteq Namespaces \X QuotaIds
    BY <1>t, <2>1 DEF RestOK, Writes
  <2>3. queue' \subseteq queue \cup {n}
    BY <1>r, <2>1
  <2> QED BY <1>t, <2>1, <2>2, <2>3, Zenon DEF pvars, uvars, RestOK
<1>9. ASSUME NEW n \in Namespaces, Gone(n) PROVE RestOK' /\ lowered' \in BOOLEAN
  BY <1>t, <1>9 DEF Gone, pvars, uvars, RestOK
<1>10. ASSUME NEW n \in Namespaces, ResetNamespaceQuota(n) PROVE RestOK' /\ lowered' \in BOOLEAN
  BY <1>t, <1>10, Zenon DEF ResetNamespaceQuota, pvars, rvars, RestOK
<1>11. ASSUME NEW n \in Namespaces, DeleteNamespace(n) PROVE RestOK' /\ lowered' \in BOOLEAN
  BY <1>t, <1>11 DEF DeleteNamespace, Change, pvars, rvars, RestOK
<1>12. ASSUME NEW r \in req, WriteRequest(r) PROVE RestOK' /\ lowered' \in BOOLEAN
  <2>1. lowered' \in BOOLEAN
    BY <1>t, <1>12, Zenon DEF WriteRequest
  <2> QED BY <1>t, <1>12, <2>1 DEF WriteRequest, pvars, rvars, RestOK
<1>13. ASSUME NEW q, UpdateProject(q) PROVE RestOK' /\ lowered' \in BOOLEAN
  <2>1. lowered' \in BOOLEAN
    BY <1>13, Zenon DEF UpdateProject
  <2> QED BY <1>t, <1>13, <2>1 DEF UpdateProject, Change, rvars, RestOK
<1>14. ASSUME NEW n \in Namespaces, NEW q \in Limits \cup {NoQuota}, Requested(n, q), changes' = changes + 1,
              UNCHANGED <<pvars, nvars, rvars, wvars, lowered>>
       PROVE  RestOK' /\ lowered' \in BOOLEAN
  <2>1. [ns |-> n, quota |-> q] \in [ns : Namespaces, quota : Limits \cup {NoQuota}]
    OBVIOUS
  <2> QED BY <1>t, <1>14, <2>1 DEF Requested, pvars, rvars, wvars, RestOK
<1>15. ASSUME NEW q \in Limits \cup {NoQuota}, ValidateCreate(q) PROVE RestOK' /\ lowered' \in BOOLEAN
  <2>1. (CHOOSE n \in Unused : TRUE) \in Namespaces
    BY <1>15, Zenon DEF ValidateCreate, Unused
  <2> QED BY <1>14, <1>15, <2>1, Zenon DEF ValidateCreate, Change
<1>16. ASSUME NEW q \in Limits \cup {NoQuota}, NEW n \in Namespaces, ValidateUpdate(n, q)
       PROVE  RestOK' /\ lowered' \in BOOLEAN
  BY <1>14, <1>16, Zenon DEF ValidateUpdate, Change
<1>17. CASE Restart
  <2>1. /\ pold' = FALSE /\ rqcache' = rq /\ rqold' = {} /\ todo' = {} /\ UNCHANGED <<req, lowered>>
        /\ changes' = changes + 1
    BY <1>17, Zenon DEF Restart, Change
  <2>2. queue' \subseteq Namespaces \cup {Project}
    BY <1>17 DEF Restart
  <2>3. lowered' \in BOOLEAN /\ pold' \in BOOLEAN
    BY <1>t, <2>1, Zenon
  <2> QED BY <1>t, <2>1, <2>2, <2>3 DEF RestOK
<1> QED
  BY <1>1, <1>2, <1>3, <1>4, <1>5, <1>6, <1>7, <1>8, <1>9, <1>10, <1>11, <1>12, <1>13, <1>15, <1>16, <1>17, Zenon
  DEF Next, Running, Events, Users, Worker, ProjectWorker

\* What a worker wants to do goes on to be possible.
LEMMA WorkStep ==
  ASSUME TypeOK, WorkInv, Kind
  PROVE  WorkInv'
<1> DEFINE Local(l, label, quotas) ==
             /\ l.op \in {"update", "delete"} => l.id \in QuotaIds
             /\ l.op = "create" => \E i \in QuotaIds : quotas[i] = NoQuota
             /\ l.op \in Granting => l.limit # NoQuota
             /\ label = "validate" => l.op \in Granting
<1>t. LocOK /\ StoreOK
  BY TypeParts
<1>w. \A n \in Namespaces : Local(loc[n], pc[n], rq[n])
  BY Zenon DEF WorkInv
<1>1. \A q \in {project', pcache'} \ {NoQuota} : DOMAIN q.default = DOMAIN q.limit
  BY Zenon DEF WorkInv, Kind, Quiet, SeesProject, Restarts, SeesNamespace, Begins, Validates, Finishes,
         Vanishes, Changes, Limited, ValidProject
<1>d. ASSUME \A n \in Namespaces : Local(loc'[n], pc'[n], rq'[n]) PROVE WorkInv'
  BY <1>1, <1>d, Zenon DEF WorkInv
<1>0. \A quotas : Local(NoLoc, "idle", quotas)
  BY NoLocType DEF Granting
<1>s. ASSUME NEW n \in Namespaces, NEW l, NEW label, Local(l, label, rq'[n]),
             loc' = [loc EXCEPT ![n] = l], pc' = [pc EXCEPT ![n] = label],
             \A m \in Namespaces \ {n} : rq'[m] = rq[m]
      PROVE  WorkInv'
  <2>1. /\ loc'[n] = l /\ pc'[n] = label
        /\ \A m \in Namespaces \ {n} : loc'[m] = loc[m] /\ pc'[m] = pc[m]
    BY <1>t, <1>s, Zenon DEF LocOK
  <2> HIDE DEF Local
  <2>2. ASSUME NEW m \in Namespaces PROVE Local(loc'[m], pc'[m], rq'[m])
    <3>1. CASE m = n
      BY <1>s, <2>1, <3>1
    <3>2. CASE m # n
      <4>1. loc'[m] = loc[m] /\ pc'[m] = pc[m] /\ rq'[m] = rq[m]
        BY <1>s, <2>1, <3>2
      <4> QED BY <1>w, <4>1
    <3> QED BY <3>1, <3>2, Zenon
  <2> QED BY <1>d, <2>2
<1> HIDE DEF Local
<1>2. CASE UNCHANGED <<pc, loc, rq>>
  BY <1>2, <1>d, <1>w, Zenon
<1>3. CASE Quiet \/ SeesProject \/ (\E n \in Namespaces : SeesNamespace(n) \/ \E new : Changes(n, new)) \/ \E q : Limited(q)
  BY <1>2, <1>3, Zenon DEF Quiet, SeesProject, SeesNamespace, Changes, Limited
<1>4. CASE Restarts
  BY <1>4, <1>0, <1>d DEF Restarts
<1>5. ASSUME NEW n \in Namespaces, Begins(n) PROVE WorkInv'
  <2>1. PICK new, l : Starts(n, new, l)
    BY <1>5, Zenon DEF Begins
  <2>2. UNCHANGED rq
    BY <1>5, Zenon DEF Begins
  <2> DEFINE label == IF l.op \in Granting THEN "validate" ELSE "write"
  <2>3. Local(l, label, rq'[n])
    BY <2>1, <2>2, Zenon DEF Starts, Local
  <2>4. loc' = [loc EXCEPT ![n] = l] /\ pc' = [pc EXCEPT ![n] = label]
    BY <2>1, Zenon DEF Starts
  <2> QED BY <1>s, <2>2, <2>3, <2>4, Zenon
<1>6. ASSUME NEW n \in Namespaces, Validates(n) PROVE WorkInv'
  <2>1. PICK c, l : GoesOn(n, c, l)
    BY <1>6, Zenon DEF Validates
  <2>2. UNCHANGED rq
    BY <1>6, Zenon DEF Validates
  <2>3. loc' = [loc EXCEPT ![n] = l] /\ pc' = [pc EXCEPT ![n] = "write"]
    BY <2>1 DEF GoesOn, GoOn, Goto
  <2>4. l.op = loc[n].op /\ l.limit = loc[n].limit /\ l.id = loc[n].id
    BY <2>1, Zenon DEF GoesOn
  <2>5. Local(l, "write", rq'[n])
    BY <1>w, <2>2, <2>4, Zenon DEF Local
  <2> QED BY <1>s, <2>2, <2>3, <2>5, Zenon
<1>7. ASSUME NEW n \in Namespaces, Finishes(n) PROVE WorkInv'
  <2>1. loc' = [loc EXCEPT ![n] = NoLoc] /\ pc' = [pc EXCEPT ![n] = "idle"]
    BY <1>7, Zenon DEF Finishes, Returns, End, Goto
  <2>2. \A m \in Namespaces \ {n} : rq'[m] = rq[m]
    BY <1>t, <1>7, Zenon DEF StoreOK, Finishes, Writes
  <2> QED BY <1>0, <1>s, <2>1, <2>2, Zenon
<1>8. ASSUME NEW n \in Namespaces, Vanishes(n) PROVE WorkInv'
  <2>1. /\ rq'[n] = [i \in QuotaIds |-> NoQuota] /\ \A m \in Namespaces \ {n} : rq'[m] = rq[m]
        /\ UNCHANGED <<pc, loc>>
    BY <1>t, <1>8 DEF StoreOK, Vanishes
  <2>2. ASSUME NEW m \in Namespaces PROVE Local(loc'[m], pc'[m], rq'[m])
    <3>1. CASE m = n
      BY <1>w, <2>1, <3>1, Zenon DEF Local
    <3>2. CASE m # n
      BY <1>w, <2>1, <3>2, Zenon
    <3> QED BY <3>1, <3>2
  <2> QED BY <1>d, <2>2
<1> QED BY <1>3, <1>4, <1>5, <1>6, <1>7, <1>8, Zenon DEF Kind

\* The copies that are not old stay the namespace.
LEMMA CopyStep ==
  ASSUME TypeOK, WorkInv, CopyInv, Kind
  PROVE  CopyInv'
<1> DEFINE Copies(c, d, isOld, label, isStale, l, quotas) ==
             /\ ~isOld => d = c
             /\ label # "idle" /\ ~isStale => c = l.ns
             /\ ~c.there => \A i \in QuotaIds : quotas[i] = NoQuota
             /\ ~c.there /\ ~c.ending => c = Missing /\ d = Missing /\ label = "idle"
           Before(n) == Copies(ns[n], cache[n], n \in old, pc[n], n \in stale, loc[n], rq[n])
           After(n) == Copies(ns'[n], cache'[n], n \in old', pc'[n], n \in stale', loc'[n], rq'[n])
           Same(n) == /\ ns'[n] = ns[n] /\ cache'[n] = cache[n] /\ pc'[n] = pc[n]
                      /\ loc'[n] = loc[n] /\ rq'[n] = rq[n]
                      /\ (n \in old' <=> n \in old) /\ (n \in stale' <=> n \in stale)
<1>t. NsOK /\ CacheOK /\ LocOK /\ StoreOK
  BY TypeParts
<1>b. \A n \in Namespaces : Before(n)
  BY Zenon DEF CopyInv
<1>d. ASSUME \A n \in Namespaces : After(n) PROVE CopyInv'
  BY <1>d, Zenon DEF CopyInv
<1>e. ASSUME NEW n \in Namespaces, Same(n) PROVE After(n)
  BY <1>b, <1>e, Zenon
<1>s. ASSUME NEW n \in Namespaces, NEW c, Store(n, c)
      PROVE  /\ ns'[n] = c /\ (n \in old' <=> c # ns[n] \/ n \in old)
             /\ \A m \in Namespaces \ {n} : ns'[m] = ns[m] /\ (m \in old' <=> m \in old)
  BY <1>s, <1>t DEF Store, NsOK
<1> HIDE DEF Same, After
<1>o. ASSUME NEW n \in Namespaces, After(n), \A m \in Namespaces \ {n} : Same(m) PROVE CopyInv'
  BY <1>d, <1>e, <1>o, Zenon
<1>1. CASE Quiet \/ SeesProject \/ \E q : Limited(q)
  <2>1. UNCHANGED <<nvars, rq, pc, loc, stale>>
    BY <1>1, Zenon DEF Quiet, SeesProject, Limited
  <2>2. \A n \in Namespaces : Same(n)
    BY <2>1 DEF nvars, Same
  <2> QED BY <1>d, <1>e, <2>2, Zenon
<1>2. CASE Restarts
  <2>1. ASSUME NEW n \in Namespaces PROVE After(n)
    <3>1. /\ ns'[n] = ns[n] /\ cache'[n] = ns[n] /\ n \notin old' /\ pc'[n] = "idle" /\ rq'[n] = rq[n]
      BY <1>2 DEF Restarts
    <3>2. Before(n)
      BY <1>b, Zenon
    <3> QED BY <3>1, <3>2, Zenon DEF After
  <2> QED BY <1>d, <2>1
<1>3. ASSUME NEW n \in Namespaces, SeesNamespace(n) PROVE CopyInv'
  <2>1. /\ cache'[n] = ns[n] /\ n \notin old' /\ ns'[n] = ns[n] /\ pc'[n] = pc[n] /\ loc'[n] = loc[n]
        /\ rq'[n] = rq[n] /\ (n \in stale' <=> n \in stale)
    BY <1>3, <1>t DEF SeesNamespace, CacheOK
  <2>2. Before(n)
    BY <1>b, Zenon
  <2>3. After(n)
    BY <2>1, <2>2, Zenon DEF After
  <2>4. \A m \in Namespaces \ {n} : Same(m)
    BY <1>3, <1>t, Zenon DEF SeesNamespace, CacheOK, Same
  <2> QED BY <1>o, <2>3, <2>4
<1>4. ASSUME NEW n \in Namespaces, Begins(n) PROVE CopyInv'
  <2>1. PICK new, l : Starts(n, new, l)
    BY <1>4, Zenon DEF Begins
  <2>2. cache' = cache /\ rq' = rq /\ cache[n].there /\ new.there
    BY <1>4, <2>1, Zenon DEF Begins, Starts
  <2>3. /\ loc'[n] = l /\ l.ns = new /\ pc'[n] \in {"validate", "write"}
        /\ \A m \in Namespaces \ {n} : loc'[m] = loc[m] /\ pc'[m] = pc[m]
    BY <1>t, <2>1, Zenon DEF Starts, LocOK
  <2>4. /\ n \in stale' <=> n \in stale \/ n \in old
        /\ \A m \in Namespaces \ {n} : m \in stale' <=> m \in stale
    BY <2>1, Zenon DEF Starts
  <2>5. Before(n)
    BY <1>b, Zenon
  <2>6. CASE new = cache[n] /\ UNCHANGED <<ns, old>>
    <3>1. cache[n] # Missing
      BY <2>2, MissingType
    <3>2. After(n)
      BY <2>2, <2>3, <2>4, <2>5, <2>6, <3>1, Zenon DEF After
    <3>3. \A m \in Namespaces \ {n} : Same(m)
      BY <2>2, <2>3, <2>4, <2>6, Zenon DEF Same
    <3> QED BY <1>o, <3>2, <3>3
  <2>7. CASE n \notin old /\ Store(n, new)
    <3>1. /\ ns'[n] = new /\ (n \in old' <=> new # ns[n])
          /\ \A m \in Namespaces \ {n} : ns'[m] = ns[m] /\ (m \in old' <=> m \in old)
      BY <1>s, <2>7, Zenon
    <3>2. After(n)
      BY <2>2, <2>3, <2>4, <2>5, <2>7, <3>1, Zenon DEF After
    <3>3. \A m \in Namespaces \ {n} : Same(m)
      BY <2>2, <2>3, <2>4, <3>1, Zenon DEF Same
    <3> QED BY <1>o, <3>2, <3>3
  <2> QED BY <2>1, <2>6, <2>7, Zenon DEF Starts
<1>5. ASSUME NEW n \in Namespaces, Validates(n) PROVE CopyInv'
  <2>1. PICK c, l : GoesOn(n, c, l)
    BY <1>5, Zenon DEF Validates
  <2>2. cache' = cache /\ rq' = rq /\ stale' = stale /\ c.there /\ pc[n] = "validate"
    BY <1>5, <1>t, <2>1, ConditionOK, Zenon DEF Validates, GoesOn, GoOn
  <2>3. /\ loc'[n] = l /\ l.ns = c /\ pc'[n] = "write"
        /\ \A m \in Namespaces \ {n} : loc'[m] = loc[m] /\ pc'[m] = pc[m]
    BY <1>t, <2>1, Zenon DEF GoesOn, GoOn, Goto, LocOK
  <2>5. Before(n)
    BY <1>b, Zenon
  <2>6. CASE c = loc[n].ns /\ UNCHANGED <<ns, old>>
    <3>2. After(n)
      BY <2>2, <2>3, <2>5, <2>6, Zenon DEF After
    <3>3. \A m \in Namespaces \ {n} : Same(m)
      BY <2>2, <2>3, <2>6, Zenon DEF Same
    <3> QED BY <1>o, <3>2, <3>3
  <2>7. CASE n \notin stale /\ Store(n, c)
    <3>1. /\ ns'[n] = c /\ (n \in old' <=> c # ns[n] \/ n \in old)
          /\ \A m \in Namespaces \ {n} : ns'[m] = ns[m] /\ (m \in old' <=> m \in old)
      BY <1>s, <2>7, Zenon
    <3>2. After(n)
      BY <2>2, <2>3, <2>5, <2>7, <3>1, Zenon DEF After
    <3>3. \A m \in Namespaces \ {n} : Same(m)
      BY <2>2, <2>3, <3>1, Zenon DEF Same
    <3> QED BY <1>o, <3>2, <3>3
  <2> QED BY <2>1, <2>6, <2>7, Zenon DEF GoesOn
<1>6. ASSUME NEW n \in Namespaces, Finishes(n) PROVE CopyInv'
  <2>1. PICK b, c : End(n, b) /\ Saves(n, c) /\ Condition(n, c)
    BY <1>6, Zenon DEF Finishes, Returns
  <2>2. cache' = cache /\ c.there /\ pc[n] # "idle"
    BY <1>6, <1>t, <2>1, ConditionOK DEF Finishes
  <2>3. /\ pc'[n] = "idle"
        /\ \A m \in Namespaces \ {n} : loc'[m] = loc[m] /\ pc'[m] = pc[m] /\ (m \in stale' <=> m \in stale)
    BY <1>t, <2>1 DEF End, Goto, LocOK
  <2>4. Before(n)
    BY <1>b, Zenon
  <2>5. /\ ns[n].there \/ \A i \in QuotaIds : rq'[n][i] = NoQuota
        /\ \A m \in Namespaces \ {n} : rq'[m] = rq[m]
    <3>1. CASE UNCHANGED rq
      BY <2>4, <3>1, Zenon
    <3>2. ASSUME NEW i \in QuotaIds, NEW q, Writes(n, i, q)
          PROVE  /\ ns[n].there \/ \A j \in QuotaIds : rq'[n][j] = NoQuota
                 /\ \A m \in Namespaces \ {n} : rq'[m] = rq[m]
      <4>1. /\ rq'[n] = [rq[n] EXCEPT ![i] = q]
            /\ \A m \in Namespaces \ {n} : rq'[m] = rq[m]
        BY <1>t, <3>2, Zenon DEF Writes, StoreOK
      <4>2. ns[n].there \/ q = NoQuota
        BY <2>4, <3>2, Zenon DEF Writes
      <4>3. rq[n] \in [QuotaIds -> Quota]
        BY <1>t DEF StoreOK
      <4> QED BY <2>4, <4>1, <4>2, <4>3, Zenon
    <3> QED BY <1>6, <3>1, <3>2, Zenon DEF Finishes
  <2>6. CASE UNCHANGED <<ns, old>>
    <3>1. After(n)
      BY <2>2, <2>3, <2>4, <2>5, <2>6, Zenon DEF After
    <3>2. \A m \in Namespaces \ {n} : Same(m)
      BY <2>2, <2>3, <2>5, <2>6, Zenon DEF Same
    <3> QED BY <1>o, <3>1, <3>2
  <2>7. CASE n \notin stale /\ Store(n, c)
    <3>1. /\ ns'[n] = c /\ (n \in old' <=> c # ns[n] \/ n \in old)
          /\ \A m \in Namespaces \ {n} : ns'[m] = ns[m] /\ (m \in old' <=> m \in old)
      BY <1>s, <2>7, Zenon
    <3>2. After(n)
      BY <2>2, <2>3, <2>4, <2>7, <3>1, Zenon DEF After
    <3>3. \A m \in Namespaces \ {n} : Same(m)
      BY <2>2, <2>3, <2>5, <3>1, Zenon DEF Same
    <3> QED BY <1>o, <3>2, <3>3
  <2> QED BY <2>1, <2>6, <2>7, Zenon DEF Saves
<1>w. ASSUME NEW n \in Namespaces, NEW c, WriteBy(n, c)
      PROVE  /\ n \in stale' <=> n \in stale \/ (pc[n] # "idle" /\ c # ns[n])
             /\ \A m \in Namespaces \ {n} : m \in stale' <=> m \in stale
  BY <1>w, Zenon DEF WriteBy
<1>7. ASSUME NEW n \in Namespaces, NEW c, Changes(n, c) PROVE CopyInv'
  <2>1. /\ ns'[n] = c /\ (n \in old' <=> c # ns[n] \/ n \in old)
        /\ \A m \in Namespaces \ {n} : ns'[m] = ns[m] /\ (m \in old' <=> m \in old)
    BY <1>7, <1>s, Zenon DEF Changes, WriteBy
  <2>2. /\ n \in stale' <=> n \in stale \/ (pc[n] # "idle" /\ c # ns[n])
        /\ \A m \in Namespaces \ {n} : m \in stale' <=> m \in stale
    BY <1>7, <1>w, Zenon DEF Changes
  <2>3. /\ UNCHANGED <<cache, rq, pc, loc>>
        /\ c.there \/ (~ns[n].there /\ c.ending = ns[n].ending /\ (ns[n] = Missing => c = Missing))
    BY <1>7, Zenon DEF Changes
  <2>4. Before(n)
    BY <1>b, Zenon
  <2>5. After(n)
    BY <2>1, <2>2, <2>3, <2>4, Zenon DEF After
  <2>6. \A m \in Namespaces \ {n} : Same(m)
    BY <2>1, <2>2, <2>3, Zenon DEF Same
  <2> QED BY <1>o, <2>5, <2>6
<1>8. ASSUME NEW n \in Namespaces, Vanishes(n) PROVE CopyInv'
  <2>0. PICK c \in NamespaceType : c.ending /\ ~c.there /\ c.valid = "none" /\ WriteBy(n, c)
    BY <1>8, Zenon DEF Vanishes
  <2>1. /\ ns'[n] = c /\ (n \in old' <=> c # ns[n] \/ n \in old)
        /\ \A m \in Namespaces \ {n} : ns'[m] = ns[m] /\ (m \in old' <=> m \in old)
    BY <2>0, <1>s, Zenon DEF WriteBy
  <2>2. /\ n \in stale' <=> n \in stale \/ (pc[n] # "idle" /\ c # ns[n])
        /\ \A m \in Namespaces \ {n} : m \in stale' <=> m \in stale
    BY <2>0, <1>w, Zenon
  <2>3. UNCHANGED <<cache, pc, loc>> /\ rq' = [rq EXCEPT ![n] = [i \in QuotaIds |-> NoQuota]]
    BY <1>8, Zenon DEF Vanishes
  <2>4. /\ \A i \in QuotaIds : rq'[n][i] = NoQuota
        /\ \A m \in Namespaces \ {n} : rq'[m] = rq[m]
    BY <1>t, <2>3 DEF StoreOK
  <2>5. Before(n)
    BY <1>b, Zenon
  <2>6. After(n)
    BY <2>0, <2>1, <2>2, <2>3, <2>4, <2>5, Zenon DEF After
  <2>7. \A m \in Namespaces \ {n} : Same(m)
    BY <2>1, <2>2, <2>3, <2>4, Zenon DEF Same
  <2> QED BY <1>o, <2>6, <2>7
<1> QED BY <1>1, <1>2, <1>3, <1>4, <1>5, <1>6, <1>7, <1>8, Zenon DEF Kind

\* The inductive invariant, which is about the copies.
TypeInv == TypeOK /\ WorkInv /\ CopyInv

LEMMA TypeInit == Init => TypeInv
<1> SUFFICES ASSUME Init PROVE TypeInv
  OBVIOUS
<1>1. NsOK /\ CacheOK
  BY MissingType, Zenon DEF Init, NsOK, CacheOK
<1>2. LocOK
  BY NoLocType, MissingType, Zenon DEF Init, LocOK, LocalsOK
<1>3. StoreOK /\ RestOK
  BY Zenon DEF Init, StoreOK, RestOK, Quota
<1>4. WorkInv
  BY NoLocType DEF Init, WorkInv, ValidProject, Granting
<1>5. CopyInv
  BY Zenon DEF Init, CopyInv
<1> QED BY <1>1, <1>2, <1>3, <1>4, <1>5, TypeParts DEF TypeInv

LEMMA TypeStep == TypeInv /\ [Next]_vars => TypeInv'
<1> SUFFICES ASSUME TypeOK, WorkInv, CopyInv, [Next]_vars PROVE TypeInv'
  BY DEF TypeInv
<1>1. Kind
  BY Steps
<1>2. NsOK /\ CacheOK /\ LocOK /\ StoreOK
  BY TypeParts
<1>3. NsOK' /\ CacheOK' /\ LocOK'
  BY <1>1, <1>2, NsStep, CacheStep, LocStep
<1>4. RestOK' /\ StoreOK'
  BY <1>1, <1>2, RestStep, StoreStep
<1>5. TypeOK'
  <2>1. ASSUME NEW n \in Namespaces
        PROVE  /\ \A c \in {ns'[n], cache'[n], loc'[n].ns} : c.valid # "none" => c.there
               /\ (pc'[n] = "idle") <=> ~loc'[n].ns.there
               /\ pc'[n] = "validate" => loc'[n].limit # NoQuota /\ loc'[n].ns.quota # NoQuota
    BY <1>3, Zenon DEF NsOK, CacheOK, LocOK, LocalsOK
  <2> QED BY <1>3, <1>4, <2>1, Zenon DEF NsOK, CacheOK, LocOK, StoreOK, RestOK, TypeOK
<1> QED BY <1>1, <1>5, WorkStep, CopyStep DEF TypeInv

LEMMA TypeAlways == Behaviour => []TypeInv
  BY TypeInit, TypeStep, PTL DEF Behaviour

\* The copies of namespaces, quotas and limits are what the code takes them for.
THEOREM TypeCorrect == Behaviour => []TypeOK
<1>1. TypeInv => TypeOK
  BY DEF TypeInv
<1> QED BY <1>1, TypeAlways, PTL

-----------------------------------------------------------------------------
(* The namespaces are never allowed more than the project.  The validation *)
(* of a namespace adds what it asks for to what the cache says of the      *)
(* others.  This is a bound on what the others are allowed, since while no *)
(* limit is lowered the copies of a namespace only grow, and what a worker *)
(* allows is what the cache had when it started.                           *)

-----------------------------------------------------------------------------
(* What a namespace is granted, as its copies change.                      *)

\* What a limit that is not tighter than another allows.
LEMMA NotTighter ==
  ASSUME NEW p \in ProjectQuotas, NEW q \in ProjectQuotas, ~Tighter(q.limit, p.limit), NEW f \in DOMAIN q.limit
  PROVE  /\ f \in DOMAIN p.limit /\ p.limit[f] <= q.limit[f]
         /\ p.limit[f] \in Nat /\ q.limit[f] \in Nat
  BY ProjectParts DEF Tighter

\* Nothing is no more than any number.
LEMMA NothingIsLeast == \A f, x : x \in Nat => Get(NoQuota, f) <= x /\ Get(Zero, f) <= x
  BY ZeroQuota

\* In a namespace that is c, and d in the cache, with its worker at label with the
\* locals l, and with the ResourceQuotas q: the copies grow from what is allowed to
\* the cache's and on to the namespace.
Growing(c, d, label, l, q, f) ==
  /\ c.there => Get(d.quota, f) <= Get(c.quota, f)
  /\ \A i \in QuotaIds : Get(q[i], f) <= Get(d.quota, f)
  /\ label # "idle" /\ l.op \in Granting /\ c.there => Get(l.spec, f) <= Get(d.quota, f)
  /\ label = "validate" => /\ Get(l.spec, f) <= Get(l.ns.quota, f)
                           /\ \A i \in QuotaIds : Get(q[i], f) <= Get(l.spec, f)

\* A share g of what the project is allowed, no more than the cache says, covers the
\* ResourceQuotas and, once it is validated, the one to be written.
Granted(g, c, d, label, l, q, f) ==
  /\ g <= Get(d.quota, f)
  /\ \A i \in QuotaIds : Get(q[i], f) <= g
  /\ label = "write" /\ l.op \in Granting /\ c.there => Get(l.spec, f) <= g

\* The quotas of the copies, as numbers.
Numbers(c, d, l, q, f) ==
  /\ Get(c.quota, f) \in Nat /\ Get(d.quota, f) \in Nat
  /\ Get(l.spec, f) \in Nat /\ Get(l.ns.quota, f) \in Nat
  /\ \A i \in QuotaIds : Get(q[i], f) \in Nat

\* The copies of a namespace that there has not been yet.
LEMMA GrowsMissing ==
  ASSUME NEW l, NEW q, NEW f, \A i \in QuotaIds : q[i] = NoQuota
  PROVE  Growing(Missing, Missing, "idle", l, q, f)
<1>1. Get(NoQuota, f) <= Get(Missing.quota, f) /\ ~Missing.there
  BY ZeroQuota DEF Missing
<1> QED BY <1>1, Zenon DEF Growing

\* The copies go on to grow: when the cache gets the namespace, ...
LEMMA GrowsSeen ==
  ASSUME NEW c, NEW d, NEW a, NEW l, NEW q, NEW f, Growing(c, d, a, l, q, f), Numbers(c, d, l, q, f),
         c.there \/ \A i \in QuotaIds : q[i] = NoQuota
  PROVE  Growing(c, c, a, l, q, f)
<1>1. \A i \in QuotaIds : Get(q[i], f) <= Get(c.quota, f)
  BY ZeroQuota DEF Growing, Numbers
<1>2. c.there /\ a # "idle" /\ l.op \in Granting => Get(l.spec, f) <= Get(c.quota, f)
  BY DEF Growing, Numbers
<1>3. Get(c.quota, f) <= Get(c.quota, f)
  BY DEF Numbers
<1> QED BY <1>1, <1>2, <1>3, Zenon DEF Growing

\* ... when a worker is to validate what the cache has, ...
LEMMA GrowsBegun ==
  ASSUME NEW c, NEW d, NEW a, NEW l, NEW q, NEW f, Growing(c, d, a, l, q, f), Numbers(c, d, l, q, f),
         NEW e, e.there => Get(d.quota, f) <= Get(e.quota, f),
         NEW m, Get(m.spec, f) = Get(d.quota, f), Get(d.quota, f) <= Get(m.ns.quota, f)
  PROVE  Growing(e, d, "validate", m, q, f)
<1>1. Get(m.spec, f) <= Get(d.quota, f)
  BY DEF Numbers
<1> QED BY <1>1, Zenon DEF Growing

\* ... when it has validated, ...
LEMMA GrowsValidated ==
  ASSUME NEW c, NEW d, NEW l, NEW q, NEW f, Growing(c, d, "validate", l, q, f), Numbers(c, d, l, q, f),
         NEW e, e.there = c.there, e.quota = c.quota,
         NEW m, m.op = l.op, m.spec \in {l.spec, Zero}
  PROVE  Growing(e, d, "write", m, q, f)
<1>1. Get(Zero, f) <= Get(d.quota, f)
  BY ZeroQuota DEF Numbers
<1> QED BY <1>1, Zenon DEF Growing

\* ... when the namespace is changed and asks for no less, or is new, ...
LEMMA GrowsChanged ==
  ASSUME NEW c, NEW d, NEW a, NEW l, NEW q, NEW f, Growing(c, d, a, l, q, f), Numbers(c, d, l, q, f),
         NEW e, Get(e.quota, f) \in Nat, Get(c.quota, f) <= Get(e.quota, f),
         c.there \/ (d = Missing /\ a = "idle")
  PROVE  Growing(e, d, a, l, q, f)
<1>1. CASE c.there
  <2>1. Get(d.quota, f) <= Get(e.quota, f)
    BY <1>1 DEF Growing, Numbers
  <2> QED BY <1>1, <2>1, Zenon DEF Growing
<1>2. CASE d = Missing /\ a = "idle"
  <2>1. Get(d.quota, f) <= Get(e.quota, f)
    BY <1>2, ZeroQuota DEF Missing
  <2> QED BY <1>2, <2>1, Zenon DEF Growing
<1> QED BY <1>1, <1>2

\* ... and when it vanishes.
LEMMA GrowsVanished ==
  ASSUME NEW c, NEW d, NEW a, NEW l, NEW q, NEW f, Growing(c, d, a, l, q, f), Numbers(c, d, l, q, f),
         NEW e, ~e.there, NEW r, \A i \in QuotaIds : r[i] = NoQuota
  PROVE  Growing(e, d, a, l, r, f)
<1>1. Get(NoQuota, f) <= Get(d.quota, f) /\ Get(NoQuota, f) <= Get(l.spec, f)
  BY ZeroQuota DEF Numbers
<1> QED BY <1>1, Zenon DEF Growing

\* The share goes on to be one: when the cache gets the namespace, ...
LEMMA GrantedSeen ==
  ASSUME NEW c, NEW d, NEW a, NEW l, NEW q, NEW f, Growing(c, d, a, l, q, f), Numbers(c, d, l, q, f),
         NEW g \in Nat, Granted(g, c, d, a, l, q, f), c.there
  PROVE  Granted(g, c, c, a, l, q, f)
<1>1. g <= Get(c.quota, f)
  BY DEF Growing, Granted, Numbers
<1> QED BY <1>1, Zenon DEF Granted

\* ... if it is gone, with nothing, ...
LEMMA GrantedGone ==
  ASSUME NEW c, NEW q, NEW f, Get(c.quota, f) \in Nat, ~c.there, \A i \in QuotaIds : q[i] = NoQuota,
         NEW b, NEW m
  PROVE  Granted(0, c, c, b, m, q, f)
<1>1. 0 <= Get(c.quota, f) /\ Get(NoQuota, f) <= 0
  BY ZeroQuota
<1> QED BY <1>1, Zenon DEF Granted

\* ... when a worker is denied what it validates, ...
LEMMA GrantedDenied ==
  ASSUME NEW c, NEW d, NEW a, NEW l, NEW q, NEW f, NEW g \in Nat, Granted(g, c, d, a, l, q, f),
         NEW e, e.there = c.there, NEW m, m.spec = Zero \/ ~c.there
  PROVE  Granted(g, e, d, "write", m, q, f)
<1>1. Get(Zero, f) <= g
  BY ZeroQuota
<1> QED BY <1>1, Zenon DEF Granted

\* ... when it gets what it asks for, ...
LEMMA GrantedShare ==
  ASSUME NEW c, NEW d, NEW l, NEW q, NEW f, Growing(c, d, "validate", l, q, f), Numbers(c, d, l, q, f),
         c.there, l.op \in Granting, NEW e, NEW m, m.spec = l.spec
  PROVE  Granted(Get(l.spec, f), e, d, "write", m, q, f)
<1>1. Get(l.spec, f) <= Get(l.spec, f)
  BY DEF Numbers
<1> QED BY <1>1, Zenon DEF Growing, Granted

\* ... and when the namespace vanishes.
LEMMA GrantedVanished ==
  ASSUME NEW c, NEW d, NEW a, NEW l, NEW q, NEW f, NEW g \in Nat, Granted(g, c, d, a, l, q, f),
         NEW e, ~e.there, NEW r, \A i \in QuotaIds : r[i] = NoQuota, NEW b, NEW m
  PROVE  Granted(g, e, d, b, m, r, f)
<1>1. Get(NoQuota, f) <= g
  BY ZeroQuota
<1> QED BY <1>1, Zenon DEF Granted

-----------------------------------------------------------------------------
(* The invariants.                                                         *)

\* The worker of a namespace that is there is going to allow something.
Allows(n) == pc[n] # "idle" /\ loc[n].op \in Granting /\ ns[n].there

\* The limits that workers know are not above the project's.
Within(l) == l # NoQuota =>
  \A f \in DOMAIN project.limit : f \in DOMAIN l.limit /\ l.limit[f] <= project.limit[f]
LimitInv ==
  /\ project = NoQuota => /\ pcache = NoQuota
                          /\ \A n \in Namespaces :
                               loc[n].limit = NoQuota /\ \A i \in QuotaIds : rq[n][i] = NoQuota
  /\ project # NoQuota => Within(pcache) /\ \A n \in Namespaces : Within(loc[n].limit)

\* The fields that the project limits, or may come to limit.
Relevant == IF project = NoQuota THEN Fields ELSE DOMAIN project.limit

\* The copies of every namespace grow.
GrowInv ==
  \A n \in Namespaces, f \in Relevant : Growing(ns[n], cache[n], pc[n], loc[n], rq[n], f)

\* The namespaces can be granted shares of what the project is allowed.
Units(g, S) == UNION {{n} \X (1 .. g[n]) : n \in S}
SumInv ==
  project # NoQuota =>
    \A f \in DOMAIN project.limit : \E g \in [Namespaces -> Nat] :
      /\ \A n \in Namespaces : Granted(g[n], ns[n], cache[n], pc[n], loc[n], rq[n], f)
      /\ Cardinality(Units(g, Namespaces)) <= project.limit[f]

\* All quotas are quotas.
LEMMA QuotaTypes ==
  ASSUME TypeOK, NEW n \in Namespaces
  PROVE  /\ ns[n].quota \in Quota /\ cache[n].quota \in Quota /\ loc[n].spec \in Quota
         /\ loc[n].ns.quota \in Quota /\ \A i \in QuotaIds : rq[n][i] \in Quota
         /\ \A f : /\ Get(ns[n].quota, f) \in Nat /\ Get(cache[n].quota, f) \in Nat
                   /\ Get(loc[n].spec, f) \in Nat /\ Get(loc[n].ns.quota, f) \in Nat
                   /\ \A i \in QuotaIds : Get(rq[n][i], f) \in Nat
<1>1. /\ ns[n] \in NamespaceType /\ cache[n] \in NamespaceType /\ loc[n] \in LocType
      /\ \A i \in QuotaIds : rq[n][i] \in Quota
  BY Zenon DEF TypeOK
<1>2. loc[n].ns \in NamespaceType /\ loc[n].spec \in Quota
  BY <1>1 DEF LocType
<1>3. ns[n].quota \in Quota /\ cache[n].quota \in Quota /\ loc[n].ns.quota \in Quota
  BY <1>1, <1>2 DEF NamespaceType
<1> QED BY <1>1, <1>2, <1>3, GetType, Zenon

\* A step leaves a namespace alone.
Same(n) ==
  ns'[n] = ns[n] /\ cache'[n] = cache[n] /\ pc'[n] = pc[n] /\ loc'[n] = loc[n] /\ rq'[n] = rq[n]
Others(n) == \A m \in Namespaces \ {n} : Same(m)

\* What the kinds of steps do to their namespace.
LEMMA SeesGoes ==
  ASSUME TypeOK, NEW n \in Namespaces, SeesNamespace(n)
  PROVE  /\ Others(n) /\ cache'[n] = ns[n]
         /\ ns'[n] = ns[n] /\ pc'[n] = pc[n] /\ loc'[n] = loc[n] /\ rq'[n] = rq[n]
  BY Zenon DEF TypeOK, SeesNamespace, Others, Same

LEMMA BeginsGoes ==
  ASSUME TypeOK, CopyInv, NEW n \in Namespaces, Begins(n)
  PROVE  /\ Others(n) /\ pc[n] = "idle" /\ cache'[n] = cache[n] /\ rq'[n] = rq[n]
         /\ loc'[n].limit = pcache /\ loc'[n].spec = Asked(cache[n], pcache)
         /\ pc'[n] = IF loc'[n].op \in Granting THEN "validate" ELSE "write"
         /\ \/ ns'[n] = ns[n]
            \/ cache[n] = ns[n] /\ ns'[n] = loc'[n].ns /\ loc'[n].op \in Granting
         /\ loc'[n].op \in Granting =>
              /\ pcache # NoQuota
              /\ \A f \in DOMAIN pcache.default : Get(cache[n].quota, f) <= Get(loc'[n].ns.quota, f)
<1>1. PICK new, l : Starts(n, new, l)
  BY Zenon DEF Begins
<1>2. pc[n] = "idle" /\ UNCHANGED <<cache, rq>>
  BY DEF Begins
<1>3. /\ loc'[n] = l /\ l.ns = new /\ l.limit = pcache /\ l.spec = Asked(cache[n], pcache)
      /\ pc'[n] = IF l.op \in Granting THEN "validate" ELSE "write"
      /\ \A m \in Namespaces \ {n} : loc'[m] = loc[m] /\ pc'[m] = pc[m]
  <2>1. /\ loc' = [loc EXCEPT ![n] = l] /\ l.ns = new /\ l.limit = pcache /\ l.spec = Asked(cache[n], pcache)
        /\ pc' = [pc EXCEPT ![n] = IF l.op \in Granting THEN "validate" ELSE "write"]
    BY <1>1, Zenon DEF Starts
  <2>2. n \in DOMAIN loc /\ n \in DOMAIN pc /\ DOMAIN loc = Namespaces /\ DOMAIN pc = Namespaces
    BY Zenon DEF TypeOK
  <2> QED BY <2>1, <2>2, Zenon
<1>4. /\ \A m \in Namespaces \ {n} : ns'[m] = ns[m]
      /\ \/ ns'[n] = ns[n]
         \/ cache[n] = ns[n] /\ ns'[n] = l.ns /\ l.op \in Granting
  <2>1. CASE UNCHANGED <<ns, old>>
    BY <2>1
  <2>2. CASE n \notin old /\ Store(n, new)
    <3>1. cache[n] = ns[n]
      BY <2>2, Zenon DEF CopyInv
    <3>2. ns'[n] = new /\ \A m \in Namespaces \ {n} : ns'[m] = ns[m]
      BY <2>2, Zenon DEF Store, TypeOK
    <3>3. l.op \notin Granting => new = cache[n]
      BY <1>1, Zenon DEF Starts
    <3> QED BY <1>3, <3>1, <3>2, <3>3, Zenon
  <2> QED BY <1>1, <2>1, <2>2, Zenon DEF Starts
<1>5. l.op \in Granting =>
        /\ pcache # NoQuota
        /\ \A f \in DOMAIN pcache.default : Get(cache[n].quota, f) <= Get(l.ns.quota, f)
  BY <1>1, <1>3, Zenon DEF Starts
<1> QED BY <1>2, <1>3, <1>4, <1>5, Zenon DEF Others, Same

LEMMA ValidatesGoes ==
  ASSUME TypeOK, CopyInv, NEW n \in Namespaces, Validates(n)
  PROVE  /\ Others(n) /\ pc[n] = "validate" /\ pc'[n] = "write"
         /\ cache'[n] = cache[n] /\ rq'[n] = rq[n]
         /\ ns'[n].there = ns[n].there /\ ns'[n].quota = ns[n].quota
         /\ loc'[n].op = loc[n].op /\ loc'[n].limit = loc[n].limit
         /\ loc'[n].spec = IF Fits(n) THEN loc[n].spec ELSE Zero
<1>1. PICK c, l : GoesOn(n, c, l)
  BY Zenon DEF Validates
<1>2. pc[n] = "validate" /\ UNCHANGED <<cache, rq>>
  BY DEF Validates
<1>3. /\ loc'[n] = l /\ pc'[n] = "write"
      /\ \A m \in Namespaces \ {n} : loc'[m] = loc[m] /\ pc'[m] = pc[m]
  BY <1>1, Zenon DEF GoesOn, GoOn, Goto, TypeOK
<1>4. l.op = loc[n].op /\ l.limit = loc[n].limit /\ l.spec = IF Fits(n) THEN loc[n].spec ELSE Zero
  BY <1>1, Zenon DEF GoesOn
<1>5. /\ \A m \in Namespaces \ {n} : ns'[m] = ns[m]
      /\ ns'[n].there = ns[n].there /\ ns'[n].quota = ns[n].quota
  <2>1. CASE UNCHANGED <<ns, old>>
    BY <2>1
  <2>2. CASE n \notin stale /\ Store(n, c)
    <3>1. ns[n] = loc[n].ns
      BY <1>2, <2>2, Zenon DEF CopyInv
    <3>2. ns'[n] = c /\ \A m \in Namespaces \ {n} : ns'[m] = ns[m]
      BY <2>2, Zenon DEF Store, TypeOK
    <3>3. c.there = loc[n].ns.there /\ c.quota = loc[n].ns.quota
      BY <1>1, Zenon DEF GoesOn, Condition
    <3> QED BY <3>1, <3>2, <3>3
  <2> QED BY <1>1, <2>1, <2>2, Zenon DEF GoesOn
<1> QED BY <1>2, <1>3, <1>4, <1>5, Zenon DEF Others, Same

LEMMA FinishesGoes ==
  ASSUME TypeOK, CopyInv, NEW n \in Namespaces, Finishes(n)
  PROVE  /\ Others(n) /\ pc'[n] = "idle" /\ loc'[n] = NoLoc /\ cache'[n] = cache[n]
         /\ ns'[n].there = ns[n].there /\ ns'[n].quota = ns[n].quota
         /\ \A i \in QuotaIds : \/ rq'[n][i] = rq[n][i] \/ rq'[n][i] = NoQuota
                                \/ pc[n] = "write" /\ Allows(n) /\ rq'[n][i] = loc[n].spec
<1>1. PICK b, c : End(n, b) /\ Saves(n, c) /\ Condition(n, c)
  BY Zenon DEF Finishes, Returns
<1>2. pc[n] # "idle" /\ UNCHANGED cache
  BY DEF Finishes
<1>3. /\ loc'[n] = NoLoc /\ pc'[n] = "idle"
      /\ \A m \in Namespaces \ {n} : loc'[m] = loc[m] /\ pc'[m] = pc[m]
  BY <1>1, Zenon DEF End, Goto, TypeOK
<1>4. /\ \A m \in Namespaces \ {n} : ns'[m] = ns[m]
      /\ ns'[n].there = ns[n].there /\ ns'[n].quota = ns[n].quota
  <2>1. CASE UNCHANGED <<ns, old>>
    BY <2>1
  <2>2. CASE n \notin stale /\ Store(n, c)
    <3>1. ns[n] = loc[n].ns
      BY <1>2, <2>2, Zenon DEF CopyInv
    <3>2. ns'[n] = c /\ \A m \in Namespaces \ {n} : ns'[m] = ns[m]
      BY <2>2, Zenon DEF Store, TypeOK
    <3>3. c.there = loc[n].ns.there /\ c.quota = loc[n].ns.quota
      BY <1>1, Zenon DEF Condition
    <3> QED BY <3>1, <3>2, <3>3
  <2> QED BY <1>1, <2>1, <2>2, Zenon DEF Saves
<1>5. /\ \A m \in Namespaces \ {n} : rq'[m] = rq[m]
      /\ \A i \in QuotaIds : \/ rq'[n][i] = rq[n][i] \/ rq'[n][i] = NoQuota
                             \/ pc[n] = "write" /\ Allows(n) /\ rq'[n][i] = loc[n].spec
  <2>1. CASE UNCHANGED rq
    BY <2>1, Zenon
  <2>2. ASSUME pc[n] = "write", NEW j \in QuotaIds, NEW q, Writes(n, j, q)
        PROVE  /\ \A m \in Namespaces \ {n} : rq'[m] = rq[m]
               /\ \A i \in QuotaIds : \/ rq'[n][i] = rq[n][i] \/ rq'[n][i] = NoQuota
                                      \/ pc[n] = "write" /\ Allows(n) /\ rq'[n][i] = loc[n].spec
    <3>1. rq'[n] = [rq[n] EXCEPT ![j] = q] /\ \A m \in Namespaces \ {n} : rq'[m] = rq[m]
      BY <2>2, Zenon DEF Writes, TypeOK
    <3>2. q = NoQuota \/ (q = loc[n].spec /\ Allows(n))
      BY <1>2, <2>2, Zenon DEF Writes, Allows, CopyInv
    <3>3. rq[n] \in [QuotaIds -> Quota]
      BY Zenon DEF TypeOK
    <3> QED BY <2>2, <3>1, <3>2, <3>3
  <2> QED BY <2>1, <2>2, Zenon DEF Finishes
<1> QED BY <1>2, <1>3, <1>4, <1>5, Zenon DEF Others, Same

LEMMA ChangesGoes ==
  ASSUME TypeOK, CopyInv, NEW n \in Namespaces, NEW c, Changes(n, c), ~lowered'
  PROVE  /\ Others(n)
         /\ cache'[n] = cache[n] /\ pc'[n] = pc[n] /\ loc'[n] = loc[n] /\ rq'[n] = rq[n]
         /\ \A f \in Fields : Get(ns[n].quota, f) <= Get(ns'[n].quota, f)
         /\ ns[n].there \/ (cache[n] = Missing /\ pc[n] = "idle")
<1>1. /\ ns'[n] = c /\ \A m \in Namespaces \ {n} : ns'[m] = ns[m]
      /\ UNCHANGED <<cache, rq, pc, loc>>
  BY Zenon DEF Changes, WriteBy, Store, TypeOK
<1>2. /\ \A f \in Fields : Get(ns[n].quota, f) <= Get(c.quota, f)
      /\ ns[n].there \/ ns[n] = Missing
  BY Zenon DEF Changes
<1>3. ns[n].there \/ (cache[n] = Missing /\ pc[n] = "idle")
  BY <1>2, MissingType, Zenon DEF CopyInv
<1> QED BY <1>1, <1>2, <1>3, Zenon DEF Others, Same

LEMMA VanishesGoes ==
  ASSUME TypeOK, NEW n \in Namespaces, Vanishes(n)
  PROVE  /\ Others(n) /\ cache'[n] = cache[n] /\ pc'[n] = pc[n] /\ loc'[n] = loc[n]
         /\ ~ns'[n].there /\ \A i \in QuotaIds : rq'[n][i] = NoQuota
<1>1. ~ns'[n].there /\ \A m \in Namespaces \ {n} : ns'[m] = ns[m]
  BY Zenon DEF Vanishes, WriteBy, Store, TypeOK
<1>2. /\ UNCHANGED <<cache, pc, loc>> /\ \A i \in QuotaIds : rq'[n][i] = NoQuota
      /\ \A m \in Namespaces \ {n} : rq'[m] = rq[m]
  BY Zenon DEF Vanishes, TypeOK
<1> QED BY <1>1, <1>2, Zenon DEF Others, Same

\* A limit that has been lowered stays so.
LEMMA NotRaised ==
  ASSUME Kind, ~lowered'
  PROVE  ~lowered
<1>1. ASSUME NEW n \in Namespaces, NEW new, Changes(n, new) PROVE ~lowered
  BY <1>1, Zenon DEF Changes
<1>2. ASSUME NEW q, Limited(q) PROVE ~lowered
  BY <1>2, Zenon DEF Limited
<1>3. CASE UNCHANGED lowered
  BY <1>3
<1>4. CASE Quiet \/ SeesProject \/ Restarts
           \/ \E n \in Namespaces : SeesNamespace(n) \/ Begins(n) \/ Validates(n) \/ Finishes(n) \/ Vanishes(n)
  BY <1>3, <1>4, Zenon DEF Quiet, SeesProject, Restarts, SeesNamespace, Begins, Validates, Finishes, Vanishes
<1> QED BY <1>1, <1>2, <1>4, Zenon DEF Kind

\* The project's limits grow, and so do those that are known.
LEMMA LimitStep ==
  ASSUME TypeOK, WorkInv, CopyInv, LimitInv, Kind, ~lowered'
  PROVE  LimitInv'
<1> DEFINE Local(n) == /\ loc'[n].limit \in {loc[n].limit, pcache, NoQuota}
                       /\ project = NoQuota => \A i \in QuotaIds : rq'[n][i] = NoQuota
<1>a. ASSUME UNCHANGED project, pcache' \in {pcache, project}, \A n \in Namespaces : Local(n) PROVE LimitInv'
  <2>1. CASE project = NoQuota
    BY <1>a, <2>1, Zenon DEF LimitInv
  <2>2. CASE project # NoQuota
    <3>0. Within(project) /\ Within(NoQuota)
      BY <2>2, ProjectParts, Order, Zenon DEF TypeOK, Within
    <3>1. Within(pcache) /\ Within(pcache') /\ \A n \in Namespaces : Within(loc'[n].limit)
      BY <1>a, <2>2, <3>0, Zenon DEF LimitInv
    <3> QED BY <1>a, <2>2, <3>1, Zenon DEF LimitInv, Within
  <2> QED BY <2>1, <2>2
<1>s. \A n \in Namespaces : Same(n) => Local(n)
  BY DEF Same, LimitInv
<1> HIDE DEF Local
<1>o. ASSUME UNCHANGED <<project, pcache>>, NEW n \in Namespaces, Others(n), Local(n) PROVE LimitInv'
  BY <1>a, <1>o, <1>s DEF Others
<1>1. CASE Quiet \/ SeesProject
  <2>1. UNCHANGED <<project, nvars, rq, pc, loc>> /\ pcache' \in {pcache, project}
    BY <1>1 DEF Quiet, SeesProject
  <2>2. \A n \in Namespaces : Same(n)
    BY <2>1 DEF nvars, Same
  <2> QED BY <1>a, <1>s, <2>1, <2>2, Zenon
<1>2. CASE Restarts
  <2>1. \A n \in Namespaces : loc'[n] = NoLoc /\ rq'[n] = rq[n]
    BY <1>2 DEF Restarts
  <2>2. \A n \in Namespaces : Local(n)
    BY <2>1, NoLocType, Zenon DEF Local, LimitInv
  <2> QED BY <1>a, <1>2, <2>2 DEF Restarts
<1>3. ASSUME NEW n \in Namespaces, SeesNamespace(n) PROVE LimitInv'
  <2>1. UNCHANGED <<project, pcache>>
    BY <1>3 DEF SeesNamespace
  <2> QED BY <1>3, <1>o, <2>1, SeesGoes DEF Local, LimitInv
<1>4. ASSUME NEW n \in Namespaces, Begins(n) PROVE LimitInv'
  <2>1. UNCHANGED <<project, pcache>>
    BY <1>4, Zenon DEF Begins
  <2>2. Others(n) /\ loc'[n].limit = pcache /\ rq'[n] = rq[n]
    BY <1>4, BeginsGoes, Zenon
  <2> QED BY <1>o, <2>1, <2>2, Zenon DEF Local, LimitInv
<1>5. ASSUME NEW n \in Namespaces, Validates(n) PROVE LimitInv'
  <2>1. UNCHANGED <<project, pcache>>
    BY <1>5, Zenon DEF Validates
  <2>2. Others(n) /\ loc'[n].limit = loc[n].limit /\ rq'[n] = rq[n]
    BY <1>5, ValidatesGoes, Zenon
  <2> QED BY <1>o, <2>1, <2>2, Zenon DEF Local, LimitInv
<1>6. ASSUME NEW n \in Namespaces, Finishes(n) PROVE LimitInv'
  <2>1. UNCHANGED <<project, pcache>>
    BY <1>6, Zenon DEF Finishes
  <2>2. /\ Others(n) /\ loc'[n] = NoLoc
        /\ \A i \in QuotaIds : \/ rq'[n][i] = rq[n][i] \/ rq'[n][i] = NoQuota
                               \/ Allows(n) /\ rq'[n][i] = loc[n].spec
    BY <1>6, FinishesGoes, Zenon
  <2>3. Allows(n) => project # NoQuota
    BY Zenon DEF Allows, WorkInv, LimitInv
  <2>4. Local(n)
    BY <2>2, <2>3, NoLocType, Zenon DEF Local, LimitInv
  <2> QED BY <1>o, <2>1, <2>2, <2>4, Zenon
<1>7. ASSUME NEW n \in Namespaces, NEW new, Changes(n, new) PROVE LimitInv'
  <2>1. UNCHANGED <<project, pcache>>
    BY <1>7, Zenon DEF Changes
  <2>2. Others(n) /\ loc'[n] = loc[n] /\ rq'[n] = rq[n]
    BY <1>7, ChangesGoes, Zenon
  <2> QED BY <1>o, <2>1, <2>2, Zenon DEF Local, LimitInv
<1>8. ASSUME NEW n \in Namespaces, Vanishes(n) PROVE LimitInv'
  <2>1. UNCHANGED <<project, pcache>>
    BY <1>8, Zenon DEF Vanishes
  <2>2. Others(n) /\ loc'[n] = loc[n] /\ \A i \in QuotaIds : rq'[n][i] = NoQuota
    BY <1>8, VanishesGoes, Zenon
  <2> QED BY <1>o, <2>1, <2>2, Zenon DEF Local
<1>9. ASSUME NEW q, Limited(q) PROVE LimitInv'
  <2>1. /\ project' = q /\ q # NoQuota /\ q \in ProjectQuotas /\ pcache' = pcache /\ loc' = loc
        /\ project = NoQuota \/ ~Tighter(q.limit, project.limit)
    BY <1>9, Zenon DEF Limited
  <2>2. CASE project = NoQuota
    BY <2>1, <2>2, Zenon DEF LimitInv, Within
  <2>3. CASE project # NoQuota
    <3>1. \A f \in DOMAIN q.limit : /\ f \in DOMAIN project.limit /\ project.limit[f] <= q.limit[f]
                                    /\ project.limit[f] \in Nat /\ q.limit[f] \in Nat
      BY <2>1, <2>3, NotTighter, Zenon DEF TypeOK
    <3>2. ASSUME NEW l \in ProjectQuotas \cup {NoQuota}, Within(l), l # NoQuota, NEW f \in DOMAIN q.limit
          PROVE  f \in DOMAIN l.limit /\ l.limit[f] <= q.limit[f]
      <4>1. f \in DOMAIN l.limit /\ l.limit[f] <= project.limit[f]
        BY <3>1, <3>2, Zenon DEF Within
      <4>2. l.limit[f] \in Nat
        BY <3>2, <4>1, ProjectParts, Zenon
      <4> QED BY <3>1, <4>1, <4>2, Order, Zenon
    <3>3. pcache \in ProjectQuotas \cup {NoQuota} /\ \A n \in Namespaces : loc[n].limit \in ProjectQuotas \cup {NoQuota}
      BY Zenon DEF TypeOK, LocType
    <3>4. Within(pcache) /\ \A n \in Namespaces : Within(loc[n].limit)
      BY <2>3 DEF LimitInv
    <3> QED BY <2>1, <3>2, <3>3, <3>4, Zenon DEF LimitInv, Within
  <2> QED BY <2>2, <2>3
<1> QED BY <1>1, <1>2, <1>3, <1>4, <1>5, <1>6, <1>7, <1>8, <1>9, Zenon DEF Kind

\* The fields that matter are fields, and become fewer.
LEMMA RelevantStep ==
  ASSUME TypeOK, Kind, ~lowered'
  PROVE  Relevant \subseteq Fields /\ Relevant' \subseteq Relevant
<1>1. ASSUME NEW p \in ProjectQuotas PROVE DOMAIN p.limit \subseteq Fields
  BY ProjectParts
<1>2. Relevant \subseteq Fields
  BY <1>1, Zenon DEF Relevant, TypeOK
<1>3. ASSUME NEW q, Limited(q) PROVE Relevant' \subseteq Relevant
  <2>1. /\ project' = q /\ q # NoQuota /\ q \in ProjectQuotas
        /\ project = NoQuota \/ ~Tighter(q.limit, project.limit)
    BY <1>3, Zenon DEF Limited
  <2> QED BY <1>1, <2>1 DEF Relevant, Tighter
<1>4. CASE ~\E q : Limited(q)
  <2>1. UNCHANGED project
    BY <1>4, Zenon DEF Kind, Quiet, SeesProject, Restarts, SeesNamespace, Begins, Validates, Finishes, Vanishes, Changes
  <2>2. Relevant' = Relevant
    BY <2>1, Zenon DEF Relevant
  <2> QED BY <1>2, <2>2
<1> QED BY <1>2, <1>3, <1>4

\* The copies of a namespace go on to grow.
LEMMA GrowStep ==
  ASSUME TypeOK, WorkInv, CopyInv, LimitInv, GrowInv, Kind, ~lowered'
  PROVE  GrowInv'
<1> SUFFICES ASSUME NEW f \in Relevant
             PROVE  \A n \in Namespaces : Growing(ns'[n], cache'[n], pc'[n], loc'[n], rq'[n], f)
  BY RelevantStep, Zenon DEF GrowInv
<1> DEFINE Before(n) == Growing(ns[n], cache[n], pc[n], loc[n], rq[n], f)
           After(n) == Growing(ns'[n], cache'[n], pc'[n], loc'[n], rq'[n], f)
<1>f. f \in Fields
  BY RelevantStep
<1>b. ASSUME NEW n \in Namespaces PROVE Before(n)
  BY Zenon DEF GrowInv
<1>n. ASSUME NEW n \in Namespaces PROVE Numbers(ns[n], cache[n], loc[n], rq[n], f)
  BY QuotaTypes, Zenon DEF Numbers
<1>c. ASSUME NEW n \in Namespaces PROVE ns[n].there \/ \A i \in QuotaIds : rq[n][i] = NoQuota
  BY Zenon DEF CopyInv
<1>e. ASSUME NEW n \in Namespaces, Same(n) PROVE After(n)
  BY <1>b, <1>e, Zenon DEF Same
<1> HIDE DEF Before, After
<1>o. ASSUME NEW n \in Namespaces, Others(n), After(n) PROVE \A m \in Namespaces : After(m)
  BY <1>e, <1>o DEF Others
<1>1. CASE Quiet \/ SeesProject \/ \E q : Limited(q)
  <2>1. UNCHANGED <<nvars, rq, pc, loc>>
    BY <1>1, Zenon DEF Quiet, SeesProject, Limited
  <2>2. \A n \in Namespaces : Same(n)
    BY <2>1 DEF nvars, Same
  <2> QED BY <1>e, <2>2, Zenon DEF After
\* The cache gets the namespace.
<1>g. ASSUME NEW n \in Namespaces,
             ns'[n] = ns[n], cache'[n] = ns[n], rq'[n] = rq[n],
             pc'[n] = "idle" \/ (pc'[n] = pc[n] /\ loc'[n] = loc[n])
      PROVE  After(n)
  <2>1. Growing(ns[n], ns[n], pc[n], loc[n], rq[n], f)
    BY <1>b, <1>n, <1>c, GrowsSeen, Zenon DEF Before
  <2>2. CASE pc'[n] = pc[n] /\ loc'[n] = loc[n]
    BY <1>g, <2>1, <2>2, Zenon DEF After
  <2>3. CASE pc'[n] = "idle"
    BY <1>g, <2>1, <2>3, Zenon DEF After, Growing
  <2> QED BY <1>g, <2>2, <2>3, Zenon
<1>2. CASE Restarts
  <2>1. \A n \in Namespaces : ns'[n] = ns[n] /\ cache'[n] = ns[n] /\ rq'[n] = rq[n] /\ pc'[n] = "idle"
    BY <1>2, Zenon DEF Restarts
  <2> QED BY <1>g, <2>1, Zenon DEF After
<1>3. ASSUME NEW n \in Namespaces, SeesNamespace(n) PROVE \A m \in Namespaces : After(m)
  BY <1>3, <1>g, <1>o, SeesGoes, Zenon
<1>4. ASSUME NEW n \in Namespaces, Begins(n) PROVE \A m \in Namespaces : After(m)
  <2>1. /\ Others(n) /\ pc[n] = "idle" /\ cache'[n] = cache[n] /\ rq'[n] = rq[n]
        /\ loc'[n].spec = Asked(cache[n], pcache)
        /\ pc'[n] = IF loc'[n].op \in Granting THEN "validate" ELSE "write"
        /\ \/ ns'[n] = ns[n]
           \/ cache[n] = ns[n] /\ ns'[n] = loc'[n].ns /\ loc'[n].op \in Granting
        /\ loc'[n].op \in Granting =>
             /\ pcache # NoQuota
             /\ \A h \in DOMAIN pcache.default : Get(cache[n].quota, h) <= Get(loc'[n].ns.quota, h)
    BY <1>4, BeginsGoes, Zenon
  <2>2. CASE loc'[n].op \notin Granting
    BY <1>b, <1>o, <2>1, <2>2, Zenon DEF Growing, Before, After
  <2>3. CASE loc'[n].op \in Granting
    <3>1. f \in DOMAIN pcache.default
      <4>1. project # NoQuota
        BY <2>1, <2>3, Zenon DEF LimitInv
      <4>2. f \in DOMAIN pcache.limit
        BY <2>1, <2>3, <4>1, Zenon DEF LimitInv, Within, Relevant
      <4> QED BY <2>1, <2>3, <4>2, Zenon DEF WorkInv
    <3>2. Get(cache[n].quota, f) <= Get(loc'[n].ns.quota, f)
      BY <2>1, <2>3, <3>1, Zenon
    <3>3. Get(loc'[n].spec, f) = Get(cache[n].quota, f)
      <4>1. cache[n] \in NamespaceType /\ pcache \in ProjectQuotas \cup {NoQuota}
        BY Zenon DEF TypeOK
      <4> QED BY <2>1, <2>3, <4>1, Asks, Zenon
    <3>4. ns'[n].there => Get(cache[n].quota, f) <= Get(ns'[n].quota, f)
      BY <1>b, <2>1, <3>2, Zenon DEF Growing, Before
    <3>5. After(n)
      <4>1. Growing(ns'[n], cache[n], "validate", loc'[n], rq[n], f)
        BY <1>b, <1>n, <3>2, <3>3, <3>4, GrowsBegun, Zenon DEF Before
      <4> QED BY <2>1, <2>3, <4>1, Zenon DEF After
    <3> QED BY <1>o, <2>1, <3>5, Zenon
  <2> QED BY <2>2, <2>3
<1>5. ASSUME NEW n \in Namespaces, Validates(n) PROVE \A m \in Namespaces : After(m)
  <2>1. /\ Others(n) /\ pc[n] = "validate" /\ pc'[n] = "write"
        /\ cache'[n] = cache[n] /\ rq'[n] = rq[n]
        /\ ns'[n].there = ns[n].there /\ ns'[n].quota = ns[n].quota
        /\ loc'[n].op = loc[n].op /\ loc'[n].spec \in {loc[n].spec, Zero}
    BY <1>5, ValidatesGoes, Zenon
  <2>2. Growing(ns'[n], cache[n], "write", loc'[n], rq[n], f)
    BY <1>b, <1>n, <2>1, GrowsValidated, Zenon DEF Before
  <2>3. After(n)
    BY <2>1, <2>2, Zenon DEF After
  <2> QED BY <1>o, <2>1, <2>3, Zenon
<1>6. ASSUME NEW n \in Namespaces, Finishes(n) PROVE \A m \in Namespaces : After(m)
  <2>1. /\ Others(n) /\ pc'[n] = "idle" /\ cache'[n] = cache[n]
        /\ ns'[n].there = ns[n].there /\ ns'[n].quota = ns[n].quota
        /\ \A i \in QuotaIds : \/ rq'[n][i] = rq[n][i] \/ rq'[n][i] = NoQuota
                               \/ Allows(n) /\ rq'[n][i] = loc[n].spec
    BY <1>6, FinishesGoes, Zenon
  <2>2. \A i \in QuotaIds : Get(rq'[n][i], f) <= Get(cache[n].quota, f)
    <3>1. Get(NoQuota, f) <= Get(cache[n].quota, f)
      BY <1>n, NothingIsLeast, Zenon DEF Numbers
    <3> QED BY <1>b, <2>1, <3>1, Zenon DEF Before, Growing, Allows
  <2>3. After(n)
    BY <1>b, <2>1, <2>2, Zenon DEF Before, After, Growing
  <2> QED BY <1>o, <2>1, <2>3, Zenon
<1>7. ASSUME NEW n \in Namespaces, NEW new, Changes(n, new) PROVE \A m \in Namespaces : After(m)
  <2>1. /\ Others(n)
        /\ cache'[n] = cache[n] /\ pc'[n] = pc[n] /\ loc'[n] = loc[n] /\ rq'[n] = rq[n]
        /\ Get(ns[n].quota, f) <= Get(ns'[n].quota, f)
        /\ ns[n].there \/ (cache[n] = Missing /\ pc[n] = "idle")
    BY <1>7, <1>f, ChangesGoes, Zenon
  <2>2. Get(ns'[n].quota, f) \in Nat
    <3>1. ns'[n] \in NamespaceType
      BY <1>7, Zenon DEF Changes, WriteBy, Store, TypeOK
    <3> QED BY <3>1, GetType, Zenon DEF NamespaceType
  <2>3. Growing(ns'[n], cache[n], pc[n], loc[n], rq[n], f)
    BY <1>b, <1>n, <2>1, <2>2, GrowsChanged, Zenon DEF Before
  <2>4. After(n)
    BY <2>1, <2>3, Zenon DEF After
  <2> QED BY <1>o, <2>1, <2>4, Zenon
<1>8. ASSUME NEW n \in Namespaces, Vanishes(n) PROVE \A m \in Namespaces : After(m)
  <2>1. /\ Others(n) /\ cache'[n] = cache[n] /\ pc'[n] = pc[n] /\ loc'[n] = loc[n]
        /\ ~ns'[n].there /\ \A i \in QuotaIds : rq'[n][i] = NoQuota
    BY <1>8, VanishesGoes, Zenon
  <2>2. Growing(ns'[n], cache[n], pc[n], loc[n], rq'[n], f)
    BY <1>b, <1>n, <2>1, GrowsVanished, Zenon DEF Before
  <2>3. After(n)
    BY <2>1, <2>2, Zenon DEF After
  <2> QED BY <1>o, <2>1, <2>3, Zenon
<1> QED BY <1>1, <1>2, <1>3, <1>4, <1>5, <1>6, <1>7, <1>8, Zenon DEF Kind, After

-----------------------------------------------------------------------------
(* Shares.                                                                 *)

\* The units of shares, as a set, are finitely many, and fewer if the shares are smaller; ...
LEMMA UnitsFewer ==
  ASSUME NEW S, IsFiniteSet(S), NEW g \in [S -> Nat], NEW h \in [S -> Nat], \A n \in S : h[n] <= g[n]
  PROVE  /\ IsFiniteSet(Units(g, S)) /\ Cardinality(Units(g, S)) \in Nat
         /\ Cardinality(Units(h, S)) \in Nat
         /\ Cardinality(Units(h, S)) <= Cardinality(Units(g, S))
<1> DEFINE F(k) == {{n} \X (1 .. k[n]) : n \in S}
<1>1. ASSUME NEW k \in [S -> Nat] PROVE IsFiniteSet(Units(k, S))
  <2> DEFINE T == F(k)
             e == [n \in S |-> {n} \X (1 .. k[n])]
  <2>1. e \in Surjection(S, T)
    BY Zenon DEF Surjection
  <2>2. IsFiniteSet(T)
    BY <2>1, FS_Surjection, Zenon
  <2>3. ASSUME NEW U \in T PROVE IsFiniteSet(U)
    <3>1. PICK n \in S : U = {n} \X (1 .. k[n])
      OBVIOUS
    <3>2. k[n] \in Int /\ 1 \in Int
      BY <1>1
    <3>3. IsFiniteSet({n})
      BY FS_Singleton, Zenon
    <3>4. IsFiniteSet(1 .. k[n])
      BY <3>2, FS_Interval
    <3> QED BY <3>1, <3>3, <3>4, FS_Product, Zenon
  <2> HIDE DEF T
  <2>4. IsFiniteSet(UNION T)
    BY <2>2, <2>3, FS_UNION
  <2> QED BY <2>4, Zenon DEF T, Units
<1>2. Units(h, S) \subseteq Units(g, S)
  BY DEF Units
<1> QED BY <1>1, <1>2, FS_Subset, FS_CardinalityType, Zenon

\* ... and the units of one namespace are its share.
LEMMA UnitsSplit ==
  ASSUME NEW S, IsFiniteSet(S), NEW g \in [S -> Nat], NEW n \in S
  PROVE  Cardinality(Units(g, S)) = g[n] + Cardinality(Units(g, S \ {n}))
<1> DEFINE A == {n} \X (1 .. g[n])
           B == Units(g, S \ {n})
<1>1. Units(g, S) = A \cup B
  BY DEF Units
<1>2. A \cap B = {}
  BY DEF Units
<1>3. IsFiniteSet(A) /\ Cardinality(A) = g[n]
  <2>1. IsFiniteSet({n}) /\ Cardinality({n}) = 1
    BY FS_Singleton, Zenon
  <2>2. IsFiniteSet(1 .. g[n]) /\ Cardinality(1 .. g[n]) = g[n]
    BY FS_Interval
  <2>3. IsFiniteSet(A) /\ Cardinality(A) = Cardinality({n}) * Cardinality(1 .. g[n])
    BY <2>1, <2>2, FS_Product, Zenon
  <2> QED BY <2>1, <2>2, <2>3
<1>4. IsFiniteSet(Units(g, S))
  BY UnitsFewer
<1>5. IsFiniteSet(B)
  BY <1>1, <1>4, FS_Subset, Zenon
<1> HIDE DEF A, B
<1>6. Cardinality(A \cup B) = Cardinality(A) + Cardinality(B) - Cardinality(A \cap B)
  BY <1>3, <1>5, FS_Union, Zenon
<1>7. Cardinality(A \cap B) = 0 /\ Cardinality(B) \in Nat
  BY <1>2, <1>5, FS_EmptySet, FS_CardinalityType, Zenon
<1> QED BY <1>1, <1>3, <1>6, <1>7 DEF B

\* What the cache says of the namespaces.
Cached(f) == [n \in Namespaces |-> Get(cache[n].quota, f)]

\* What validation compares.
LEMMA FitsMeans ==
  ASSUME NEW n \in Namespaces, Fits(n), NEW f \in DOMAIN loc[n].limit.limit
  PROVE  Get(loc[n].ns.quota, f) + Cardinality(Units(Cached(f), Namespaces \ {n})) <= loc[n].limit.limit[f]
<1> DEFINE others == UNION {{m} \X (1 .. Get(cache[m].quota, f)) : m \in Namespaces \ {n}}
<1>1. Get(loc[n].ns.quota, f) + Cardinality(others) <= loc[n].limit.limit[f]
  BY Zenon DEF Fits, IsQuotaFit, Total
<1>2. others = Units(Cached(f), Namespaces \ {n})
  BY Zenon DEF Units, Cached
<1> QED BY <1>1, <1>2, Zenon

\* A validated namespace gets the share it asks for.
LEMMA ShareFits ==
  ASSUME TypeOK, WorkInv, LimitInv, GrowInv, project # NoQuota, NEW f \in DOMAIN project.limit,
         NEW n \in Namespaces, pc[n] = "validate", Fits(n),
         NEW g \in [Namespaces -> Nat], \A m \in Namespaces : g[m] <= Get(cache[m].quota, f)
  PROVE  LET h == [g EXCEPT ![n] = Get(loc[n].spec, f)]
         IN  h \in [Namespaces -> Nat] /\ Cardinality(Units(h, Namespaces)) <= project.limit[f]
<1> DEFINE h == [g EXCEPT ![n] = Get(loc[n].spec, f)]
           S == Namespaces \ {n}
<1>0. IsFiniteSet(Namespaces) /\ IsFiniteSet(S)
  BY NamesAssumption, FS_Subset, Zenon
<1>1. Get(loc[n].spec, f) \in Nat /\ Get(loc[n].ns.quota, f) \in Nat
  BY QuotaTypes, Zenon
<1>2. h \in [Namespaces -> Nat] /\ h[n] = Get(loc[n].spec, f) /\ \A m \in S : h[m] = g[m]
  BY <1>1, Zenon
<1> HIDE DEF h
<1>3. Cardinality(Units(h, Namespaces)) = h[n] + Cardinality(Units(h, S))
  BY <1>0, <1>2, UnitsSplit, Zenon
<1>4. Cardinality(Units(h, S)) <= Cardinality(Units(Cached(f), S))
      /\ Cardinality(Units(h, S)) \in Nat /\ Cardinality(Units(Cached(f), S)) \in Nat
  <2> DEFINE a == [m \in S |-> h[m]]
             b == [m \in S |-> Get(cache[m].quota, f)]
  <2>1. a \in [S -> Nat] /\ b \in [S -> Nat] /\ \A m \in S : a[m] <= b[m]
    BY <1>2, QuotaTypes, Zenon
  <2>2. Units(h, S) = Units(a, S) /\ Units(Cached(f), S) = Units(b, S)
    BY Zenon DEF Units, Cached
  <2> HIDE DEF a, b
  <2> QED BY <1>0, <2>1, <2>2, UnitsFewer, Zenon
<1>5. Get(loc[n].spec, f) <= Get(loc[n].ns.quota, f)
  BY Zenon DEF GrowInv, Growing, Relevant
<1>6. /\ f \in DOMAIN loc[n].limit.limit /\ loc[n].limit.limit[f] <= project.limit[f]
      /\ loc[n].limit.limit[f] \in Nat /\ project.limit[f] \in Nat
  <2>1. loc[n].limit # NoQuota /\ loc[n].limit \in ProjectQuotas \cup {NoQuota}
    BY Zenon DEF TypeOK, LocType
  <2>2. f \in DOMAIN loc[n].limit.limit /\ loc[n].limit.limit[f] <= project.limit[f]
    BY <2>1, Zenon DEF LimitInv, Within
  <2>3. project \in ProjectQuotas /\ loc[n].limit \in ProjectQuotas
    BY <2>1, Zenon DEF TypeOK
  <2> QED BY <2>2, <2>3, ProjectParts, Zenon
<1>7. Get(loc[n].ns.quota, f) + Cardinality(Units(Cached(f), S)) <= loc[n].limit.limit[f]
  BY <1>6, FitsMeans, Zenon
<1>8. Cardinality(Units(h, Namespaces)) <= project.limit[f]
  <2> DEFINE x == h[n]
             y == Cardinality(Units(h, S))
             v == Get(loc[n].ns.quota, f)
             w == Cardinality(Units(Cached(f), S))
             l == loc[n].limit.limit[f]
             p == project.limit[f]
  <2>1. /\ x \in Nat /\ y \in Nat /\ v \in Nat /\ w \in Nat /\ l \in Nat /\ p \in Nat
        /\ x <= v /\ y <= w /\ v + w <= l /\ l <= p
    BY <1>1, <1>2, <1>4, <1>5, <1>6, <1>7, Zenon
  <2> HIDE DEF x, y, v, w, l, p
  <2>2. x + y <= p
    BY <2>1
  <2> QED BY <1>3, <2>2, Zenon DEF x, y, p
<1> QED BY <1>2, <1>8, Zenon DEF h

\* There go on to be shares.
LEMMA SumStep ==
  ASSUME TypeOK, WorkInv, CopyInv, LimitInv, GrowInv, SumInv, Kind, ~lowered'
  PROVE  SumInv'
<1> SUFFICES ASSUME project' # NoQuota, NEW f \in DOMAIN project'.limit
             PROVE  \E g \in [Namespaces -> Nat] :
                      /\ \A n \in Namespaces : Granted(g[n], ns'[n], cache'[n], pc'[n], loc'[n], rq'[n], f)
                      /\ Cardinality(Units(g, Namespaces)) <= project'.limit[f]
  BY Zenon DEF SumInv
<1> DEFINE Before(g, n) == Granted(g, ns[n], cache[n], pc[n], loc[n], rq[n], f)
           After(g, n) == Granted(g, ns'[n], cache'[n], pc'[n], loc'[n], rq'[n], f)
           Goal == \E g \in [Namespaces -> Nat] :
                     /\ \A n \in Namespaces : After(g[n], n)
                     /\ Cardinality(Units(g, Namespaces)) <= project'.limit[f]
<1>n. ASSUME NEW n \in Namespaces PROVE Numbers(ns[n], cache[n], loc[n], rq[n], f)
  BY QuotaTypes, Zenon DEF Numbers
<1>c. ASSUME NEW n \in Namespaces, ~ns[n].there PROVE \A i \in QuotaIds : rq[n][i] = NoQuota
  BY <1>c, Zenon DEF CopyInv
<1>e. ASSUME NEW n \in Namespaces, Same(n), NEW g, Before(g, n) PROVE After(g, n)
  BY <1>e, Zenon DEF Same
<1>1. ASSUME UNCHANGED project PROVE Goal
  <2>p. project # NoQuota /\ f \in DOMAIN project.limit
    BY <1>1, Zenon
  <2>g. PICK g \in [Namespaces -> Nat] :
          /\ \A n \in Namespaces : Before(g[n], n)
          /\ Cardinality(Units(g, Namespaces)) <= project.limit[f]
    BY <2>p, Zenon DEF SumInv
  <2>r. ASSUME NEW n \in Namespaces PROVE Growing(ns[n], cache[n], pc[n], loc[n], rq[n], f)
    BY <2>p, Zenon DEF GrowInv, Relevant
  <2> HIDE DEF Before, After
  \* The same shares, ...
  <2>s. ASSUME \A n \in Namespaces : After(g[n], n) PROVE Goal
    BY <1>1, <2>g, <2>s, Zenon
  <2>o. ASSUME NEW n \in Namespaces, Others(n), After(g[n], n) PROVE Goal
    BY <1>e, <2>g, <2>o, <2>s, Zenon DEF Others
  \* ... and smaller ones.
  <2>m. ASSUME NEW h \in [Namespaces -> Nat], \A n \in Namespaces : After(h[n], n) /\ h[n] <= g[n] PROVE Goal
    <3>1. /\ Cardinality(Units(h, Namespaces)) <= Cardinality(Units(g, Namespaces))
          /\ Cardinality(Units(h, Namespaces)) \in Nat /\ Cardinality(Units(g, Namespaces)) \in Nat
      BY <2>m, UnitsFewer, NamesAssumption, Zenon
    <3>2. project.limit[f] \in Nat
      BY <2>p, ProjectParts, Zenon DEF TypeOK
    <3>3. Cardinality(Units(h, Namespaces)) <= project'.limit[f]
      BY <1>1, <2>g, <3>1, <3>2, Order, Zenon
    <3> QED BY <2>m, <3>3, Zenon
  <2> DEFINE Left(n) == IF ns[n].there THEN g[n] ELSE 0
  <2>z. \A n \in Namespaces : Left(n) \in Nat /\ Left(n) <= g[n] /\ g[n] <= g[n]
    <3>1. \A n \in Namespaces : g[n] \in Nat
      BY <2>g, Zenon
    <3> QED BY <3>1, Order, Zenon
  <2>l. ASSUME NEW n \in Namespaces, ns'[n] = ns[n], cache'[n] = ns[n], rq'[n] = rq[n],
               pc'[n] = "idle" \/ (pc'[n] = pc[n] /\ loc'[n] = loc[n])
        PROVE  After(Left(n), n)
    <3>1. CASE ns[n].there
      <4>1. Granted(g[n], ns[n], ns[n], pc[n], loc[n], rq[n], f)
        BY <1>n, <2>g, <2>r, <3>1, GrantedSeen, Zenon DEF Before
      <4>2. After(g[n], n)
        BY <2>l, <4>1, Zenon DEF After, Granted
      <4> QED BY <3>1, <4>2, Zenon
    <3>2. CASE ~ns[n].there
      <4>1. Granted(0, ns[n], ns[n], pc'[n], loc'[n], rq[n], f)
        BY <1>c, <1>n, <3>2, GrantedGone, Zenon DEF Numbers
      <4>2. After(0, n)
        BY <2>l, <4>1, Zenon DEF After
      <4> QED BY <3>2, <4>2, Zenon
    <3> QED BY <3>1, <3>2, Zenon
  <2> HIDE DEF Goal
  <2>1. CASE Quiet \/ SeesProject
    <3>1. UNCHANGED <<nvars, rq, pc, loc>>
      BY <2>1, Zenon DEF Quiet, SeesProject
    <3>2. \A n \in Namespaces : Same(n)
      BY <3>1, Zenon DEF nvars, Same
    <3> QED BY <1>e, <2>g, <2>s, <3>2, Zenon
  <2>2. CASE Restarts
    <3> DEFINE h == [n \in Namespaces |-> Left(n)]
    <3>1. \A n \in Namespaces : ns'[n] = ns[n] /\ cache'[n] = ns[n] /\ rq'[n] = rq[n] /\ pc'[n] = "idle"
      BY <2>2, Zenon DEF Restarts
    <3>2. \A n \in Namespaces : After(Left(n), n)
      BY <2>l, <3>1, Zenon
    <3>3. h \in [Namespaces -> Nat] /\ \A n \in Namespaces : h[n] = Left(n) /\ h[n] <= g[n]
      BY <2>z, Zenon
    <3> HIDE DEF h, Left
    <3> QED BY <2>m, <3>2, <3>3, Zenon
  <2>3. ASSUME NEW n \in Namespaces, SeesNamespace(n) PROVE Goal
    <3> DEFINE h == [g EXCEPT ![n] = Left(n)]
    <3>1. Others(n) /\ After(Left(n), n)
      BY <2>3, <2>l, SeesGoes, Zenon
    <3>2. /\ h \in [Namespaces -> Nat] /\ h[n] = Left(n) /\ \A m \in Namespaces \ {n} : h[m] = g[m]
          /\ \A m \in Namespaces : h[m] <= g[m]
      BY <2>g, <2>z, Zenon
    <3> HIDE DEF h, Left
    <3>3. ASSUME NEW m \in Namespaces PROVE After(h[m], m)
      <4>1. CASE m = n
        BY <3>1, <3>2, <4>1, Zenon
      <4>2. CASE m # n
        BY <1>e, <2>g, <3>1, <3>2, <4>2, Zenon DEF Others
      <4> QED BY <4>1, <4>2, Zenon
    <3> QED BY <2>m, <3>2, <3>3, Zenon
  <2>4. ASSUME NEW n \in Namespaces, Begins(n) PROVE Goal
    <3>1. /\ Others(n) /\ cache'[n] = cache[n] /\ rq'[n] = rq[n]
          /\ pc'[n] = IF loc'[n].op \in Granting THEN "validate" ELSE "write"
      BY <2>4, BeginsGoes, Zenon
    <3>2. After(g[n], n)
      BY <2>g, <3>1, Zenon DEF Before, After, Granted
    <3> QED BY <2>o, <3>1, <3>2, Zenon
  <2>5. ASSUME NEW n \in Namespaces, Validates(n) PROVE Goal
    <3>1. /\ Others(n) /\ pc[n] = "validate" /\ pc'[n] = "write"
          /\ cache'[n] = cache[n] /\ rq'[n] = rq[n]
          /\ ns'[n].there = ns[n].there
          /\ loc'[n].op = loc[n].op
          /\ loc'[n].spec = IF Fits(n) THEN loc[n].spec ELSE Zero
      BY <2>5, ValidatesGoes, Zenon
    <3>2. Before(g[n], n) /\ g[n] \in Nat
      BY <2>g, Zenon
    <3>3. CASE ~Fits(n) \/ ~ns[n].there
      <4>1. Granted(g[n], ns'[n], cache[n], "write", loc'[n], rq[n], f)
        BY <3>1, <3>2, <3>3, GrantedDenied, Zenon DEF Before
      <4>2. After(g[n], n)
        BY <3>1, <4>1, Zenon DEF After
      <4> QED BY <2>o, <3>1, <4>2, Zenon
    <3>4. CASE Fits(n) /\ ns[n].there
      <4> DEFINE h == [g EXCEPT ![n] = Get(loc[n].spec, f)]
      <4>1. \A m \in Namespaces : g[m] <= Get(cache[m].quota, f)
        BY <2>g, Zenon DEF Before, Granted
      <4>2. h \in [Namespaces -> Nat] /\ Cardinality(Units(h, Namespaces)) <= project.limit[f]
        BY <2>p, <3>1, <3>4, <4>1, ShareFits, Zenon
      <4>3. h[n] = Get(loc[n].spec, f) /\ \A m \in Namespaces \ {n} : h[m] = g[m]
        BY <2>g, Zenon
      <4> HIDE DEF h
      <4>4. loc[n].op \in Granting
        BY <3>1, Zenon DEF WorkInv
      <4>5. After(h[n], n)
        <5>1. Growing(ns[n], cache[n], "validate", loc[n], rq[n], f)
          BY <2>r, <3>1, Zenon
        <5>2. Granted(Get(loc[n].spec, f), ns'[n], cache[n], "write", loc'[n], rq[n], f)
          BY <1>n, <3>1, <3>4, <4>4, <5>1, GrantedShare, Zenon
        <5> QED BY <3>1, <4>3, <5>2, Zenon DEF After
      <4>6. ASSUME NEW m \in Namespaces PROVE After(h[m], m)
        <5>1. CASE m = n
          BY <4>5, <5>1, Zenon
        <5>2. CASE m # n
          BY <1>e, <2>g, <3>1, <4>3, <5>2, Zenon DEF Others
        <5> QED BY <5>1, <5>2, Zenon
      <4> QED BY <1>1, <4>2, <4>6, Zenon DEF Goal
    <3> QED BY <3>3, <3>4, Zenon
  <2>6. ASSUME NEW n \in Namespaces, Finishes(n) PROVE Goal
    <3>1. /\ Others(n) /\ pc'[n] = "idle" /\ cache'[n] = cache[n]
          /\ \A i \in QuotaIds : \/ rq'[n][i] = rq[n][i] \/ rq'[n][i] = NoQuota
                                 \/ pc[n] = "write" /\ Allows(n) /\ rq'[n][i] = loc[n].spec
      BY <2>6, FinishesGoes, Zenon
    <3>2. Before(g[n], n) /\ g[n] \in Nat
      BY <2>g, Zenon
    <3>3. \A i \in QuotaIds : Get(rq'[n][i], f) <= g[n]
      <4>1. Get(NoQuota, f) <= g[n]
        BY <3>2, NothingIsLeast, Zenon
      <4> QED BY <3>1, <3>2, <4>1, Zenon DEF Before, Granted, Allows
    <3>4. After(g[n], n)
      BY <3>1, <3>2, <3>3, Zenon DEF Before, After, Granted
    <3> QED BY <2>o, <3>1, <3>4, Zenon
  <2>7. ASSUME NEW n \in Namespaces, NEW new, Changes(n, new) PROVE Goal
    <3>1. /\ Others(n)
          /\ cache'[n] = cache[n] /\ pc'[n] = pc[n] /\ loc'[n] = loc[n] /\ rq'[n] = rq[n]
          /\ ns[n].there \/ (cache[n] = Missing /\ pc[n] = "idle")
      BY <2>7, ChangesGoes, Zenon
    <3>2. After(g[n], n)
      BY <2>g, <3>1, Zenon DEF Before, After, Granted
    <3> QED BY <2>o, <3>1, <3>2, Zenon
  <2>8. ASSUME NEW n \in Namespaces, Vanishes(n) PROVE Goal
    <3>1. /\ Others(n) /\ cache'[n] = cache[n] /\ ~ns'[n].there /\ \A i \in QuotaIds : rq'[n][i] = NoQuota
      BY <2>8, VanishesGoes, Zenon
    <3>2. Before(g[n], n) /\ g[n] \in Nat
      BY <2>g, Zenon
    <3>3. Granted(g[n], ns'[n], cache[n], pc'[n], loc'[n], rq'[n], f)
      BY <3>1, <3>2, GrantedVanished, Zenon DEF Before
    <3>4. After(g[n], n)
      BY <3>1, <3>3, Zenon DEF After
    <3> QED BY <2>o, <3>1, <3>4, Zenon
  <2>9. ASSUME NEW q, Limited(q) PROVE Goal
    <3>1. UNCHANGED <<nvars, rq, pc, loc>>
      BY <2>9, Zenon DEF Limited
    <3>2. \A n \in Namespaces : Same(n)
      BY <3>1, Zenon DEF nvars, Same
    <3> QED BY <1>e, <2>g, <2>s, <3>2, Zenon
  <2> QED BY <2>1, <2>2, <2>3, <2>4, <2>5, <2>6, <2>7, <2>8, <2>9, Zenon DEF Kind
<1>2. ASSUME NEW q, Limited(q) PROVE Goal
  <2>1. /\ project' = q /\ q # NoQuota /\ q \in ProjectQuotas
        /\ project = NoQuota \/ ~Tighter(q.limit, project.limit)
        /\ UNCHANGED <<nvars, rq, pc, loc>>
    BY <1>2, Zenon DEF Limited
  <2>2. \A n \in Namespaces : Same(n)
    BY <2>1, Zenon DEF nvars, Same
  <2>3. q.limit[f] \in Nat
    BY <2>1, ProjectParts, Zenon
  <2> HIDE DEF Before, After
  <2>4. CASE project = NoQuota
    <3> DEFINE g == [n \in Namespaces |-> 0]
    <3>1. \A n \in Namespaces : Before(0, n)
      <4> SUFFICES ASSUME NEW n \in Namespaces PROVE Before(0, n)
        OBVIOUS
      <4>1. loc[n].limit = NoQuota /\ \A i \in QuotaIds : rq[n][i] = NoQuota
        BY <2>4, Zenon DEF LimitInv
      <4>2. 0 <= Get(cache[n].quota, f)
        BY <1>n DEF Numbers
      <4>3. Get(NoQuota, f) <= 0
        BY NothingIsLeast
      <4>4. pc[n] = "write" => loc[n].op \notin Granting \/ Get(loc[n].spec, f) <= 0
        BY <4>1, <4>3, Zenon DEF WorkInv
      <4> QED BY <4>1, <4>2, <4>3, <4>4, Zenon DEF Before, Granted
    <3>2. g \in [Namespaces -> Nat] /\ \A n \in Namespaces : g[n] = 0
      OBVIOUS
    <3>3. Units(g, Namespaces) = {}
      BY DEF Units
    <3>4. Cardinality(Units(g, Namespaces)) <= q.limit[f]
      BY <2>3, <3>3, FS_EmptySet
    <3> HIDE DEF g
    <3> QED BY <1>e, <2>1, <2>2, <3>1, <3>2, <3>4, Zenon
  <2>5. CASE project # NoQuota
    <3>1. f \in DOMAIN project.limit /\ project.limit[f] <= q.limit[f] /\ project.limit[f] \in Nat
      BY <2>1, <2>5, NotTighter, Zenon DEF TypeOK
    <3>2. PICK g \in [Namespaces -> Nat] :
            /\ \A n \in Namespaces : Before(g[n], n)
            /\ Cardinality(Units(g, Namespaces)) <= project.limit[f]
      BY <2>5, <3>1, Zenon DEF SumInv, Before
    <3>3. Cardinality(Units(g, Namespaces)) \in Nat
      <4>1. \A n \in Namespaces : g[n] <= g[n]
        BY <3>2, Order, Zenon
      <4> QED BY <4>1, UnitsFewer, NamesAssumption, Zenon
    <3>4. Cardinality(Units(g, Namespaces)) <= q.limit[f]
      <4>1. /\ Cardinality(Units(g, Namespaces)) <= project.limit[f] /\ project.limit[f] <= q.limit[f]
            /\ project.limit[f] \in Nat /\ q.limit[f] \in Nat
        BY <2>3, <3>1, <3>2, Zenon
      <4> QED BY <3>3, <4>1
    <3> QED BY <1>e, <2>1, <2>2, <3>2, <3>4, Zenon
  <2> QED BY <2>4, <2>5, Zenon
<1>3. CASE ~\E q : Limited(q)
  <2>1. UNCHANGED project
    BY <1>3, Zenon DEF Kind, Quiet, SeesProject, Restarts, SeesNamespace, Begins, Validates, Finishes, Vanishes, Changes
  <2> QED BY <1>1, <2>1, Zenon
<1> QED BY <1>2, <1>3, Zenon

\* The inductive invariant.
QuotaInv == ~lowered => LimitInv /\ GrowInv /\ SumInv

LEMMA QuotaInit == Init => QuotaInv
<1> SUFFICES ASSUME Init PROVE LimitInv /\ GrowInv /\ SumInv
  BY DEF QuotaInv
<1>1. TypeOK
  BY TypeInit DEF TypeInv
<1>2. /\ \A n \in Namespaces :
           /\ ns[n] = Missing /\ cache[n] = Missing /\ pc[n] = "idle" /\ loc[n] = NoLoc
           /\ \A i \in QuotaIds : rq[n][i] = NoQuota
      /\ pcache = project
  BY DEF Init
<1>3. LimitInv
  <2>1. project # NoQuota => Within(project)
    BY <1>1, ProjectParts, Order, Zenon DEF TypeOK, Within
  <2>2. Within(NoQuota)
    BY DEF Within
  <2> QED BY <1>2, <2>1, <2>2, NoLocType, Zenon DEF LimitInv
<1>4. GrowInv
  BY <1>2, GrowsMissing, Zenon DEF GrowInv
<1>5. SumInv
  <2> DEFINE g == [n \in Namespaces |-> 0]
  <2>1. g \in [Namespaces -> Nat] /\ \A n \in Namespaces : g[n] = 0
    OBVIOUS
  <2>2. Units(g, Namespaces) = {}
    BY DEF Units
  <2> HIDE DEF g
  <2>3. \A f : \A n \in Namespaces : Granted(g[n], ns[n], cache[n], pc[n], loc[n], rq[n], f)
    <3>1. ASSUME NEW f PROVE Get(Missing.quota, f) \in Nat /\ ~Missing.there
      BY MissingType, GetType, Zenon DEF NamespaceType, Missing
    <3> QED BY <1>2, <2>1, <3>1, GrantedGone, Zenon
  <2>4. ASSUME project # NoQuota, NEW f \in DOMAIN project.limit
        PROVE  Cardinality(Units(g, Namespaces)) <= project.limit[f]
    <3>1. project.limit[f] \in Nat
      BY <1>1, <2>4, ProjectParts, Zenon DEF TypeOK
    <3>2. 0 <= project.limit[f]
      BY <3>1
    <3> QED BY <2>2, <3>2, FS_EmptySet, Zenon
  <2> QED BY <2>1, <2>3, <2>4, Zenon DEF SumInv
<1> QED BY <1>3, <1>4, <1>5

LEMMA QuotaStep == TypeInv /\ QuotaInv /\ [Next]_vars => QuotaInv'
<1> SUFFICES ASSUME TypeOK, WorkInv, CopyInv, QuotaInv, [Next]_vars, ~lowered'
             PROVE  (LimitInv /\ GrowInv /\ SumInv)'
  BY DEF TypeInv, QuotaInv
<1>1. Kind
  BY Steps
<1>2. LimitInv /\ GrowInv /\ SumInv
  BY <1>1, NotRaised DEF QuotaInv
<1> QED BY <1>1, <1>2, LimitStep, GrowStep, SumStep

\* Shares that fit cover what is allowed.
LEMMA SharesCover ==
  ASSUME TypeOK, SumInv, project # NoQuota, NEW f \in DOMAIN project.limit
  PROVE  Cardinality(UNION {{n} \X Allowed(n, f) : n \in Namespaces}) <= project.limit[f]
<1>1. PICK g \in [Namespaces -> Nat] :
        /\ \A n \in Namespaces : Granted(g[n], ns[n], cache[n], pc[n], loc[n], rq[n], f)
        /\ Cardinality(Units(g, Namespaces)) <= project.limit[f]
  BY Zenon DEF SumInv
<1> DEFINE U == UNION {{n} \X Allowed(n, f) : n \in Namespaces}
<1>2. ASSUME NEW n \in Namespaces, NEW k \in Allowed(n, f) PROVE k \in 1 .. g[n]
  <2>1. PICK i \in QuotaIds : k \in 1 .. Get(rq[n][i], f)
    BY <1>2, Zenon DEF Allowed
  <2>2. Get(rq[n][i], f) <= g[n]
    BY <1>1, Zenon DEF Granted
  <2>3. Get(rq[n][i], f) \in Nat /\ g[n] \in Nat
    BY <1>1, QuotaTypes, Zenon
  <2> QED BY <2>1, <2>2, <2>3
<1>3. U \subseteq Units(g, Namespaces)
  <2>1. ASSUME NEW n \in Namespaces PROVE {n} \X Allowed(n, f) \subseteq {n} \X (1 .. g[n])
    BY <1>2
  <2>2. ASSUME NEW n \in Namespaces PROVE {n} \X (1 .. g[n]) \subseteq Units(g, Namespaces)
    BY Zenon DEF Units
  <2> QED BY <2>1, <2>2, Zenon
<1> HIDE DEF U
<1>4. IsFiniteSet(Units(g, Namespaces)) /\ Cardinality(Units(g, Namespaces)) \in Nat
  <2>1. \A n \in Namespaces : g[n] <= g[n]
    BY <1>1
  <2> QED BY <1>1, <2>1, UnitsFewer, NamesAssumption, Zenon
<1>5. Cardinality(U) <= Cardinality(Units(g, Namespaces)) /\ Cardinality(U) \in Nat
  BY <1>3, <1>4, FS_Subset, FS_CardinalityType, Zenon
<1>6. project.limit[f] \in Nat
  BY ProjectParts, Zenon DEF TypeOK
<1>7. Cardinality(U) <= project.limit[f]
  BY <1>1, <1>4, <1>5, <1>6, Order, Zenon
<1> QED BY <1>7 DEF U

\* The namespaces of a project are never allowed more in the sum than the project,
\* as long as nobody lowers a limit: although syncResourceQuota writes defaults
\* before it validates them, validates with a cache that lags behind, and requests
\* are written after the lock has been released.
THEOREM QuotasNeverExceeded == Behaviour => []QuotasFit
<1>1. TypeInv /\ QuotaInv => QuotasFit
  BY SharesCover, Zenon DEF TypeInv, QuotaInv, QuotasFit
<1> QED BY <1>1, TypeAlways, QuotaInit, QuotaStep, PTL DEF Behaviour
=============================================================================

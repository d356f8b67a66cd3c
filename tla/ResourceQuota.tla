--------------------------- MODULE ResourceQuota ---------------------------
(***************************************************************************)
(* controllers/user/resourcequota, resourcequota/quota_validate.go and the *)
(* stores of namespaces and projects: the quota of one project, the quotas *)
(* its namespaces ask for, and the ResourceQuota objects that Kubernetes   *)
(* enforces in them.                                                       *)
(*                                                                         *)
(* A limit is a function from some of the Fields to quantities.  Every     *)
(* kind of object is there twice, in the API server and in the informer's  *)
(* cache; the updates of an old copy are refused.                          *)
(***************************************************************************)
EXTENDS Naturals, FiniteSets

CONSTANTS
  Namespaces,     \* of the project
  Project,        \* the project's key in the queue
  Fields, Amounts,  \* of a quota, and what it allows of a field (numbers)
  Limits,         \* the quotas namespaces are created with or updated to
  ProjectQuotas,  \* the project's: records of a limit and a default for namespaces
  NoQuota,
  QuotaIds,       \* bound: names of ResourceQuota objects in a namespace
  MaxChanges      \* bound: requests, deletions, changes of the project, restarts

Quantities == UNION {[D -> Amounts] : D \in SUBSET Fields}
Quota == Quantities \cup {NoQuota}

ASSUME NamesAssumption == IsFiniteSet(Namespaces) /\ Project \notin Namespaces
ASSUME AmountsAssumption == Amounts \subseteq Nat /\ 0 \in Amounts
ASSUME LimitsAreQuantities == Limits \subseteq Quantities /\ NoQuota \notin Quantities
ASSUME ProjectQuotasAssumption ==
  ProjectQuotas \subseteq [limit : Quantities, default : Quantities] /\ NoQuota \notin ProjectQuotas

VARIABLES
  project, pcache, pold,  \* the project; its copy in the cache; whether that is old
  ns, cache, old,         \* the namespaces, the indexer's copies, the old ones of these
  rq, rqcache, rqold,     \* the ResourceQuota objects
  queue,                  \* keys in the queues, delayed ones included
  pc, loc,                \* the worker of each key, its locals
  todo,                   \* the namespaces resetNamespaceQuota has still to visit
  stale,                  \* the keys whose worker has an old copy of its object
  req,                    \* the requests that have been validated and are going to be written
  changes, lowered        \* some limit has been lowered

pvars == <<project, pcache, pold>>
nvars == <<ns, cache, old>>
rvars == <<rq, rqcache, rqold>>
wvars == <<queue, pc, loc, stale, todo>>
uvars == <<req, changes, lowered>>
vars == <<pvars, nvars, rvars, wvars, uvars>>

-----------------------------------------------------------------------------
(* Limits: quota_validate.go and k8s.io/kubernetes/pkg/quota               *)

Zero == [f \in Fields |-> 0]  \* defaultResourceLimit

\* A field that a list does not have counts as zero in sums and is not compared.
Get(q, f) == IF q # NoQuota /\ f \in DOMAIN q THEN q[f] ELSE 0

\* The sum of the quotas of some namespaces: all units are counted.
Total(quotas, f) == Cardinality(UNION {{n} \X (1 .. Get(quotas[n], f)) : n \in DOMAIN quotas})

\* The quota q with those of other namespaces, against the project's limit.
IsQuotaFit(q, quotas, limit) ==
  \A f \in DOMAIN limit : Get(q, f) + Total(quotas, f) <= limit[f]

\* The fields of the default, with the values of the existing quota.
CompleteQuota(existing, default) ==
  [f \in DOMAIN default |-> IF f \in DOMAIN existing THEN existing[f] ELSE default[f]]
-----------------------------------------------------------------------------
\* validateResourceQuota of the projects' store: the default has the fields of the
\* limit and fits into it.
ValidProject(q) ==
  /\ DOMAIN q.default = DOMAIN q.limit
  /\ IsQuotaFit(q.default, <<>>, q.limit)

Missing == [there |-> FALSE, ending |-> FALSE, quota |-> NoQuota, valid |-> "none", init |-> FALSE]
NoLoc == [ns |-> Missing, op |-> "none", spec |-> NoQuota,
          limit |-> NoQuota, id |-> NoQuota, fresh |-> FALSE]

Init ==
  /\ project \in {q \in ProjectQuotas : ValidProject(q)} \cup {NoQuota} /\ pcache = project /\ pold = FALSE
  /\ ns = [n \in Namespaces |-> Missing] /\ cache = ns /\ old = {}
  /\ rq = [n \in Namespaces |-> [i \in QuotaIds |-> NoQuota]] /\ rqcache = rq /\ rqold = {}
  /\ queue = {} /\ stale = {}
  /\ pc = [n \in Namespaces |-> "idle"]
  /\ loc = [n \in Namespaces |-> NoLoc] /\ todo = {}
  /\ req = {}
  /\ changes = 0 /\ lowered = FALSE

-----------------------------------------------------------------------------
(* The API server and the informers.                                       *)

\* An update that changes nothing makes no new version.
Store(n, new) ==
  /\ ns' = [ns EXCEPT ![n] = new]
  /\ old' = IF new = ns[n] THEN old ELSE old \cup {n}

\* Somebody else than the namespace's worker writes.
WriteBy(n, new) ==
  /\ Store(n, new)
  /\ stale' = IF pc[n] = "idle" \/ new = ns[n] THEN stale ELSE stale \cup {n}

NamespaceEvent(n) ==
  /\ n \in old
  /\ old' = old \ {n}
  /\ cache' = [cache EXCEPT ![n] = ns[n]]
  /\ queue' = queue \cup {n}
  /\ UNCHANGED <<pvars, ns, rvars, pc, loc, stale, todo, uvars>>

ProjectEvent ==
  /\ pold
  /\ pold' = FALSE
  /\ pcache' = project
  /\ queue' = queue \cup {Project}
  /\ UNCHANGED <<project, nvars, rvars, pc, loc, stale, todo, uvars>>

QuotaEvent(n, i) ==
  /\ <<n, i>> \in rqold
  /\ rqold' = rqold \ {<<n, i>>}
  /\ rqcache' = [rqcache EXCEPT ![n][i] = rq[n][i]]
  /\ UNCHANGED <<pvars, nvars, rq, wvars, uvars>>

-----------------------------------------------------------------------------
(* The worker of a namespace: syncResourceQuota.                           *)

Goto(k, label) == pc' = [pc EXCEPT ![k] = label]

\* syncResourceQuota returns; after an error the key comes back.
End(n, failed) ==
  /\ Goto(n, "idle")
  /\ loc' = [loc EXCEPT ![n] = NoLoc]
  /\ stale' = stale \ {n}
  /\ queue' = IF failed THEN queue \cup {n} ELSE queue

GoOn(n, label, l) ==
  /\ Goto(n, label)
  /\ loc' = [loc EXCEPT ![n] = l]
  /\ UNCHANGED <<queue, stale>>

\* Mutant: with the project's default at once: what has not been stored yet.
AskedDefault(c, p) ==
  IF p = NoQuota THEN NoQuota ELSE IF c.quota = NoQuota THEN p.default ELSE c.quota

\* getNamespaceResourceQuota: what the copy c of a namespace asks for.
Asked(c, p) == IF p = NoQuota THEN NoQuota ELSE IF c.quota = NoQuota THEN Zero ELSE c.quota

\* getResourceQuotaToUpdate
ToFill(c, p) ==
  IF p = NoQuota THEN NoQuota
  ELSE IF c.quota = NoQuota THEN p.default
  ELSE IF CompleteQuota(c.quota, p.default) = c.quota THEN NoQuota
  ELSE CompleteQuota(c.quota, p.default)

\* Mutant: without the test that a quota is wanted.
OperationCreates(existing, spec, fill) ==
  IF existing = NoQuota THEN "create"
  ELSE IF spec = NoQuota THEN "delete"
  ELSE IF fill # NoQuota \/ existing # spec THEN "update" ELSE "none"

\* Mutant: without the comparison of the existing ResourceQuota.
OperationOnce(existing, spec, fill) ==
  IF existing = NoQuota
  THEN IF spec = NoQuota THEN "none" ELSE "create"
  ELSE IF spec = NoQuota THEN "delete"
  ELSE IF fill # NoQuota THEN "update" ELSE "none"

\* What CreateResourceQuota has to do if the first ResourceQuota it has listed
\* is existing.
Operation(existing, spec, fill) ==
  IF existing = NoQuota
  THEN IF spec = NoQuota THEN "none" ELSE "create"
  ELSE IF spec = NoQuota THEN "delete"
  ELSE IF fill # NoQuota \/ existing # spec THEN "update" ELSE "none"

\* The ResourceQuotas are listed in any order.
First(n) ==
  LET ids == {i \in QuotaIds : rqcache[n][i] # NoQuota}
  IN  IF ids = {} THEN {NoQuota} ELSE ids

Op(n, id) ==
  Operation(IF id = NoQuota THEN NoQuota ELSE rqcache[n][id],
            Asked(cache[n], pcache), ToFill(cache[n], pcache))

\* There is nothing to do for a namespace that has gone, is ending, or has what it
\* asks for.
Idle(n) == \/ ~cache[n].there
           \/ cache[n].ending
           \/ /\ cache[n].init
              /\ \E id \in First(n) : Op(n, id) = "none"

SyncIdle(n) ==
  /\ pc[n] = "idle" /\ n \in queue /\ Idle(n)
  /\ queue' = queue \ {n}
  /\ UNCHANGED <<pvars, nvars, rvars, pc, loc, stale, todo, uvars>>

\* validateAndSetNamespaceQuota stores the completed quota before it is validated.
Sync(n) ==
  /\ pc[n] = "idle" /\ n \in queue
  /\ cache[n].there /\ ~cache[n].ending
  /\ \E id \in First(n) :
       LET op   == Op(n, id)
           fill == ToFill(cache[n], pcache)
           new  == IF op \in {"create", "update"} /\ fill # NoQuota
                   THEN [cache[n] EXCEPT !.quota = fill] ELSE cache[n]
       IN  /\ op = "none" => ~cache[n].init
           /\ op = "create" => \E i \in QuotaIds : rq[n][i] = NoQuota
           /\ \/ /\ new # cache[n] /\ n \in old  \* refused
                 /\ UNCHANGED <<ns, old, queue, pc, loc, stale>>
              \/ /\ new = cache[n] \/ n \notin old
                 /\ IF new = cache[n] THEN UNCHANGED <<ns, old>> ELSE Store(n, new)
                 /\ queue' = queue \ {n}
                 /\ stale' = IF n \in old THEN stale \cup {n} ELSE stale
                 /\ loc' = [loc EXCEPT ![n] =
                      [ns |-> new, op |-> op, spec |-> Asked(cache[n], pcache),
                       limit |-> pcache, id |-> id, fresh |-> <<n, id>> \notin rqold]]
                 /\ Goto(n, IF op \in {"create", "update"} THEN "validate" ELSE "write")
  /\ UNCHANGED <<pvars, cache, rvars, todo, uvars>>

\* The other namespaces come from the indexer; what is written under the lock is
\* the condition only.
Fits(n) ==
  IsQuotaFit(loc[n].ns.quota, [m \in Namespaces \ {n} |-> cache[m].quota], loc[n].limit.limit)

Validate(n) ==
  /\ pc[n] = "validate"
  /\ LET fits == Fits(n)
         new == [loc[n].ns EXCEPT !.valid = IF fits THEN "True" ELSE "False"]
     IN  IF new # loc[n].ns /\ n \in stale
         THEN End(n, TRUE) /\ UNCHANGED <<ns, old>>
         ELSE /\ IF new = loc[n].ns THEN UNCHANGED <<ns, old>> ELSE Store(n, new)
              /\ IF loc[n].op = "update" /\ ~fits THEN End(n, FALSE)
                 ELSE GoOn(n, "write",
                           [loc[n] EXCEPT !.ns = new, !.spec = IF fits THEN @ ELSE Zero])
  /\ UNCHANGED <<pvars, cache, rvars, todo, uvars>>

\* The condition ResourceQuotaInit is set in the end.
SetInit(n) ==
  LET new == [loc[n].ns EXCEPT !.init = TRUE]
  IN  IF new # loc[n].ns /\ n \in stale
      THEN End(n, TRUE) /\ UNCHANGED <<ns, old>>
      ELSE /\ End(n, FALSE)
           /\ IF new = loc[n].ns THEN UNCHANGED <<ns, old>> ELSE Store(n, new)

\* Nobody else writes ResourceQuotas, but they go with their namespace, and none can
\* be created in one that is ending.
Write(n) ==
  /\ pc[n] = "write"
  /\ LET op == loc[n].op
         id == loc[n].id
         set(i, q) == /\ rq' = [rq EXCEPT ![n][i] = q]
                      /\ rqold' = rqold \cup {<<n, i>>}
                      /\ SetInit(n)
         refused == End(n, TRUE) /\ UNCHANGED <<ns, old, rq, rqold>>
     IN  \/ op = "none" /\ SetInit(n) /\ UNCHANGED <<rq, rqold>>
         \/ /\ op = "create"
            /\ IF ns[n].there /\ ~ns[n].ending
               THEN set(CHOOSE i \in QuotaIds : rq[n][i] = NoQuota, loc[n].spec)
               ELSE refused
         \/ /\ op = "update"
            /\ IF rq[n][id] # NoQuota /\ loc[n].fresh THEN set(id, loc[n].spec) ELSE refused
         \/ /\ op = "delete"
            /\ IF rq[n][id] # NoQuota THEN set(id, NoQuota) ELSE refused
  /\ UNCHANGED <<pvars, cache, rqcache, todo, uvars>>
-----------------------------------------------------------------------------
(* The worker of the project: reconcileNamespaces and resetNamespaceQuota. *)

ProjectSync ==
  /\ todo = {} /\ Project \in queue
  /\ queue' = (queue \ {Project}) \cup {n \in Namespaces : cache[n].there}
  /\ todo' = {n \in Namespaces : /\ pcache = NoQuota
                                 /\ cache[n].there /\ cache[n].quota # NoQuota}
  /\ UNCHANGED <<pvars, nvars, rvars, pc, loc, stale, uvars>>

\* resetNamespaceQuota, for one namespace; an old copy ends it.
ResetNamespaceQuota(n) ==
  /\ n \in todo
  /\ IF n \in old
     THEN /\ todo' = {} /\ queue' = queue \cup {Project}
          /\ UNCHANGED <<ns, old, stale, lowered>>
     ELSE /\ WriteBy(n, [cache[n] EXCEPT !.quota = NoQuota])
          /\ todo' = todo \ {n} /\ lowered' = TRUE
          /\ UNCHANGED queue
  /\ UNCHANGED <<pvars, cache, rvars, pc, loc, req, changes>>
-----------------------------------------------------------------------------
(* Requests: api/store/namespace/store.go and project_store.go             *)

Change == changes < MaxChanges /\ changes' = changes + 1

Below(a, b) == \E f \in Fields : Get(a, f) < Get(b, f)

\* validateResourceQuota of the namespaces' store.  The other namespaces are listed
\* by the projectId of the request; an update has none, since the field cannot be
\* updated, and so sees no others.
Accepted(q, others) ==
  LET p == project
      asked == IF q = NoQuota THEN p.default ELSE q
  IN  p # NoQuota =>
        /\ DOMAIN asked = DOMAIN p.limit
        /\ IsQuotaFit(asked, [n \in others |-> ns[n].quota], p.limit)

Unused == {n \in Namespaces : ns[n] = Missing /\ \A r \in req : r.ns # n}

\* A request has been validated; the lock is released before the namespace is written.
Requested(n, q) == req' = req \cup {[ns |-> n, quota |-> q]}

\* The name does not matter.
ValidateCreate(q) ==
  /\ Change
  /\ Unused # {} /\ Accepted(q, Namespaces)
  /\ Requested(CHOOSE n \in Unused : TRUE, q)
  /\ UNCHANGED <<pvars, nvars, rvars, wvars, lowered>>

ValidateUpdate(n, q) ==
  /\ Change
  /\ ns[n].there /\ q # NoQuota /\ q # ns[n].quota /\ Accepted(q, {})
  /\ Requested(n, q)
  /\ UNCHANGED <<pvars, nvars, rvars, wvars, lowered>>

WriteRequest(r) ==
  /\ req' = req \ {r}
  /\ LET n == r.ns
         q == r.quota
     IN  IF ns[n] = Missing \/ ns[n].there
         THEN /\ WriteBy(n, [ns[n] EXCEPT !.there = TRUE, !.quota = q])
              /\ lowered' = (lowered \/ Below(q, ns[n].quota))
         ELSE UNCHANGED <<ns, old, stale, lowered>>
  /\ UNCHANGED <<pvars, cache, rvars, queue, todo, pc, loc, changes>>

\* A limit that is new is lower than none.
Tighter(new, limit) == \E f \in DOMAIN new : f \in DOMAIN limit => new[f] < limit[f]

\* The limit is compared with UsedLimit too, a sum that another controller keeps and that
\* may be of any age, and the default with the namespaces listed when a field comes or
\* goes: either may refuse the request, so it is made or not.
UpdateProject(q) ==
  /\ Change /\ q # project
  /\ q # NoQuota => ValidProject(q)
  /\ project' = q /\ pold' = TRUE
  /\ lowered' = (\/ lowered
                 \/ q = NoQuota
                 \/ project # NoQuota /\ Tighter(q.limit, project.limit))
  /\ UNCHANGED <<pcache, nvars, rvars, queue, todo, pc, loc, stale, req>>

DeleteNamespace(n) ==
  /\ Change /\ ns[n].there /\ ~ns[n].ending
  /\ WriteBy(n, [ns[n] EXCEPT !.ending = TRUE])
  /\ UNCHANGED <<pvars, cache, rvars, queue, todo, pc, loc, req, lowered>>

\* The namespace and what is in it have gone; its name is not used again.
Gone(n) ==
  /\ ns[n].there /\ ns[n].ending
  /\ WriteBy(n, [Missing EXCEPT !.ending = TRUE])
  /\ rq' = [rq EXCEPT ![n] = [i \in QuotaIds |-> NoQuota]]
  /\ rqold' = rqold \cup {<<n, i>> : i \in {j \in QuotaIds : rq[n][j] # NoQuota}}
  /\ UNCHANGED <<pvars, cache, rqcache, queue, todo, pc, loc, uvars>>

\* After a long time without anything to do the informers resync.
Resync ==
  /\ queue \cup old \cup rqold = {} /\ ~pold
  /\ todo = {} /\ \A n \in Namespaces : pc[n] = "idle"
  /\ queue' = {Project} \cup {n \in Namespaces : cache[n].there}
  /\ UNCHANGED <<pvars, nvars, rvars, pc, loc, stale, todo, uvars>>

Restart ==
  /\ Change
  /\ pcache' = project /\ pold' = FALSE
  /\ cache' = ns /\ old' = {}
  /\ rqcache' = rq /\ rqold' = {}
  /\ queue' = {Project} \cup {n \in Namespaces : ns[n].there}
  /\ pc' = [n \in Namespaces |-> "idle"] /\ loc' = [n \in Namespaces |-> NoLoc]
  /\ stale' = {} /\ todo' = {}
  /\ UNCHANGED <<project, ns, rq, req, lowered>>
-----------------------------------------------------------------------------
Worker(n) == SyncIdle(n) \/ Sync(n) \/ Validate(n) \/ Write(n)
ProjectWorker == ProjectSync \/ \E n \in Namespaces : ResetNamespaceQuota(n)

Events ==
  \/ \E n \in Namespaces : NamespaceEvent(n) \/ \E i \in QuotaIds : QuotaEvent(n, i)
  \/ ProjectEvent

Users ==
  \/ \E q \in Limits \cup {NoQuota} :
       ValidateCreate(q) \/ \E n \in Namespaces : ValidateUpdate(n, q)
  \/ \E q \in ProjectQuotas \cup {NoQuota} : UpdateProject(q)
  \/ \E n \in Namespaces : DeleteNamespace(n)

Running ==
  \/ \E n \in Namespaces : Worker(n) \/ Gone(n)
  \/ \E r \in req : WriteRequest(r)
  \/ ProjectWorker \/ Resync

Next == Running \/ Events \/ Users \/ Restart

Behaviour == Init /\ [][Next]_vars

\* The informers deliver, and of the workers and the requests that can go on some does.
Fairness == WF_vars(Running) /\ WF_vars(Events)

FairSpec == Behaviour /\ Fairness
-----------------------------------------------------------------------------
(* Properties *)

NamespaceType ==
  [there : BOOLEAN, ending : BOOLEAN, quota : Quota, valid : {"none", "True", "False"}, init : BOOLEAN]

LocType ==
  [ns : NamespaceType, op : {"none", "create", "update", "delete"}, spec : Quota,
   limit : ProjectQuotas \cup {NoQuota}, id : QuotaIds \cup {NoQuota}, fresh : BOOLEAN]

\* A namespace whose worker is at work was there, as was one whose quota has been
\* validated; a quota is stored in every copy with known fields only; a worker
\* about to validate knows the project's limit.
TypeOK ==
  /\ {project, pcache} \subseteq ProjectQuotas \cup {NoQuota} /\ pold \in BOOLEAN
  /\ ns \in [Namespaces -> NamespaceType] /\ cache \in [Namespaces -> NamespaceType]
  /\ rq \in [Namespaces -> [QuotaIds -> Quota]] /\ rqcache \in [Namespaces -> [QuotaIds -> Quota]]
  /\ old \cup stale \cup todo \subseteq Namespaces
  /\ rqold \subseteq Namespaces \X QuotaIds
  /\ queue \subseteq Namespaces \cup {Project}
  /\ pc \in [Namespaces -> {"idle", "validate", "write"}]
  /\ loc \in [Namespaces -> LocType]
  /\ req \subseteq [ns : Namespaces, quota : Limits \cup {NoQuota}]
  /\ changes \in Nat /\ lowered \in BOOLEAN
  /\ \A n \in Namespaces :
       /\ \A c \in {ns[n], cache[n], loc[n].ns} : c.valid # "none" => c.there
       /\ (pc[n] = "idle") <=> ~loc[n].ns.there
       /\ pc[n] = "validate" => loc[n].limit # NoQuota /\ loc[n].ns.quota # NoQuota

Quotas(n) == {rq[n][i] : i \in QuotaIds} \ {NoQuota}

\* The units of field f the ResourceQuotas of a namespace allow: those of the largest.
Allowed(n, f) == UNION {1 .. Get(rq[n][i], f) : i \in QuotaIds}

\* The namespaces of a project are never allowed more in the sum than the project,
\* as long as nobody lowers a limit: although defaults are written before they are
\* validated, validations use a cache that lags behind, and requests are written
\* after the lock is released.
QuotasFit ==
  ~lowered /\ project # NoQuota =>
    \A f \in DOMAIN project.limit :
      Cardinality(UNION {{n} \X Allowed(n, f) : n \in Namespaces}) <= project.limit[f]

\* In the end a namespace whose quota is validated has a ResourceQuota with this
\* quota, and none has been left over if the project has no quota.
AppliedInTheEnd ==
  <>[](\A n \in Namespaces :
         ns[n].there /\ ~ns[n].ending =>
           IF project = NoQuota THEN ns[n].quota = NoQuota /\ Quotas(n) = {}
           ELSE ns[n].valid = "True" => ns[n].quota \in Quotas(n))
=============================================================================

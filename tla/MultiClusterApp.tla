-------------------------- MODULE MultiClusterApp --------------------------
(***************************************************************************)
(* controllers/management/multiclusterapp: one multi-cluster app, the apps *)
(* it has in its target projects, and the rolling upgrade of these.  A     *)
(* version stands for a template version with its answers; there is at     *)
(* most one app per project, named after it.                               *)
(*                                                                         *)
(* All handlers of the multi-cluster app run one after the other, in the   *)
(* worker of its key; they read caches and write to the API server, which  *)
(* refuses updates of an old copy.                                         *)
(***************************************************************************)
EXTENDS Naturals, Sequences, FiniteSets

CONSTANTS
  Projects,
  Starts,      \* the sequences of projects a new multi-cluster app may have
  Installed,   \* and those that one may have that has been installed
  MaxVersion,
  Rolling,     \* the upgrade strategy is a rolling update with an interval
  BatchSize,   \* of the rolling update
  NoApp,       \* the empty AppName
  Disturbances,  \* kinds of changes that happen
  MaxChanges   \* bound: changes by users, failed calls, restarts, writes of states

ASSUME RollingUpdate == BatchSize \in Nat \ {0} /\ MaxVersion \in Nat \ {0}
ASSUME NoAppIsNone == NoApp \notin Projects
ASSUME StartsAreDistinct ==
  \A s \in Starts \cup Installed : s \in Seq(Projects) /\ \A i, j \in DOMAIN s : s[i] = s[j] => i = j

VARIABLES
  mc, mcache, mold,   \* the multi-cluster app, its copy in the cache, whether that is old
  app, acache, aold,  \* the apps, the copies in the cache, the projects whose copy is old
  unlisted,           \* the versions whose revision is not in the lister yet
  queued,             \* the key is in the queue, delayed or not
  pc, my, stale,      \* the handler, its copy, whether that is old
  todo, named,        \* apps it is going to update; targets whose app it has found or created
  ticking,            \* the ticker of interval.go runs
  dropped,            \* history: the projects that were removed from the targets
  changes

mvars == <<mc, mcache, mold>>
avars == <<app, acache, aold>>
hvars == <<pc, my, stale, todo, named>>
vars == <<mvars, avars, unlisted, queued, hvars, ticking, dropped, changes>>

Versions == 1 .. MaxVersion
NoRevision == 0

NoMcApp == [there |-> FALSE, ver |-> 1, targets |-> <<>>, rev |-> NoRevision,
            upgrading |-> FALSE, recent |-> FALSE]
Gone == [there |-> FALSE, ending |-> FALSE, ver |-> 1, deployed |-> 0, ready |-> FALSE]

Target(p) == [project |-> p, app |-> NoApp]

McApp(s) ==
  [NoMcApp EXCEPT !.there = TRUE, !.targets = [i \in DOMAIN s |-> Target(s[i])]]

New ==
  /\ \E s \in Starts : mc = McApp(s)
  /\ app = [p \in Projects |-> Gone]
  /\ queued = TRUE

\* What a multi-cluster app of version 1 comes to.
Running ==
  \E s \in Installed :
    /\ mc = [McApp(s) EXCEPT !.rev = 1,
                             !.targets = [i \in DOMAIN s |-> [project |-> s[i], app |-> s[i]]]]
    /\ app = [p \in Projects |->
                IF \E i \in DOMAIN s : s[i] = p
                THEN [there |-> TRUE, ending |-> FALSE, ver |-> 1, deployed |-> 1, ready |-> TRUE]
                ELSE Gone]
    /\ queued = FALSE

Init ==
  /\ New \/ Running
  /\ mcache = mc /\ mold = FALSE /\ acache = app /\ aold = {} /\ unlisted = {}
  /\ pc = "idle" /\ my = NoMcApp /\ stale = FALSE /\ todo = {} /\ named = {}
  /\ ticking = FALSE /\ dropped = {} /\ changes = 0

-----------------------------------------------------------------------------
(* Objects and informers                                                   *)

Write(new) == mc' = new /\ mold' = TRUE

McEvent ==
  /\ mold
  /\ mold' = FALSE /\ mcache' = mc
  /\ queued' = TRUE
  /\ UNCHANGED <<mc, avars, unlisted, hvars, ticking, dropped, changes>>

\* MCAppEnqueueController.sync: the event of an app that is there queues the
\* multi-cluster app.
AppEvent(p) ==
  /\ p \in aold
  /\ aold' = aold \ {p} /\ acache' = [acache EXCEPT ![p] = app[p]]
  /\ queued' = (queued \/ app[p].there)
  /\ UNCHANGED <<mvars, app, unlisted, hvars, ticking, dropped, changes>>

RevisionEvent ==
  /\ unlisted # {} /\ unlisted' = {}
  /\ UNCHANGED <<mvars, avars, queued, hvars, ticking, dropped, changes>>

-----------------------------------------------------------------------------
(* MCAppManager.sync                                                       *)

\* The handler returns, with an error or not.
Return(failed) ==
  /\ pc' = "idle" /\ my' = NoMcApp /\ stale' = FALSE /\ todo' = {} /\ named' = {}
  /\ queued' = (queued \/ failed)

ProjectsOf(m) == {m.targets[i].project : i \in DOMAIN m.targets}

\* delete: apps have a finalizer of the helm controller.
Deleted(S) == [p \in Projects |-> IF p \in S /\ app[p].there
                                  THEN [app[p] EXCEPT !.ending = TRUE] ELSE app[p]]
Changed(new) == {p \in Projects : new[p] # app[p]}

\* isChanged, toUpdate
IsChanged(m) == m.rev # NoRevision /\ m.rev # m.ver
ToUpdate(m) == IsChanged(m) /\ ~(m.upgrading /\ Rolling /\ m.recent)

\* The multi-cluster app has gone: deleteApps.
SyncDeleted ==
  /\ pc = "idle" /\ queued /\ ~mcache.there
  /\ queued' = FALSE /\ ticking' = FALSE
  /\ LET new == Deleted({p \in Projects : acache[p].there})
     IN  app' = new /\ aold' = aold \cup Changed(new)
  /\ UNCHANGED <<mvars, acache, unlisted, hvars, dropped, changes>>

\* Mutant: a target without the name of its app has none.
SurplusUnnamed(m) ==
  {p \in Projects : acache[p].there /\ \A i \in DOMAIN m.targets : m.targets[i].app # p}

\* reconcileTargetsForDelete: the apps of projects that are no targets.
Surplus(m) == {p \in Projects \ ProjectsOf(m) : acache[p].there}

\* reconcileTargetsForDelete, then isChanged, which fails if the revision is not in
\* the lister.
Sync ==
  /\ pc = "idle" /\ queued /\ mcache.there
  /\ LET new == Deleted(Surplus(mcache))
     IN  app' = new /\ aold' = aold \cup Changed(new)
  /\ IF mcache.rev \in unlisted
     THEN UNCHANGED <<queued, pc, my, stale>>
     ELSE queued' = FALSE /\ pc' = "create" /\ my' = mcache /\ stale' = mold
  /\ UNCHANGED <<mvars, acache, unlisted, todo, named, ticking, dropped, changes>>

\* A target whose app is not in the cache ends createApps with an error.
Broken(i) == LET t == my.targets[i]
             IN  t.app # NoApp /\ ~(t.app = t.project /\ acache[t.app].there)

IsUpdated(i) == my.targets[i].app # NoApp /\ acache[my.targets[i].app].ver = my.ver

Batch == IF ToUpdate(my) /\ Rolling THEN BatchSize ELSE Len(my.targets)

\* The first n indexes in S.
First(n, S) == {i \in S : Cardinality({j \in S : j < i}) < n}

\* An app that exists but is not in the cache is not found: Create returns no name.
Found(i) == LET p == my.targets[i].project IN acache[p].there \/ ~app[p].there

\* The targets that get their app now.
Creating ==
  LET S == {i \in DOMAIN my.targets :
              my.targets[i].app = NoApp /\ \A j \in 1 .. i : ~Broken(j)}
  IN  {i \in S : Cardinality({j \in S : j < i /\ Found(j)}) < Batch}

\* The apps the upgrade goes on with: none while one that has the new version is
\* not ready.
NextBatch(remaining) ==
  IF \E i \in DOMAIN my.targets : IsUpdated(i) /\ ~acache[my.targets[i].app].ready
  THEN {}
  ELSE First(remaining, {i \in DOMAIN my.targets : my.targets[i].app # NoApp /\ ~IsUpdated(i)})

\* What sync does after createApps has named the targets in S.
Decide(S) ==
  LET count == Cardinality({i \in DOMAIN my.targets : IsUpdated(i)}) + Cardinality(S)
      remaining == Batch - Cardinality(S)
      batch == NextBatch(remaining)
      revise == IF IsChanged(my) THEN my.upgrading /\ count = Len(my.targets)
                                 ELSE my.rev = NoRevision
  IN  IF revise
      THEN /\ pc' = "revision"
           /\ ticking' = (ticking /\ ~IsChanged(my))
           /\ UNCHANGED <<queued, my, todo>>
      ELSE /\ UNCHANGED ticking
           /\ IF ToUpdate(my) /\ remaining > 0
              THEN /\ pc' = "update"
                   /\ todo' = batch
                   /\ UNCHANGED <<queued, my>>
              ELSE /\ pc' = "idle" /\ my' = NoMcApp /\ todo' = {}
                   /\ UNCHANGED queued

\* createApps
CreateApps ==
  /\ pc = "create"
  /\ LET create == {my.targets[i].project : i \in Creating}
         found == {i \in Creating : Found(i)}
     IN  /\ app' = [p \in Projects |->
                      IF p \in create /\ ~acache[p].there /\ ~app[p].there
                      THEN [Gone EXCEPT !.there = TRUE, !.ver = my.ver] ELSE app[p]]
         /\ aold' = aold \cup {p \in create : ~acache[p].there /\ ~app[p].there}
         /\ IF \E i \in DOMAIN my.targets : Broken(i)
            THEN Return(TRUE) /\ UNCHANGED ticking
            ELSE IF found # {}
            THEN pc' = "name" /\ named' = found /\ UNCHANGED <<queued, my, stale, todo, ticking>>
            ELSE /\ Decide({}) /\ named' = {}
                 /\ stale' = (stale /\ pc' # "idle")
  /\ UNCHANGED <<mvars, acache, unlisted, dropped, changes>>

\* The update at the end of createApps.  The handler's own copy is an old one then.
NameApps ==
  /\ pc = "name"
  /\ IF stale THEN Return(TRUE) /\ UNCHANGED <<mc, mold, ticking>>
     ELSE /\ Write([my EXCEPT !.targets = [i \in DOMAIN my.targets |->
               LET t == my.targets[i]
               IN  IF i \in named THEN [t EXCEPT !.app = t.project] ELSE t]])
          /\ Decide(named) /\ named' = {}
          /\ stale' = (pc' # "idle")
  /\ UNCHANGED <<mcache, avars, unlisted, dropped, changes>>

\* updateApp: after a conflict the app is read again, so only one that has gone
\* is an error.
UpdateApp ==
  /\ pc = "update"
  /\ \E i \in todo :
       LET p == my.targets[i].app
       IN  /\ \A j \in todo : i <= j
           /\ IF app[p].there
              THEN /\ app' = [app EXCEPT ![p].ver = my.ver]
                   /\ aold' = IF app[p].ver = my.ver THEN aold ELSE aold \cup {p}
                   /\ todo' = todo \ {i}
                   /\ UNCHANGED <<queued, pc, my, stale, named>>
              ELSE Return(TRUE) /\ UNCHANGED <<app, aold>>
  /\ UNCHANGED <<mvars, acache, unlisted, ticking, dropped, changes>>

NamedAt == {i \in DOMAIN my.targets : my.targets[i].app # NoApp}

\* updateCondition does not fail.  It panics if there are fewer targets by now; the panic
\* is recovered and counts as an error.
Updatable == stale => mc.there /\ NamedAt \subseteq DOMAIN mc.targets

\* After a conflict the latest version gets the names of the handler's copy by their
\* index, and its revision.
Latest ==
  [mc EXCEPT !.rev = my.rev,
             !.targets = [i \in DOMAIN mc.targets |->
                            IF i \in NamedAt THEN [mc.targets[i] EXCEPT !.app = my.targets[i].app]
                                            ELSE mc.targets[i]]]

UpdateCondition(upgrading) ==
  IF Updatable
  THEN /\ Write([(IF stale THEN Latest ELSE my) EXCEPT !.upgrading = upgrading,
                                                      !.recent = upgrading])
       /\ Return(FALSE)
  ELSE Return(TRUE) /\ UNCHANGED <<mc, mold>>

\* The batch is updated: the time is noted and the ticker started.
SetInstalledUnknown ==
  /\ pc = "update" /\ todo = {}
  /\ UpdateCondition(TRUE)
  /\ ticking' = (ticking \/ (Rolling /\ Updatable))
  /\ UNCHANGED <<mcache, avars, unlisted, dropped, changes>>

\* Mutant: the revision is the one of the first sync only.
SetRevisionFirstOnly ==
  /\ pc = "revision"
  /\ IF ~mc.there THEN Return(TRUE) /\ UNCHANGED unlisted
     ELSE IF mc.rev # NoRevision THEN Return(FALSE) /\ UNCHANGED unlisted
     ELSE /\ my' = [my EXCEPT !.rev = my.ver]
          /\ unlisted' = unlisted \cup {my.ver}
          /\ pc' = "done"
          /\ UNCHANGED <<queued, stale, todo, named>>
  /\ UNCHANGED <<mvars, avars, ticking, dropped, changes>>

\* setRevisionAndUpdate: if there has been a revision, the new one is made from the
\* latest version of the multi-cluster app.
SetRevision ==
  /\ pc = "revision"
  /\ IF ~mc.there \/ mc.rev \in unlisted THEN Return(TRUE) /\ UNCHANGED unlisted
     ELSE IF mc.rev = my.ver THEN Return(FALSE) /\ UNCHANGED unlisted
     ELSE LET m == IF mc.rev # NoRevision THEN mc ELSE my
          IN  /\ my' = [m EXCEPT !.rev = m.ver]
              /\ stale' = (stale /\ mc.rev = NoRevision)
              /\ unlisted' = unlisted \cup {m.ver}
              /\ pc' = "done"
              /\ UNCHANGED <<queued, todo, named>>
  /\ UNCHANGED <<mvars, avars, ticking, dropped, changes>>

SetInstalledDone ==
  /\ pc = "done"
  /\ UpdateCondition(FALSE)
  /\ UNCHANGED <<mcache, avars, unlisted, ticking, dropped, changes>>

-----------------------------------------------------------------------------
(* The helm controller, which reads the app from the API server            *)

SetApp(p, new) ==
  /\ app' = [app EXCEPT ![p] = new] /\ aold' = aold \cup {p}
  /\ UNCHANGED <<mvars, acache, unlisted, queued, hvars, ticking, dropped>>

\* DeployApp starts: Installed is unknown.  Until then an app that was ready is
\* still taken for ready.
HelmStarts(p) ==
  /\ app[p].there /\ ~app[p].ending /\ app[p].ready /\ app[p].deployed # app[p].ver
  /\ SetApp(p, [app[p] EXCEPT !.ready = FALSE])
  /\ UNCHANGED changes

\* isSame: an app whose last revision has its version is not deployed again, be it ready
\* or not.
Deployable(p) == app[p].there /\ ~app[p].ending /\ ~app[p].ready /\ app[p].deployed # app[p].ver

\* The app is installed and its workloads are there.
HelmDone(p) ==
  /\ Deployable(p)
  /\ SetApp(p, [app[p] EXCEPT !.ready = TRUE, !.deployed = app[p].ver])
  /\ UNCHANGED changes

Change(kind) == kind \in Disturbances /\ changes < MaxChanges /\ changes' = changes + 1

\* helmInstall fails.  There is a revision all the same, "so that user can decide to
\* continue".
HelmFails(p) ==
  /\ Change("helm") /\ Deployable(p)
  /\ SetApp(p, [app[p] EXCEPT !.deployed = app[p].ver])

HelmRemoves(p) ==
  /\ app[p].there /\ app[p].ending
  /\ SetApp(p, Gone)
  /\ UNCHANGED changes

-----------------------------------------------------------------------------
(* Time, users, faults                                                     *)

\* The interval has passed since any time that has been noted.
Tick ==
  /\ mc.recent \/ mcache.recent \/ my.recent \/ (ticking /\ ~queued)
  /\ mc' = [mc EXCEPT !.recent = FALSE] /\ mcache' = [mcache EXCEPT !.recent = FALSE]
  /\ my' = [my EXCEPT !.recent = FALSE]
  /\ queued' = (queued \/ ticking)
  /\ UNCHANGED <<mold, avars, unlisted, pc, stale, todo, named, ticking, dropped, changes>>

\* The informers resync after a long time.
Resync ==
  /\ ~queued /\ ~mold /\ aold = {} /\ pc = "idle" /\ mcache.there
  /\ queued' = TRUE
  /\ UNCHANGED <<mvars, avars, unlisted, hvars, ticking, dropped, changes>>

UserWrites(new) ==
  /\ mc.there
  /\ Write(new)
  /\ stale' = (pc # "idle")
  /\ dropped' = dropped \cup (ProjectsOf(mc) \ ProjectsOf(new))
  /\ UNCHANGED <<mcache, avars, unlisted, queued, pc, my, todo, named, ticking>>

\* An update to another version, or the rollback to an old one, at any time.
Upgrade ==
  /\ Change("upgrade")
  /\ \E v \in Versions \ {mc.ver} : UserWrites([mc EXCEPT !.ver = v])

\* Mutant: nobody looks whether the project is a target already.
AddProjectAgain(p) ==
  /\ Change("targets")
  /\ UserWrites([mc EXCEPT !.targets = Append(@, Target(p))])

\* addProjects
AddProject(p) ==
  /\ Change("targets") /\ p \notin ProjectsOf(mc)
  /\ UserWrites([mc EXCEPT !.targets = Append(@, Target(p))])

Without(s, i) == [j \in 1 .. Len(s) - 1 |-> IF j < i THEN s[j] ELSE s[j + 1]]

\* removeProjects
RemoveProject(p) ==
  /\ Change("targets")
  /\ \E i \in DOMAIN mc.targets :
       mc.targets[i].project = p /\ UserWrites([mc EXCEPT !.targets = Without(@, i)])

DeleteMcApp == Change("delete") /\ UserWrites(NoMcApp)

\* MCAppStateController stores the states of the targets.
StateSync ==
  /\ Change("state") /\ pc = "idle" /\ ~mold
  /\ UserWrites(mc)

\* A call of the handler fails.
Fails ==
  /\ Change("error") /\ pc # "idle"
  /\ Return(TRUE)
  /\ UNCHANGED <<mvars, avars, unlisted, ticking, dropped>>

Restart ==
  /\ Change("restart")
  /\ mcache' = mc /\ mold' = FALSE /\ acache' = app /\ aold' = {} /\ unlisted' = {}
  /\ pc' = "idle" /\ my' = NoMcApp /\ stale' = FALSE /\ todo' = {} /\ named' = {}
  /\ queued' = (mc.there \/ \E p \in Projects : app[p].there)
  /\ ticking' = FALSE
  /\ UNCHANGED <<mc, app, dropped>>
-----------------------------------------------------------------------------
Handler ==
  \/ SyncDeleted \/ Sync \/ CreateApps \/ NameApps \/ UpdateApp
  \/ SetInstalledUnknown \/ SetRevision \/ SetInstalledDone

Events == RevisionEvent \/ \E p \in Projects : AppEvent(p)

Helm == \E p \in Projects : HelmStarts(p) \/ HelmDone(p) \/ HelmRemoves(p)

Users ==
  \/ Upgrade \/ DeleteMcApp
  \/ \E p \in Projects : AddProject(p) \/ RemoveProject(p)

Next ==
  \/ Handler \/ McEvent \/ Events \/ Helm \/ Tick \/ Resync
  \/ Users \/ StateSync \/ Fails \/ Restart \/ \E p \in Projects : HelmFails(p)

Spec == Init /\ [][Next]_vars

\* The worker, the informers, the helm controllers and the ticker go on.
Fairness ==
  /\ WF_vars(Handler) /\ WF_vars(McEvent) /\ WF_vars(Events) /\ WF_vars(Helm)
  /\ WF_vars(Tick) /\ WF_vars(Resync)

FairSpec == Spec /\ Fairness
-----------------------------------------------------------------------------
(* Properties *)

TargetType == [project : Projects, app : Projects \cup {NoApp}]
McType == [there : BOOLEAN, ver : Versions, targets : Seq(TargetType),
           rev : Versions \cup {NoRevision}, upgrading : BOOLEAN, recent : BOOLEAN]
AppType == [there : BOOLEAN, ending : BOOLEAN, ver : Versions, deployed : 0 .. MaxVersion,
            ready : BOOLEAN]

Proper(m) ==
  /\ \A i, j \in DOMAIN m.targets : m.targets[i].project = m.targets[j].project => i = j
  /\ m.recent => m.upgrading

\* Type correctness; no project is a target twice.
TypeOK ==
  /\ {mc, mcache, my} \subseteq McType /\ \A m \in {mc, mcache, my} : Proper(m)
  /\ {app, acache} \subseteq [Projects -> AppType]
  /\ aold \cup dropped \subseteq Projects /\ unlisted \subseteq Versions
  /\ {mold, queued, stale, ticking} \subseteq BOOLEAN /\ changes \in Nat
  /\ pc \in {"idle", "create", "name", "update", "revision", "done"}
  /\ pc = "idle" <=> ~my.there
  /\ todo \cup named \subseteq DOMAIN my.targets

\* The state that MCAppStateController shows, for the version asked for: installed, and
\* deployed in all targets.
Active ==
  /\ mc.there /\ mc.rev = mc.ver /\ ~mc.upgrading
  /\ \A i \in DOMAIN mc.targets :
       LET p == mc.targets[i].app IN p # NoApp /\ app[p].there /\ app[p].ready

\* The handler has seen everything and helm has deployed everything.
Quiet ==
  /\ pc = "idle" /\ ~queued /\ ~mold /\ aold = {} /\ ~ticking
  /\ \A p \in Projects : app[p].there => app[p].deployed = app[p].ver

\* Once the multi-cluster app is active and all is quiet, its apps have its version.
\* It fails: setRevisionAndUpdate records a version that came after the one that was rolled
\* out, and nothing is left that would roll out the new one.
InstalledIsInstalled ==
  Active /\ Quiet => \A i \in DOMAIN mc.targets : app[mc.targets[i].app].ver = mc.ver

\* No app is deleted unless its project has been removed from the targets, or the
\* multi-cluster app deleted: reconcileTargetsForDelete and createApps work on old copies
\* of targets and apps, and apps may be there whose names have not been saved.
TargetsKeepApps == \A p \in Projects : app[p].ending => p \in dropped

\* There is an app in every target, known by its name, ready and of the version asked
\* for, and nowhere else; the multi-cluster app is not upgrading any more.
Settled ==
  /\ mc.there => mc.rev = mc.ver /\ ~mc.upgrading
  /\ \A i \in DOMAIN mc.targets : mc.targets[i].app = mc.targets[i].project
  /\ \A p \in Projects :
       IF mc.there /\ p \in ProjectsOf(mc)
       THEN app[p] = [there |-> TRUE, ending |-> FALSE, ver |-> mc.ver,
                      deployed |-> mc.ver, ready |-> TRUE]
       ELSE ~app[p].there

\* What only a user can mend: a deployment that failed, a target whose app is another
\* one's or has gone, a version that is recorded but not rolled out.
FailedApp == \E p \in Projects : app[p].there /\ ~app[p].ready /\ app[p].deployed = app[p].ver
Dangling == \E i \in DOMAIN mc.targets :
              LET t == mc.targets[i] IN t.app # NoApp /\ ~(t.app = t.project /\ app[t.app].there)
NotRolledOut ==
  /\ mc.rev = mc.ver
  /\ mc.upgrading \/ \E p \in ProjectsOf(mc) : app[p].there /\ app[p].ver # mc.ver

\* After the last change the multi-cluster app settles for good, or needs a user: batches,
\* the ticker, retries and resyncs bring every target to the version, although handlers
\* act on old copies, users do not wait, calls fail and restarts lose the ticker.
EventuallySettled == <>[](Settled \/ FailedApp \/ Dangling \/ NotRolledOut)
=============================================================================

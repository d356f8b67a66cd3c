----------------------- MODULE MultiClusterAppProofs -----------------------
(***************************************************************************)
(* Theorems about MultiClusterApp, for any projects, versions and numbers  *)
(* of changes: its types, and that targets keep their apps.                *)
(***************************************************************************)
EXTENDS MultiClusterApp, TLAPS

Labels == {"idle", "create", "name", "update", "revision", "done"}
AppFcn == [Projects -> AppType]

\* TypeOK, by who is concerned.  The handler has targets in hand only while it names
\* them, and named apps only while it updates them.
Sound(m) == m \in McType /\ Proper(m)
AppsOK == {app, acache} \subseteq AppFcn /\ aold \subseteq Projects
HandlerOK ==
  /\ Sound(my) /\ stale \in BOOLEAN /\ pc \in Labels
  /\ pc = "idle" <=> ~my.there
  /\ todo \cup named \subseteq DOMAIN my.targets
  /\ pc # "name" => named = {}
  /\ pc # "update" => todo = {}
  /\ todo \subseteq NamedAt
RestOK == /\ unlisted \subseteq Versions /\ {mold, queued, ticking} \subseteq BOOLEAN
          /\ dropped \subseteq Projects /\ changes \in Nat
TypeInv == Sound(mc) /\ Sound(mcache) /\ AppsOK /\ HandlerOK /\ RestOK

LEMMA TypeParts == TypeInv => TypeOK
  BY DEF TypeInv, Sound, AppsOK, HandlerOK, RestOK, AppFcn, Labels, TypeOK

-----------------------------------------------------------------------------
(* What becomes of a multi-cluster app.                                    *)

LEMMA McFields ==
  ASSUME NEW m \in McType
  PROVE  /\ m.there \in BOOLEAN /\ m.ver \in Versions /\ m.targets \in Seq(TargetType)
         /\ m.rev \in Versions \cup {NoRevision} /\ m.upgrading \in BOOLEAN /\ m.recent \in BOOLEAN
         /\ Len(m.targets) \in Nat /\ DOMAIN m.targets = 1 .. Len(m.targets)
         /\ \A i \in DOMAIN m.targets :
              /\ m.targets[i] \in TargetType /\ m.targets[i].project \in Projects
              /\ m.targets[i].app \in Projects \cup {NoApp}
<1>1. /\ m.there \in BOOLEAN /\ m.ver \in Versions /\ m.targets \in Seq(TargetType)
      /\ m.rev \in Versions \cup {NoRevision} /\ m.upgrading \in BOOLEAN /\ m.recent \in BOOLEAN
  BY Zenon DEF McType
<1>2. Len(m.targets) \in Nat /\ DOMAIN m.targets = 1 .. Len(m.targets)
  BY <1>1
<1>3. \A i \in DOMAIN m.targets : m.targets[i] \in TargetType
  BY <1>1
<1>4. \A t \in TargetType : t.project \in Projects /\ t.app \in Projects \cup {NoApp}
  BY DEF TargetType
<1> QED BY <1>1, <1>2, <1>3, <1>4

\* The fields after an update.
LEMMA SetTargets ==
  ASSUME NEW m \in McType, NEW x \in Seq(TargetType)
  PROVE  LET n == [m EXCEPT !.targets = x]
         IN  /\ n \in McType
             /\ n.targets = x /\ n.there = m.there /\ n.ver = m.ver
             /\ n.rev = m.rev /\ n.upgrading = m.upgrading /\ n.recent = m.recent
  BY Zenon DEF McType

LEMMA SetVersion ==
  ASSUME NEW m \in McType, NEW x \in Versions
  PROVE  LET n == [m EXCEPT !.ver = x]
         IN  /\ n \in McType
             /\ n.targets = m.targets /\ n.there = m.there /\ n.ver = x
             /\ n.rev = m.rev /\ n.upgrading = m.upgrading /\ n.recent = m.recent
  BY Zenon DEF McType

LEMMA SetRev ==
  ASSUME NEW m \in McType, NEW x \in Versions \cup {NoRevision}
  PROVE  LET n == [m EXCEPT !.rev = x]
         IN  /\ n \in McType
             /\ n.targets = m.targets /\ n.there = m.there /\ n.ver = m.ver
             /\ n.rev = x /\ n.upgrading = m.upgrading /\ n.recent = m.recent
  BY Zenon DEF McType

LEMMA SetRecent ==
  ASSUME NEW m \in McType, NEW x \in BOOLEAN
  PROVE  LET n == [m EXCEPT !.recent = x]
         IN  /\ n \in McType
             /\ n.targets = m.targets /\ n.there = m.there /\ n.ver = m.ver
             /\ n.rev = m.rev /\ n.upgrading = m.upgrading /\ n.recent = x
  BY Zenon DEF McType

LEMMA SetCondition ==
  ASSUME NEW m \in McType, NEW x \in BOOLEAN
  PROVE  LET n == [m EXCEPT !.upgrading = x, !.recent = x]
         IN  /\ n \in McType
             /\ n.targets = m.targets /\ n.there = m.there /\ n.ver = m.ver
             /\ n.rev = m.rev /\ n.upgrading = x /\ n.recent = x
  BY Zenon DEF McType

\* The multi-cluster app that is gone, or of which the handler has no copy.
LEMMA NoneSound == Sound(NoMcApp) /\ ~NoMcApp.there /\ DOMAIN NoMcApp.targets = {}
<1>1. /\ <<>> \in Seq(TargetType) /\ DOMAIN <<>> = {} /\ NoRevision \in Versions \cup {NoRevision}
      /\ 1 \in Versions
  BY RollingUpdate DEF Versions
<1>2. NoMcApp \in McType
  BY <1>1 DEF McType, NoMcApp
<1>3. /\ NoMcApp.targets = <<>> /\ ~NoMcApp.recent /\ ~NoMcApp.there
  BY DEF NoMcApp
<1> QED BY <1>1, <1>2, <1>3 DEF Sound, Proper

\* The same projects in the same places.
Renamed(s, t) ==
  /\ t \in Seq(TargetType) /\ Len(t) = Len(s)
  /\ \A i \in DOMAIN s : t[i].project = s[i].project

\* What the handler, users and time make of a multi-cluster app that is sound.
LEMMA UpdatesSound ==
  ASSUME NEW m, Sound(m)
  PROVE  /\ \A t : Renamed(m.targets, t) => Sound([m EXCEPT !.targets = t])
         /\ \A v \in Versions : Sound([m EXCEPT !.ver = v])
         /\ \A r \in Versions \cup {NoRevision} :
              /\ Sound([m EXCEPT !.rev = r])
              /\ \A t : Renamed(m.targets, t) => Sound([m EXCEPT !.rev = r, !.targets = t])
         /\ \A u \in BOOLEAN : Sound([m EXCEPT !.upgrading = u, !.recent = u])
         /\ Sound([m EXCEPT !.recent = FALSE])
<1>1. m \in McType /\ Proper(m) /\ DOMAIN m.targets = 1 .. Len(m.targets)
  BY McFields DEF Sound
<1>2. ASSUME NEW t, Renamed(m.targets, t), NEW n \in McType, n.targets = t,
             n.upgrading = m.upgrading, n.recent = m.recent
      PROVE  Sound(n)
  <2>1. DOMAIN t = DOMAIN m.targets
    BY <1>1, <1>2 DEF Renamed
  <2> QED BY <1>1, <1>2, <2>1 DEF Sound, Proper, Renamed
<1>3. ASSUME NEW t, Renamed(m.targets, t) PROVE Sound([m EXCEPT !.targets = t])
  <2>1. t \in Seq(TargetType)
    BY <1>3 DEF Renamed
  <2> QED BY <1>1, <1>2, <1>3, <2>1, SetTargets, Zenon
<1>4. ASSUME NEW r \in Versions \cup {NoRevision}, NEW t, Renamed(m.targets, t)
      PROVE  Sound([m EXCEPT !.rev = r, !.targets = t])
  <2>1. t \in Seq(TargetType)
    BY <1>4 DEF Renamed
  <2>2. PICK n \in McType : /\ n = [m EXCEPT !.rev = r, !.targets = t] /\ n.targets = t
                            /\ n.upgrading = m.upgrading /\ n.recent = m.recent
    <3> DEFINE n == [m EXCEPT !.rev = r, !.targets = t]
    <3>1. n \in McType /\ n.targets = t /\ n.upgrading = m.upgrading /\ n.recent = m.recent
      BY <1>1, <1>4, <2>1, Zenon DEF McType
    <3> QED BY <3>1, Zenon
  <2> QED BY <1>2, <1>4, <2>2, Zenon
<1>5. ASSUME NEW n \in McType, n.targets = m.targets,
             (n.upgrading = m.upgrading /\ n.recent = m.recent) \/ n.upgrading = n.recent \/ ~n.recent
      PROVE  Sound(n)
  BY <1>1, <1>5 DEF Sound, Proper
<1>6. \A v \in Versions : Sound([m EXCEPT !.ver = v])
  BY <1>1, <1>5, SetVersion, Zenon
<1>7. \A r \in Versions \cup {NoRevision} : Sound([m EXCEPT !.rev = r])
  BY <1>1, <1>5, SetRev, Zenon
<1>8. \A u \in BOOLEAN : Sound([m EXCEPT !.upgrading = u, !.recent = u])
  BY <1>1, <1>5, SetCondition, Zenon
<1>9. Sound([m EXCEPT !.recent = FALSE])
  BY <1>1, <1>5, SetRecent, Zenon
<1> QED BY <1>3, <1>4, <1>6, <1>7, <1>8, <1>9, Zenon

\* addProjects
LEMMA AddSound ==
  ASSUME NEW m, Sound(m), NEW p \in Projects, p \notin ProjectsOf(m)
  PROVE  Sound([m EXCEPT !.targets = Append(@, Target(p))])
<1> DEFINE s == Append(m.targets, Target(p))
<1>1. m \in McType
  BY DEF Sound
<1>2. Target(p) \in TargetType /\ Target(p).project = p
  BY DEF Target, TargetType
<1>3. /\ s \in Seq(TargetType) /\ DOMAIN s = 1 .. Len(m.targets) + 1
      /\ DOMAIN m.targets = 1 .. Len(m.targets) /\ Len(m.targets) \in Nat
      /\ \A i \in DOMAIN m.targets : s[i] = m.targets[i]
      /\ s[Len(m.targets) + 1] = Target(p)
  BY <1>1, <1>2, McFields
<1>4. \A i, j \in DOMAIN s : s[i].project = s[j].project => i = j
  BY <1>2, <1>3 DEF Sound, Proper, ProjectsOf
<1> DEFINE n == [m EXCEPT !.targets = s]
<1> HIDE DEF s
<1>5. n \in McType /\ n.targets = s /\ n.recent = m.recent /\ n.upgrading = m.upgrading
  BY <1>1, <1>3, Zenon DEF McType
<1> HIDE DEF n
<1>6. Sound(n)
  BY <1>4, <1>5, Zenon DEF Sound, Proper
<1> QED BY <1>6, Zenon DEF n, s

LEMMA FunctionsAreSequences ==
  ASSUME NEW T, NEW n \in Nat, NEW f \in [1 .. n -> T]
  PROVE  f \in Seq(T) /\ Len(f) = n /\ DOMAIN f = 1 .. n
<1>1. f \in Seq(T)
  OBVIOUS
<1>2. DOMAIN f = 1 .. n /\ DOMAIN f = 1 .. Len(f) /\ Len(f) \in Nat
  BY <1>1
<1>3. \A k \in Nat : 1 .. n = 1 .. k => n = k
  <2> SUFFICES ASSUME NEW k \in Nat, 1 .. n = 1 .. k PROVE n = k
    OBVIOUS
  <2>1. n \in 1 .. n \/ n = 0
    OBVIOUS
  <2>2. k \in 1 .. k \/ k = 0
    OBVIOUS
  <2> QED BY <2>1, <2>2
<1> QED BY <1>1, <1>2, <1>3

\* What Without leaves: all targets but one, in their order.
LEMMA WithoutParts ==
  ASSUME NEW s \in Seq(TargetType), NEW i \in DOMAIN s
  PROVE  /\ Without(s, i) \in Seq(TargetType) /\ Len(Without(s, i)) = Len(s) - 1
         /\ DOMAIN Without(s, i) = 1 .. Len(s) - 1
         /\ \A j \in 1 .. Len(s) - 1 : Without(s, i)[j] = IF j < i THEN s[j] ELSE s[j + 1]
<1>1. Len(s) \in Nat /\ DOMAIN s = 1 .. Len(s) /\ Len(s) - 1 \in Nat
  OBVIOUS
<1>2. \A j \in 1 .. Len(s) - 1 : (IF j < i THEN s[j] ELSE s[j + 1]) \in TargetType
  BY <1>1
<1>3. Without(s, i) \in [1 .. Len(s) - 1 -> TargetType]
  BY <1>2 DEF Without
<1>4. Without(s, i) \in Seq(TargetType) /\ Len(Without(s, i)) = Len(s) - 1
  BY <1>1, <1>3, FunctionsAreSequences, Zenon
<1> QED BY <1>1, <1>4 DEF Without

\* removeProjects
LEMMA RemoveSound ==
  ASSUME NEW m, Sound(m), NEW i \in DOMAIN m.targets
  PROVE  Sound([m EXCEPT !.targets = Without(@, i)])
<1> DEFINE s == Without(m.targets, i)
<1>1. m \in McType /\ m.targets \in Seq(TargetType) /\ DOMAIN m.targets = 1 .. Len(m.targets)
      /\ Len(m.targets) \in Nat
  BY McFields DEF Sound
<1>2. /\ s \in Seq(TargetType) /\ DOMAIN s = 1 .. Len(m.targets) - 1
      /\ \A j \in DOMAIN s : s[j] = IF j < i THEN m.targets[j] ELSE m.targets[j + 1]
  BY <1>1, WithoutParts, Zenon
<1> HIDE DEF s
<1>3. \A j, k \in DOMAIN m.targets : m.targets[j].project = m.targets[k].project => j = k
  BY DEF Sound, Proper
<1>4. \A j, k \in DOMAIN s : s[j].project = s[k].project => j = k
  <2> SUFFICES ASSUME NEW j \in DOMAIN s, NEW k \in DOMAIN s, s[j].project = s[k].project
               PROVE  j = k
    OBVIOUS
  <2>1. i \in Nat /\ j \in Nat /\ k \in Nat
    BY <1>1, <1>2
  <2>2. /\ s[j] = m.targets[IF j < i THEN j ELSE j + 1] /\ s[k] = m.targets[IF k < i THEN k ELSE k + 1]
    BY <1>2
  <2>3. (IF j < i THEN j ELSE j + 1) \in DOMAIN m.targets /\ (IF k < i THEN k ELSE k + 1) \in DOMAIN m.targets
    BY <1>1, <1>2
  <2>4. (IF j < i THEN j ELSE j + 1) = (IF k < i THEN k ELSE k + 1)
    BY <1>3, <2>2, <2>3
  <2> QED BY <2>1, <2>4
<1> DEFINE n == [m EXCEPT !.targets = s]
<1>5. n \in McType /\ n.targets = s /\ n.recent = m.recent /\ n.upgrading = m.upgrading
  BY <1>1, <1>2, Zenon DEF McType
<1> HIDE DEF n
<1>6. Sound(n)
  BY <1>4, <1>5, Zenon DEF Sound, Proper
<1> QED BY <1>6, Zenon DEF n, s

-----------------------------------------------------------------------------
(* The handler's own state.                                                *)

LEMMA Ended ==
  ASSUME pc' = "idle", my' = NoMcApp, stale' \in BOOLEAN, todo' = {}, named' = {}
  PROVE  HandlerOK'
<1>1. Sound(NoMcApp) /\ ~NoMcApp.there
  BY NoneSound, Zenon
<1> QED BY <1>1, SMT DEF HandlerOK, Labels, Sound

LEMMA Returned ==
  ASSUME NEW failed, Return(failed)
  PROVE  HandlerOK' /\ queued' \in BOOLEAN
<1>1. queued' \in BOOLEAN
  BY Zenon DEF Return
<1>2. HandlerOK'
  BY Ended, Zenon DEF Return
<1> QED BY <1>1, <1>2, Zenon

LEMMA HandlerWaits ==
  ASSUME HandlerOK, UNCHANGED <<pc, my, todo, named>>, stale' \in BOOLEAN
  PROVE  HandlerOK'
  BY Zenon DEF HandlerOK, Labels, Sound, NamedAt

\* The handler has the multi-cluster app in hand and goes on to another step.
LEMMA HandlerMoves ==
  ASSUME HandlerOK, pc # "idle", my' = my, stale' \in BOOLEAN,
         \/ pc' = "name" /\ todo' = {} /\ named' \subseteq DOMAIN my.targets
         \/ pc' = "update" /\ named' = {} /\ todo' \subseteq NamedAt
         \/ pc' \in {"revision", "done"} /\ todo' = {} /\ named' = {}
  PROVE  HandlerOK'
<1>1. Sound(my') /\ my'.there
  BY Zenon DEF HandlerOK
<1>2. pc' \in Labels /\ pc' # "idle"
  BY SMT DEF Labels
<1>3. todo' \cup named' \subseteq DOMAIN my'.targets /\ todo' \subseteq NamedAt'
  <2>1. NamedAt' = NamedAt /\ NamedAt \subseteq DOMAIN my.targets
    BY Zenon DEF NamedAt
  <2> QED BY <2>1, SMT
<1>4. (pc' # "name" => named' = {}) /\ (pc' # "update" => todo' = {})
  BY SMT
<1> QED BY <1>1, <1>2, <1>3, <1>4, Zenon DEF HandlerOK

\* What becomes of the handler when it decides.
Updated == {i \in DOMAIN my.targets : IsUpdated(i)}
Revises(S) ==
  IF IsChanged(my) THEN my.upgrading /\ Cardinality(Updated) + Cardinality(S) = Len(my.targets)
  ELSE my.rev = NoRevision

LEMMA Decided ==
  ASSUME NEW S, Decide(S), ticking \in BOOLEAN
  PROVE  /\ queued' = queued /\ ticking' \in BOOLEAN
         /\ \/ pc' = "revision" /\ my' = my /\ todo' = todo /\ Revises(S)
            \/ /\ pc' = "update" /\ my' = my /\ todo' \subseteq NamedAt
               /\ IsChanged(my) /\ ~Revises(S)
            \/ pc' = "idle" /\ my' = NoMcApp /\ todo' = {}
<1>1. CASE Revises(S)
  BY <1>1, Zenon DEF Decide, Revises, Updated
<1>2. CASE ~Revises(S)
  <2>1. NextBatch(Batch - Cardinality(S)) \subseteq NamedAt
    BY Zenon DEF NextBatch, First, NamedAt
  <2>2. ticking' = ticking /\ queued' = queued
    BY <1>2, Zenon DEF Decide, Revises, Updated
  <2>3. \/ pc' = "update" /\ my' = my /\ todo' = NextBatch(Batch - Cardinality(S)) /\ ToUpdate(my)
        \/ pc' = "idle" /\ my' = NoMcApp /\ todo' = {}
    BY <1>2, Zenon DEF Decide, Revises, Updated
  <2> QED BY <1>2, <2>1, <2>2, <2>3, Zenon DEF ToUpdate
<1> QED BY <1>1, <1>2, Zenon

\* The three ways createApps ends.
LEMMA Created ==
  ASSUME CreateApps, HandlerOK, RestOK
  PROVE  HandlerOK' /\ queued' \in BOOLEAN /\ ticking' \in BOOLEAN
<1>1. pc = "create" /\ todo = {} /\ named = {} /\ stale \in BOOLEAN /\ queued \in BOOLEAN /\ ticking \in BOOLEAN
  BY Zenon DEF CreateApps, HandlerOK, RestOK
<1>2. \/ Return(TRUE) /\ UNCHANGED ticking
      \/ /\ pc' = "name" /\ named' = {i \in Creating : Found(i)}
         /\ UNCHANGED <<queued, my, stale, todo, ticking>>
      \/ Decide({}) /\ named' = {} /\ stale' = (stale /\ pc' # "idle")
  BY Zenon DEF CreateApps
<1>3. CASE Return(TRUE) /\ UNCHANGED ticking
  BY <1>1, <1>3, Returned, Zenon
<1>4. CASE /\ pc' = "name" /\ named' = {i \in Creating : Found(i)}
           /\ UNCHANGED <<queued, my, stale, todo, ticking>>
  <2>1. named' \subseteq DOMAIN my.targets
    BY <1>4, Zenon DEF Creating
  <2>2. pc # "idle" /\ todo' = {}
    BY <1>1, <1>4, Zenon
  <2>3. HandlerOK'
    BY <1>1, <1>4, <2>1, <2>2, HandlerMoves, Zenon
  <2> QED BY <1>1, <1>4, <2>3, Zenon
<1>5. CASE Decide({}) /\ named' = {} /\ stale' = (stale /\ pc' # "idle")
  <2>1. /\ queued' = queued /\ ticking' \in BOOLEAN
        /\ \/ pc' = "revision" /\ my' = my /\ todo' = todo
           \/ pc' = "update" /\ my' = my /\ todo' \subseteq NamedAt
           \/ pc' = "idle" /\ my' = NoMcApp /\ todo' = {}
    BY <1>1, <1>5, Decided, Zenon
  <2>2. pc # "idle" /\ stale' \in BOOLEAN /\ pc' \in {"revision", "update", "idle"}
    BY <1>1, <1>5, <2>1, Zenon
  <2>3. HandlerOK'
    BY <1>1, <1>5, <2>1, <2>2, HandlerMoves, Ended, Zenon
  <2> QED BY <1>1, <2>1, <2>3, Zenon
<1> QED BY <1>2, <1>3, <1>4, <1>5, Zenon

LEMMA Decides ==
  ASSUME Decide(named), named' = {}, stale' \in BOOLEAN, HandlerOK, pc = "name", RestOK
  PROVE  HandlerOK' /\ queued' \in BOOLEAN /\ ticking' \in BOOLEAN
<1>1. todo = {} /\ queued \in BOOLEAN /\ ticking \in BOOLEAN
  BY Zenon DEF HandlerOK, RestOK
<1>2. /\ queued' = queued /\ ticking' \in BOOLEAN
      /\ \/ pc' = "revision" /\ my' = my /\ todo' = todo
         \/ pc' = "update" /\ my' = my /\ todo' \subseteq NamedAt
         \/ pc' = "idle" /\ my' = NoMcApp /\ todo' = {}
  BY <1>1, Decided, Zenon
<1>3. pc # "idle" /\ pc' \in {"revision", "update", "idle"}
  BY <1>2, Zenon
<1>4. HandlerOK'
  BY <1>1, <1>2, <1>3, HandlerMoves, Ended, Zenon
<1> QED BY <1>1, <1>2, <1>4, Zenon

-----------------------------------------------------------------------------
(* The apps, and what is written of the multi-cluster app.                 *)

LEMMA AppFields ==
  ASSUME NEW a \in AppType
  PROVE  /\ a.there \in BOOLEAN /\ a.ver \in Versions /\ a.deployed \in 0 .. MaxVersion
         /\ a.ver \in 0 .. MaxVersion
         /\ [a EXCEPT !.ending = TRUE] \in AppType /\ [a EXCEPT !.ready = FALSE] \in AppType
         /\ [a EXCEPT !.ready = TRUE, !.deployed = a.ver] \in AppType
         /\ [a EXCEPT !.deployed = a.ver] \in AppType
         /\ \A v \in Versions : [a EXCEPT !.ver = v] \in AppType
<1>1. a.there \in BOOLEAN /\ a.ver \in Versions /\ a.deployed \in 0 .. MaxVersion
  BY Zenon DEF AppType
<1>2. a.ver \in 0 .. MaxVersion
  BY <1>1, RollingUpdate DEF Versions
<1>3. [a EXCEPT !.ending = TRUE] \in AppType /\ [a EXCEPT !.ready = FALSE] \in AppType
  BY Zenon DEF AppType
<1>4. /\ [a EXCEPT !.ready = TRUE, !.deployed = a.ver] \in AppType
      /\ [a EXCEPT !.deployed = a.ver] \in AppType
  BY <1>2, Zenon DEF AppType
<1>5. \A v \in Versions : [a EXCEPT !.ver = v] \in AppType
  BY Zenon DEF AppType
<1> QED BY <1>1, <1>2, <1>3, <1>4, <1>5, Zenon

LEMMA NewApp ==
  ASSUME NEW v \in Versions
  PROVE  Gone \in AppType /\ [Gone EXCEPT !.there = TRUE, !.ver = v] \in AppType
<1>1. Gone \in AppType
  BY RollingUpdate, SMT DEF Gone, AppType, Versions
<1>2. \A a \in AppType : [a EXCEPT !.there = TRUE, !.ver = v] \in AppType
  BY Zenon DEF AppType
<1> QED BY <1>1, <1>2, Zenon

\* delete keeps the apps typed.
LEMMA DeletedApps ==
  ASSUME AppsOK, NEW S, app' = Deleted(S), aold' = aold \cup Changed(Deleted(S)), acache' = acache
  PROVE  AppsOK'
<1>1. app \in AppFcn /\ acache \in AppFcn /\ aold \subseteq Projects
  BY SMT DEF AppsOK
<1>2. \A p \in Projects : app[p] \in AppType
  BY <1>1, Zenon DEF AppFcn
<1>3. \A p \in Projects : [app[p] EXCEPT !.ending = TRUE] \in AppType
  BY <1>2, AppFields, Zenon
<1>4. app' \in AppFcn
  BY <1>2, <1>3, Zenon DEF Deleted, AppFcn
<1>5. aold' \subseteq Projects
  BY <1>1, Zenon DEF Changed
<1> QED BY <1>1, <1>4, <1>5, SMT DEF AppsOK

\* One app becomes another.
LEMMA OneApp ==
  ASSUME AppsOK, NEW p \in Projects, NEW a \in AppType, app' = [app EXCEPT ![p] = a],
         aold' \subseteq aold \cup {p}, acache' = acache
  PROVE  AppsOK'
<1>1. app \in AppFcn /\ acache \in AppFcn /\ aold \subseteq Projects
  BY SMT DEF AppsOK
<1>2. app' \in AppFcn
  BY <1>1, Zenon DEF AppFcn
<1>3. aold' \subseteq Projects
  BY <1>1, SMT
<1> QED BY <1>1, <1>2, <1>3, SMT DEF AppsOK

LEMMA AppsWait == AppsOK /\ UNCHANGED avars => AppsOK'
  BY SMT DEF AppsOK, avars

LEMMA TargetNamed ==
  ASSUME NEW t \in TargetType, NEW x \in Projects \cup {NoApp}
  PROVE  /\ t.project \in Projects /\ t.app \in Projects \cup {NoApp}
         /\ [t EXCEPT !.app = x] \in TargetType /\ [t EXCEPT !.app = x].project = t.project
         /\ [t EXCEPT !.app = x].app = x
  BY Zenon DEF TargetType

LEMMA Renaming ==
  ASSUME NEW s \in Seq(TargetType), NEW f, f \in [DOMAIN s -> TargetType],
         \A i \in DOMAIN s : f[i].project = s[i].project
  PROVE  Renamed(s, f)
<1>1. Len(s) \in Nat /\ DOMAIN s = 1 .. Len(s)
  OBVIOUS
<1>2. f \in [1 .. Len(s) -> TargetType]
  BY <1>1, Zenon
<1>3. f \in Seq(TargetType) /\ Len(f) = Len(s)
  BY <1>1, <1>2, FunctionsAreSequences
<1> QED BY <1>3, Zenon DEF Renamed

\* The names that createApps gives, and those that updateCondition copies.
NamedTargets(m, S) ==
  [i \in DOMAIN m.targets |->
     LET t == m.targets[i] IN IF i \in S THEN [t EXCEPT !.app = t.project] ELSE t]
CopiedTargets(m, y, S) ==
  [i \in DOMAIN m.targets |->
     IF i \in S THEN [m.targets[i] EXCEPT !.app = y.targets[i].app] ELSE m.targets[i]]

LEMMA NamedRenamed ==
  ASSUME NEW m \in McType, NEW S
  PROVE  Renamed(m.targets, NamedTargets(m, S))
<1> DEFINE s == m.targets
           f == NamedTargets(m, S)
<1>1. s \in Seq(TargetType) /\ \A i \in DOMAIN s : s[i] \in TargetType /\ s[i].project \in Projects
  BY McFields, Zenon
<1>2. \A i \in DOMAIN s : f[i] = IF i \in S THEN [s[i] EXCEPT !.app = s[i].project] ELSE s[i]
  BY Zenon DEF NamedTargets
<1>3. \A i \in DOMAIN s : f[i] \in TargetType /\ f[i].project = s[i].project
  <2> TAKE i \in DOMAIN s
  <2>1. CASE i \in S
    <3>1. s[i] \in TargetType /\ s[i].project \in Projects \cup {NoApp}
      BY <1>1, <2>1, Zenon
    <3>2. f[i] = [s[i] EXCEPT !.app = s[i].project]
      BY <1>2, <2>1, Zenon
    <3> QED BY <3>1, <3>2, Zenon DEF TargetType
  <2>2. CASE i \notin S
    BY <1>1, <1>2, <2>2, Zenon
  <2> QED BY <2>1, <2>2, Zenon
<1>4. f \in [DOMAIN s -> TargetType]
  <2>1. \A i \in DOMAIN s :
          (IF i \in S THEN [s[i] EXCEPT !.app = s[i].project] ELSE s[i]) \in TargetType
    BY <1>2, <1>3, Zenon
  <2> QED BY <2>1, Zenon DEF NamedTargets
<1> HIDE DEF s, f
<1>5. Renamed(s, f)
  BY <1>1, <1>3, <1>4, Renaming, Zenon
<1> QED BY <1>5, Zenon DEF s, f

LEMMA CopiedRenamed ==
  ASSUME NEW m \in McType, NEW y \in McType, NEW S, S \subseteq DOMAIN y.targets
  PROVE  Renamed(m.targets, CopiedTargets(m, y, S))
<1> DEFINE s == m.targets
           u == y.targets
           f == CopiedTargets(m, y, S)
<1>1. /\ s \in Seq(TargetType) /\ \A i \in DOMAIN s : s[i] \in TargetType
      /\ \A i \in S : u[i].app \in Projects \cup {NoApp}
  BY McFields, Zenon
<1>2. \A i \in DOMAIN s : f[i] = IF i \in S THEN [s[i] EXCEPT !.app = u[i].app] ELSE s[i]
  BY Zenon DEF CopiedTargets
<1>3. \A i \in DOMAIN s : f[i] \in TargetType /\ f[i].project = s[i].project
  <2> TAKE i \in DOMAIN s
  <2>1. CASE i \in S
    <3>1. s[i] \in TargetType /\ u[i].app \in Projects \cup {NoApp}
      BY <1>1, <2>1, Zenon
    <3>2. f[i] = [s[i] EXCEPT !.app = u[i].app]
      BY <1>2, <2>1, Zenon
    <3> QED BY <3>1, <3>2, Zenon DEF TargetType
  <2>2. CASE i \notin S
    BY <1>1, <1>2, <2>2, Zenon
  <2> QED BY <2>1, <2>2, Zenon
<1>4. f \in [DOMAIN s -> TargetType]
  <2>1. \A i \in DOMAIN s :
          (IF i \in S THEN [s[i] EXCEPT !.app = u[i].app] ELSE s[i]) \in TargetType
    BY <1>2, <1>3, Zenon
  <2> QED BY <2>1, Zenon DEF CopiedTargets
<1> HIDE DEF s, u, f
<1>5. Renamed(s, f)
  BY <1>1, <1>3, <1>4, Renaming, Zenon
<1> QED BY <1>5, Zenon DEF s, f

-----------------------------------------------------------------------------
(* Types                                                                   *)

\* The three ways updateCondition ends.
LEMMA Conditions ==
  ASSUME NEW u, UpdateCondition(u)
  PROVE  \/ /\ ~stale /\ Return(FALSE)
            /\ mc' = [my EXCEPT !.upgrading = u, !.recent = u] /\ mold' = TRUE
         \/ /\ stale /\ mc.there /\ NamedAt \subseteq DOMAIN mc.targets /\ Return(FALSE)
            /\ mc' = [Latest EXCEPT !.upgrading = u, !.recent = u] /\ mold' = TRUE
         \/ Return(TRUE) /\ UNCHANGED <<mc, mold>>
  BY Zenon DEF UpdateCondition, Updatable, Write

LEMMA LatestSound ==
  ASSUME Sound(mc), Sound(my) PROVE Sound(Latest)
<1>1. mc \in McType /\ my \in McType /\ NamedAt \subseteq DOMAIN my.targets
  BY Zenon DEF Sound, NamedAt
<1>2. Renamed(mc.targets, CopiedTargets(mc, my, NamedAt))
  BY <1>1, CopiedRenamed, Zenon
<1>3. my.rev \in Versions \cup {NoRevision}
  BY <1>1, McFields, Zenon
<1> QED BY <1>2, <1>3, UpdatesSound, Zenon DEF Latest, CopiedTargets

LEMMA Conditioned ==
  ASSUME TypeInv, NEW u \in BOOLEAN, UpdateCondition(u)
  PROVE  Sound(mc)' /\ mold' \in BOOLEAN /\ HandlerOK' /\ queued' \in BOOLEAN
<1>1. Sound(mc) /\ Sound(my) /\ mold \in BOOLEAN
  BY Zenon DEF TypeInv, HandlerOK, RestOK
<1>2. Sound(Latest)
  BY <1>1, LatestSound, Zenon
<1>3. /\ Sound([my EXCEPT !.upgrading = u, !.recent = u])
      /\ Sound([Latest EXCEPT !.upgrading = u, !.recent = u])
  BY <1>1, <1>2, UpdatesSound, Zenon
<1>4. \/ /\ Return(FALSE) /\ mc' = [my EXCEPT !.upgrading = u, !.recent = u] /\ mold' = TRUE
      \/ /\ Return(FALSE) /\ mc' = [Latest EXCEPT !.upgrading = u, !.recent = u] /\ mold' = TRUE
      \/ Return(TRUE) /\ mc' = mc /\ mold' = mold
  BY Conditions, Zenon
<1>5. HandlerOK' /\ queued' \in BOOLEAN
  BY <1>4, Returned, Zenon
<1>6. mold' \in BOOLEAN
  BY <1>1, <1>4, Zenon
<1>7. Sound(mc')
  BY <1>1, <1>3, <1>4, Zenon
<1> QED BY <1>5, <1>6, <1>7, Zenon DEF Sound, Proper

LEMMA Counted ==
  ASSUME RestOK, NEW kind, Change(kind) PROVE changes' \in Nat
  BY DEF RestOK, Change

LEMMA UserWritten ==
  ASSUME TypeInv, NEW n, Sound(n), UserWrites(n), changes' \in Nat
  PROVE  TypeInv'
<1>1. Sound(mc)' /\ Sound(mcache)'
  BY Zenon DEF UserWrites, Write, TypeInv, Sound, Proper
<1>2. AppsOK'
  BY AppsWait, Zenon DEF UserWrites, TypeInv
<1>3. HandlerOK'
  BY HandlerWaits, Zenon DEF UserWrites, TypeInv
<1>4. RestOK'
  <2>1. /\ unlisted' = unlisted /\ mold' = TRUE /\ queued' = queued /\ ticking' = ticking
        /\ dropped' = dropped \cup (ProjectsOf(mc) \ ProjectsOf(n))
    BY Zenon DEF UserWrites, Write
  <2>2. ProjectsOf(mc) \subseteq Projects
    BY McFields, Zenon DEF TypeInv, Sound, ProjectsOf
  <2> QED BY <2>1, <2>2, SMT DEF TypeInv, RestOK
<1> QED BY <1>1, <1>2, <1>3, <1>4, Zenon DEF TypeInv

LEMMA AppSet ==
  ASSUME TypeInv, NEW p \in Projects, NEW a \in AppType, SetApp(p, a), changes' \in Nat
  PROVE  TypeInv'
<1>1. Sound(mc)' /\ Sound(mcache)' /\ RestOK'
  BY Zenon DEF SetApp, mvars, TypeInv, RestOK, Sound, Proper
<1>2. AppsOK'
  <2>1. /\ app' = [app EXCEPT ![p] = a] /\ aold' \subseteq aold \cup {p} /\ acache' = acache
    BY Zenon DEF SetApp
  <2> QED BY <2>1, OneApp, Zenon DEF TypeInv
<1>3. HandlerOK'
  <2>1. UNCHANGED <<pc, my, todo, named>> /\ stale' \in BOOLEAN
    BY Zenon DEF SetApp, hvars, TypeInv, HandlerOK
  <2> QED BY <2>1, HandlerWaits, Zenon DEF TypeInv
<1> QED BY <1>1, <1>2, <1>3, Zenon DEF TypeInv

\* Nothing but the handler's own state and the queue changes.
LEMMA HandlerOnly ==
  ASSUME TypeInv, UNCHANGED <<mvars, avars>>, HandlerOK',
         queued' \in BOOLEAN, unlisted' \subseteq Versions, ticking' \in BOOLEAN,
         dropped' \subseteq Projects, changes' \in Nat
  PROVE  TypeInv'
<1>1. Sound(mc)' /\ Sound(mcache)' /\ mold' \in BOOLEAN
  BY Zenon DEF mvars, TypeInv, RestOK, Sound, Proper
<1>2. AppsOK'
  BY AppsWait, Zenon DEF TypeInv
<1>3. RestOK'
  BY <1>1, SMT DEF RestOK
<1> QED BY <1>1, <1>2, <1>3, Zenon DEF TypeInv

LEMMA HandlerTypes ==
  ASSUME TypeInv, Handler
  PROVE  TypeInv'
<1>0. /\ Sound(mc) /\ Sound(mcache) /\ AppsOK /\ HandlerOK /\ RestOK
  BY Zenon DEF TypeInv
<1>00. /\ unlisted \subseteq Versions /\ mold \in BOOLEAN /\ queued \in BOOLEAN /\ ticking \in BOOLEAN
       /\ dropped \subseteq Projects /\ changes \in Nat /\ stale \in BOOLEAN
  BY <1>0, SMT DEF RestOK, HandlerOK
<1>1. ASSUME SyncDeleted PROVE TypeInv'
  <2>1. /\ UNCHANGED <<mc, mcache, mold, pc, my, stale, todo, named, unlisted, dropped, changes>>
        /\ queued' = FALSE /\ ticking' = FALSE
    BY <1>1, Zenon DEF SyncDeleted, mvars, hvars
  <2>2. AppsOK'
    BY <1>0, <1>1, DeletedApps, SMT DEF SyncDeleted
  <2>3. HandlerOK'
    BY <1>0, <1>00, <2>1, HandlerWaits, Zenon
  <2>4. RestOK'
    <3>1. queued' \in BOOLEAN /\ ticking' \in BOOLEAN
      BY <2>1, Zenon
    <3> QED BY <1>00, <2>1, <3>1, SMT DEF RestOK
  <2> QED BY <1>0, <2>1, <2>2, <2>3, <2>4, Zenon DEF TypeInv, Sound, Proper
<1>2. ASSUME Sync PROVE TypeInv'
  <2>1. /\ UNCHANGED <<mc, mcache, mold, unlisted, todo, named, ticking, dropped, changes>>
        /\ pc = "idle" /\ mcache.there
        /\ \/ UNCHANGED <<queued, pc, my, stale>>
           \/ queued' = FALSE /\ pc' = "create" /\ my' = mcache /\ stale' = mold
    BY <1>2, Zenon DEF Sync, mvars
  <2>2. AppsOK'
    BY <1>0, <1>2, DeletedApps, Zenon DEF Sync
  <2>3. HandlerOK'
    <3>1. CASE UNCHANGED <<queued, pc, my, stale>>
      BY <1>0, <1>00, <2>1, <3>1, HandlerWaits, Zenon
    <3>2. CASE queued' = FALSE /\ pc' = "create" /\ my' = mcache /\ stale' = mold
      <4>1. todo' = {} /\ named' = {} /\ Sound(my') /\ my'.there
        BY <1>0, <2>1, <3>2, Zenon DEF HandlerOK
      <4> QED BY <1>00, <3>2, <4>1, SMT DEF HandlerOK, Labels
    <3> QED BY <2>1, <3>1, <3>2, Zenon
  <2>4. RestOK'
    <3>1. queued' \in BOOLEAN
      BY <1>00, <2>1, Zenon
    <3> QED BY <1>00, <2>1, <3>1, SMT DEF RestOK
  <2> QED BY <1>0, <2>1, <2>2, <2>3, <2>4, Zenon DEF TypeInv, Sound, Proper
<1>3. ASSUME CreateApps PROVE TypeInv'
  <2>1. UNCHANGED <<mc, mcache, mold, acache, unlisted, dropped, changes>>
    BY <1>3, Zenon DEF CreateApps, mvars
  <2>2. HandlerOK' /\ queued' \in BOOLEAN /\ ticking' \in BOOLEAN
    BY <1>0, <1>3, Created, Zenon
  <2>3. AppsOK'
    <3> DEFINE create == {my.targets[i].project : i \in Creating}
               new == [Gone EXCEPT !.there = TRUE, !.ver = my.ver]
    <3>1. /\ app' = [p \in Projects |-> IF p \in create /\ ~acache[p].there /\ ~app[p].there
                                        THEN new ELSE app[p]]
          /\ aold' = aold \cup {p \in create : ~acache[p].there /\ ~app[p].there}
      BY <1>3, Zenon DEF CreateApps
    <3>2. new \in AppType /\ create \subseteq Projects
      <4>1. my \in McType
        BY <1>0, Zenon DEF HandlerOK, Sound
      <4>2. my.ver \in Versions /\ \A i \in DOMAIN my.targets : my.targets[i].project \in Projects
        BY <4>1, McFields, Zenon
      <4>3. Creating \subseteq DOMAIN my.targets
        BY Zenon DEF Creating
      <4> QED BY <4>2, <4>3, NewApp, Zenon
    <3> HIDE DEF create, new
    <3>3. app \in AppFcn /\ acache \in AppFcn /\ aold \subseteq Projects
      BY <1>0, SMT DEF AppsOK
    <3>4. app' \in AppFcn
      BY <3>1, <3>2, <3>3, Zenon DEF AppFcn
    <3>5. aold' \subseteq Projects
      BY <3>1, <3>2, <3>3, Zenon
    <3> QED BY <2>1, <3>3, <3>4, <3>5, SMT DEF AppsOK
  <2>4. RestOK'
    BY <1>00, <2>1, <2>2, SMT DEF RestOK
  <2> QED BY <1>0, <2>1, <2>2, <2>3, <2>4, Zenon DEF TypeInv, Sound, Proper
<1>4. ASSUME NameApps PROVE TypeInv'
  <2>1. pc = "name" /\ UNCHANGED <<mcache, avars, unlisted, dropped, changes>>
    BY <1>4, Zenon DEF NameApps
  <2>2. CASE Return(TRUE) /\ UNCHANGED <<mc, mold, ticking>>
    BY <1>0, <1>00, <2>1, <2>2, Returned, HandlerOnly, Zenon DEF mvars
  <2>3. CASE /\ Write([my EXCEPT !.targets = NamedTargets(my, named)])
             /\ Decide(named) /\ named' = {} /\ stale' = (pc' # "idle")
    <3>1. my \in McType
      BY <1>0, Zenon DEF HandlerOK, Sound
    <3>2. Sound([my EXCEPT !.targets = NamedTargets(my, named)])
      BY <1>0, <3>1, NamedRenamed, UpdatesSound, Zenon DEF HandlerOK
    <3>3. Sound(mc') /\ mold' = TRUE
      BY <2>3, <3>2, Zenon DEF Write
    <3>4. HandlerOK' /\ queued' \in BOOLEAN /\ ticking' \in BOOLEAN
      BY <1>0, <2>1, <2>3, Decides, Zenon
    <3>5. RestOK'
      BY <1>00, <2>1, <3>3, <3>4, SMT DEF RestOK
    <3>6. AppsOK'
      BY <1>0, <2>1, AppsWait, Zenon
    <3> QED BY <1>0, <2>1, <3>3, <3>4, <3>5, <3>6, Zenon DEF TypeInv, Sound, Proper
  <2> QED BY <1>4, <2>2, <2>3, Zenon DEF NameApps, NamedTargets
<1>5. ASSUME UpdateApp PROVE TypeInv'
  <2>1. pc = "update" /\ UNCHANGED <<mc, mcache, mold, acache, unlisted, ticking, dropped, changes>>
    BY <1>5, Zenon DEF UpdateApp, mvars
  <2>2. PICK i \in todo :
          \/ /\ app[my.targets[i].app].there
             /\ app' = [app EXCEPT ![my.targets[i].app].ver = my.ver]
             /\ aold' = IF app[my.targets[i].app].ver = my.ver THEN aold ELSE aold \cup {my.targets[i].app}
             /\ todo' = todo \ {i}
             /\ UNCHANGED <<queued, pc, my, stale, named>>
          \/ Return(TRUE) /\ UNCHANGED <<app, aold>>
    BY <1>5, Zenon DEF UpdateApp
  <2>3. CASE Return(TRUE) /\ UNCHANGED <<app, aold>>
    <3>1. UNCHANGED <<mvars, avars>>
      BY <2>1, <2>3, Zenon DEF mvars, avars
    <3> QED BY <1>0, <1>00, <2>1, <2>3, <3>1, Returned, HandlerOnly, Zenon
  <2>4. CASE /\ app' = [app EXCEPT ![my.targets[i].app].ver = my.ver]
             /\ aold' = IF app[my.targets[i].app].ver = my.ver THEN aold ELSE aold \cup {my.targets[i].app}
             /\ todo' = todo \ {i}
             /\ UNCHANGED <<queued, pc, my, stale, named>>
    <3> DEFINE p == my.targets[i].app
    <3>1. HandlerOK'
      <4>1. todo' \subseteq todo
        BY <2>4, Zenon
      <4> QED BY <1>0, <2>1, <2>4, <4>1, Zenon DEF HandlerOK, Labels, Sound, NamedAt
    <3>2. my \in McType /\ i \in DOMAIN my.targets /\ p # NoApp
      BY <1>0, Zenon DEF HandlerOK, Sound, NamedAt
    <3>3. my.ver \in Versions /\ p \in Projects
      BY <3>2, McFields, Zenon
    <3> HIDE DEF p
    <3>4. app[p] \in AppType
      BY <1>0, <3>3, SMT DEF AppsOK, AppFcn
    <3>5. [app[p] EXCEPT !.ver = my.ver] \in AppType
      BY <3>3, <3>4, AppFields, Zenon
    <3>6. /\ app' = [app EXCEPT ![p] = [app[p] EXCEPT !.ver = my.ver]]
          /\ aold' \subseteq aold \cup {p} /\ acache' = acache
      BY <2>1, <2>4, Zenon DEF p
    <3>7. AppsOK'
      BY <1>0, <3>3, <3>5, <3>6, OneApp, Zenon
    <3>8. RestOK'
      BY <1>00, <2>1, <2>4, SMT DEF RestOK
    <3> QED BY <1>0, <2>1, <3>1, <3>7, <3>8, Zenon DEF TypeInv, Sound, Proper
  <2> QED BY <2>2, <2>3, <2>4, Zenon
<1>6. ASSUME SetInstalledUnknown \/ SetInstalledDone PROVE TypeInv'
  <2>1. UNCHANGED <<mcache, avars, unlisted, dropped, changes>>
    BY <1>6, Zenon DEF SetInstalledUnknown, SetInstalledDone
  <2>2. ticking' \in BOOLEAN
    BY <1>00, <1>6, Zenon DEF SetInstalledUnknown, SetInstalledDone
  <2>3. Sound(mc)' /\ mold' \in BOOLEAN /\ HandlerOK' /\ queued' \in BOOLEAN
    BY <1>6, Conditioned, Zenon DEF SetInstalledUnknown, SetInstalledDone
  <2>4. RestOK'
    BY <1>00, <2>1, <2>2, <2>3, SMT DEF RestOK
  <2>5. AppsOK'
    BY <1>0, <2>1, AppsWait, Zenon
  <2> QED BY <1>0, <2>1, <2>3, <2>4, <2>5, Zenon DEF TypeInv, Sound, Proper
<1>7. ASSUME SetRevision PROVE TypeInv'
  <2>1. pc = "revision" /\ UNCHANGED <<mvars, avars, ticking, dropped, changes>>
    BY <1>7, Zenon DEF SetRevision
  <2>2. CASE (Return(TRUE) \/ Return(FALSE)) /\ unlisted' = unlisted
    BY <1>00, <2>1, <2>2, Returned, HandlerOnly, Zenon
  <2>3. ASSUME NEW m \in {mc, my}, my' = [m EXCEPT !.rev = m.ver], stale' \in BOOLEAN, pc' = "done",
               mc.there, unlisted' = unlisted \cup {m.ver}, UNCHANGED <<queued, todo, named>>
        PROVE  TypeInv'
    <3>1. Sound(m) /\ m.there
      BY <1>0, <2>1, <2>3, Zenon DEF HandlerOK
    <3>2. m \in McType
      BY <3>1, Zenon DEF Sound
    <3>3. m.ver \in Versions
      BY <3>2, McFields, Zenon
    <3>4. Sound(my')
      BY <2>3, <3>1, <3>3, UpdatesSound, Zenon
    <3>5. my'.there
      <4>1. [m EXCEPT !.rev = m.ver].there = m.there
        BY <3>2, Zenon DEF McType
      <4> QED BY <2>3, <3>1, <4>1, Zenon
    <3>6. todo' = {} /\ named' = {}
      BY <1>0, <2>1, <2>3, Zenon DEF HandlerOK
    <3>7. HandlerOK'
      BY <2>3, <3>4, <3>5, <3>6, SMT DEF HandlerOK, Labels
    <3>8. unlisted' \subseteq Versions
      BY <1>00, <2>3, <3>3, Zenon
    <3> QED BY <1>00, <2>1, <2>3, <3>7, <3>8, HandlerOnly, Zenon
  <2> QED BY <1>00, <1>7, <2>2, <2>3, Zenon DEF SetRevision
<1> QED BY <1>1, <1>2, <1>3, <1>4, <1>5, <1>6, <1>7, Zenon DEF Handler

\* The sequences of targets of the initial states.
LEMMA StartTargets ==
  ASSUME NEW s \in Starts \cup Installed, NEW f, DOMAIN f = DOMAIN s,
         f \in [DOMAIN s -> TargetType], \A i \in DOMAIN s : f[i].project = s[i]
  PROVE  /\ f \in Seq(TargetType)
         /\ \A i, j \in DOMAIN f : f[i].project = f[j].project => i = j
<1>1. s \in Seq(Projects) /\ \A i, j \in DOMAIN s : s[i] = s[j] => i = j
  BY StartsAreDistinct, Zenon
<1>2. Len(s) \in Nat /\ DOMAIN s = 1 .. Len(s)
  BY <1>1
<1>3. f \in Seq(TargetType)
  BY <1>2, FunctionsAreSequences, Zenon
<1> QED BY <1>1, <1>3, Zenon

\* A multi-cluster app with targets of its own.
LEMMA StartSound ==
  ASSUME NEW f \in Seq(TargetType), NEW r \in Versions \cup {NoRevision}, NEW m,
         \A i, j \in DOMAIN f : f[i].project = f[j].project => i = j,
         m = [there |-> TRUE, ver |-> 1, targets |-> f, rev |-> r,
              upgrading |-> FALSE, recent |-> FALSE]
  PROVE  Sound(m)
<1>1. 1 \in Versions
  BY RollingUpdate DEF Versions
<1>2. m \in McType /\ m.targets = f /\ ~m.recent
  BY <1>1, Zenon DEF McType
<1> QED BY <1>2, Zenon DEF Sound, Proper

LEMMA StartTypes ==
  ASSUME Init, Sound(mc), app \in AppFcn, queued \in BOOLEAN
  PROVE  TypeInv
<1>1. Sound(NoMcApp) /\ ~NoMcApp.there
  BY NoneSound, Zenon
<1>2. Sound(mcache)
  BY Zenon DEF Init, Sound, Proper
<1>3. AppsOK
  BY SMT DEF Init, AppsOK
<1>4. HandlerOK
  <2>1. pc = "idle" /\ my = NoMcApp /\ stale \in BOOLEAN /\ todo = {} /\ named = {}
    BY Zenon DEF Init
  <2> QED BY <1>1, <2>1, SMT DEF HandlerOK, Labels
<1>5. RestOK
  <2>1. mold \in BOOLEAN /\ ticking \in BOOLEAN
    BY Zenon DEF Init
  <2> QED BY <2>1, SMT DEF Init, RestOK
<1> QED BY <1>2, <1>3, <1>4, <1>5, Zenon DEF TypeInv

LEMMA InitTypes == Init => TypeInv
<1> SUFFICES ASSUME Init PROVE TypeInv
  OBVIOUS
<1>1. Sound(NoMcApp) /\ ~NoMcApp.there /\ 1 \in Versions
  <2>1. 1 \in Versions
    BY RollingUpdate DEF Versions
  <2> QED BY <2>1, NoneSound, Zenon
<1>2. \A p \in Projects : /\ Target(p) \in TargetType /\ Target(p).project = p
                           /\ [project |-> p, app |-> p] \in TargetType
  BY SMT DEF Target, TargetType
<1>3. \A s \in Starts \cup Installed : \A i \in DOMAIN s : s[i] \in Projects
  <2> TAKE s \in Starts \cup Installed
  <2>1. s \in Seq(Projects)
    BY StartsAreDistinct, Zenon
  <2> QED BY <2>1
<1>4. Gone \in AppType
      /\ [there |-> TRUE, ending |-> FALSE, ver |-> 1, deployed |-> 1, ready |-> TRUE] \in AppType
  <2>1. 1 \in 0 .. MaxVersion
    BY RollingUpdate
  <2>2. [there |-> TRUE, ending |-> FALSE, ver |-> 1, deployed |-> 1, ready |-> TRUE] \in AppType
    BY <1>1, <2>1, Zenon DEF AppType
  <2> QED BY <1>1, <2>2, NewApp, Zenon
<1>5. CASE New
  <2>1. PICK s \in Starts : mc = McApp(s)
    BY <1>5, Zenon DEF New
  <2> DEFINE f == [i \in DOMAIN s |-> Target(s[i])]
  <2>2. /\ DOMAIN f = DOMAIN s /\ f \in [DOMAIN s -> TargetType]
        /\ \A i \in DOMAIN s : f[i].project = s[i]
    BY <1>2, <1>3, Zenon
  <2>3. mc = [there |-> TRUE, ver |-> 1, targets |-> f, rev |-> NoRevision,
              upgrading |-> FALSE, recent |-> FALSE]
    BY <2>1 DEF McApp, NoMcApp
  <2> HIDE DEF f
  <2>4. Sound(mc)
    BY <2>2, <2>3, StartTargets, StartSound, Zenon
  <2>5. app \in AppFcn
    BY <1>4, <1>5, Zenon DEF New, AppFcn
  <2>6. queued \in BOOLEAN
    BY <1>5, Zenon DEF New
  <2> QED BY <2>4, <2>5, <2>6, <1>1, StartTypes, Zenon
<1>6. CASE Running
  <2>1. PICK s \in Installed :
          mc = [McApp(s) EXCEPT !.rev = 1,
                  !.targets = [i \in DOMAIN s |-> [project |-> s[i], app |-> s[i]]]]
    BY <1>6, Zenon DEF Running
  <2> DEFINE f == [i \in DOMAIN s |-> [project |-> s[i], app |-> s[i]]]
  <2>2. /\ DOMAIN f = DOMAIN s /\ f \in [DOMAIN s -> TargetType]
        /\ \A i \in DOMAIN s : f[i].project = s[i]
    BY <1>2, <1>3, Zenon
  <2>3. mc = [there |-> TRUE, ver |-> 1, targets |-> f, rev |-> 1,
              upgrading |-> FALSE, recent |-> FALSE]
    BY <2>1 DEF McApp, NoMcApp
  <2> HIDE DEF f
  <2>4. Sound(mc)
    BY <1>1, <2>2, <2>3, StartTargets, StartSound, Zenon
  <2>5. app \in AppFcn
    BY <1>4, <1>6, Zenon DEF Running, AppFcn
  <2>6. queued \in BOOLEAN
    BY <1>6, Zenon DEF Running
  <2> QED BY <2>4, <2>5, <2>6, <1>1, StartTypes, Zenon
<1> QED BY <1>5, <1>6, Zenon DEF Init

LEMMA OtherTypes ==
  ASSUME TypeInv,
         \/ McEvent \/ Events \/ Helm \/ Tick \/ Resync \/ Fails \/ Restart
         \/ \E p \in Projects : HelmFails(p)
  PROVE  TypeInv'
<1>0. /\ Sound(mc) /\ Sound(mcache) /\ AppsOK /\ HandlerOK /\ RestOK
  BY Zenon DEF TypeInv
<1>00. /\ unlisted \subseteq Versions /\ mold \in BOOLEAN /\ queued \in BOOLEAN /\ ticking \in BOOLEAN
       /\ dropped \subseteq Projects /\ changes \in Nat /\ stale \in BOOLEAN /\ app \in AppFcn /\ acache \in AppFcn
       /\ aold \subseteq Projects
  BY <1>0, SMT DEF RestOK, HandlerOK, AppsOK
<1>1. ASSUME McEvent PROVE TypeInv'
  <2>1. /\ UNCHANGED <<mc, avars, unlisted, ticking, dropped, changes>> /\ mcache' = mc
        /\ mold' \in BOOLEAN /\ queued' \in BOOLEAN /\ UNCHANGED <<pc, my, stale, todo, named>>
    BY <1>1, Zenon DEF McEvent, hvars
  <2>2. AppsOK' /\ HandlerOK'
    BY <1>0, <1>00, <2>1, AppsWait, HandlerWaits, Zenon
  <2>3. RestOK'
    BY <1>00, <2>1, SMT DEF RestOK
  <2> QED BY <1>0, <2>1, <2>2, <2>3, Zenon DEF TypeInv, Sound, Proper
<1>2. ASSUME NEW p \in Projects, AppEvent(p) PROVE TypeInv'
  <2>1. /\ UNCHANGED <<mc, mcache, mold, app, unlisted, ticking, dropped, changes>>
        /\ aold' = aold \ {p} /\ acache' = [acache EXCEPT ![p] = app[p]] /\ queued' \in BOOLEAN
        /\ UNCHANGED <<pc, my, stale, todo, named>>
    BY <1>2, Zenon DEF AppEvent, mvars, hvars
  <2>2. acache' \in AppFcn
    BY <1>00, <2>1, Zenon DEF AppFcn
  <2>3. AppsOK'
    BY <1>00, <2>1, <2>2, SMT DEF AppsOK
  <2>4. HandlerOK'
    BY <1>0, <1>00, <2>1, HandlerWaits, Zenon
  <2>5. RestOK'
    BY <1>00, <2>1, SMT DEF RestOK
  <2> QED BY <1>0, <2>1, <2>3, <2>4, <2>5, Zenon DEF TypeInv, Sound, Proper
<1>3. ASSUME RevisionEvent \/ Resync PROVE TypeInv'
  <2>1. /\ UNCHANGED <<mvars, avars, ticking, dropped, changes, pc, my, stale, todo, named>>
        /\ queued' \in BOOLEAN /\ unlisted' \subseteq unlisted
    BY <1>00, <1>3, Zenon DEF RevisionEvent, Resync, hvars
  <2>2. HandlerOK'
    BY <1>0, <1>00, <2>1, HandlerWaits, Zenon
  <2>3. unlisted' \subseteq Versions
    BY <1>00, <2>1, Zenon
  <2> QED BY <1>00, <2>1, <2>2, <2>3, HandlerOnly, Zenon
<1>4. ASSUME NEW p \in Projects, HelmStarts(p) \/ HelmDone(p) \/ HelmRemoves(p) \/ HelmFails(p)
      PROVE  TypeInv'
  <2>1. app[p] \in AppType /\ 1 \in Versions
    BY <1>00, RollingUpdate, SMT DEF AppFcn, Versions
  <2>2. /\ [app[p] EXCEPT !.ready = FALSE] \in AppType /\ Gone \in AppType
        /\ [app[p] EXCEPT !.ready = TRUE, !.deployed = app[p].ver] \in AppType
        /\ [app[p] EXCEPT !.deployed = app[p].ver] \in AppType
    BY <2>1, AppFields, NewApp, Zenon
  <2>3. changes' \in Nat
    BY <1>0, <1>00, <1>4, Counted, Zenon DEF HelmStarts, HelmDone, HelmRemoves, HelmFails
  <2> QED BY <1>4, <2>2, <2>3, AppSet, Zenon DEF HelmStarts, HelmDone, HelmRemoves, HelmFails
<1>5. ASSUME Tick PROVE TypeInv'
  <2>1. /\ mc' = [mc EXCEPT !.recent = FALSE] /\ mcache' = [mcache EXCEPT !.recent = FALSE]
        /\ my' = [my EXCEPT !.recent = FALSE] /\ queued' \in BOOLEAN
        /\ UNCHANGED <<mold, avars, unlisted, pc, stale, todo, named, ticking, dropped, changes>>
    BY <1>5, Zenon DEF Tick
  <2>2. Sound(mc') /\ Sound(mcache') /\ Sound(my')
    BY <1>0, <2>1, UpdatesSound, Zenon DEF HandlerOK
  <2>3. my'.there = my.there /\ my'.targets = my.targets
    BY <1>0, <2>1, Zenon DEF HandlerOK, Sound, McType
  <2>4. HandlerOK'
    BY <1>0, <2>1, <2>2, <2>3, Zenon DEF HandlerOK, Labels, NamedAt
  <2>5. RestOK'
    BY <1>00, <2>1, SMT DEF RestOK
  <2>6. AppsOK'
    BY <1>0, <2>1, AppsWait, Zenon
  <2> QED BY <2>2, <2>4, <2>5, <2>6, Zenon DEF TypeInv, Sound, Proper
<1>6. ASSUME Fails PROVE TypeInv'
  <2>1. Return(TRUE) /\ UNCHANGED <<mvars, avars, unlisted, ticking, dropped>>
    BY <1>6, Zenon DEF Fails
  <2>2. changes' \in Nat
    BY <1>0, <1>6, Counted, Zenon DEF Fails
  <2> QED BY <1>00, <2>1, <2>2, Returned, HandlerOnly, Zenon
<1>7. ASSUME Restart PROVE TypeInv'
  <2>1. /\ mcache' = mc /\ mold' \in BOOLEAN /\ acache' = app /\ aold' = {} /\ unlisted' = {}
        /\ pc' = "idle" /\ my' = NoMcApp /\ stale' \in BOOLEAN /\ todo' = {} /\ named' = {}
        /\ queued' \in BOOLEAN /\ ticking' \in BOOLEAN /\ mc' = mc /\ app' = app
        /\ dropped' = dropped
    BY <1>7, Zenon DEF Restart
  <2>2. changes' \in Nat
    BY <1>0, <1>7, Counted, Zenon DEF Restart
  <2>3. RestOK'
    BY <1>00, <2>1, <2>2, SMT DEF RestOK
  <2>4. AppsOK'
    BY <1>00, <2>1, SMT DEF AppsOK
  <2>5. HandlerOK'
    BY <2>1, Ended, Zenon
  <2> QED BY <1>0, <2>1, <2>3, <2>4, <2>5, Zenon DEF TypeInv, Sound, Proper
<1> QED BY <1>1, <1>2, <1>3, <1>4, <1>5, <1>6, <1>7, Zenon DEF Events, Helm

LEMMA UserTypes ==
  ASSUME TypeInv, Users \/ StateSync
  PROVE  TypeInv'
<1>1. Sound(mc) /\ RestOK
  BY Zenon DEF TypeInv
<1>2. ASSUME Upgrade PROVE TypeInv'
  <2>1. PICK v \in Versions : UserWrites([mc EXCEPT !.ver = v])
    BY <1>2, Zenon DEF Upgrade
  <2>2. Sound([mc EXCEPT !.ver = v])
    BY <1>1, UpdatesSound, Zenon
  <2>3. changes' \in Nat
    BY <1>1, <1>2, Counted, Zenon DEF Upgrade
  <2> QED BY <2>1, <2>2, <2>3, UserWritten, Zenon
<1>3. ASSUME DeleteMcApp PROVE TypeInv'
  <2>1. changes' \in Nat
    BY <1>1, <1>3, Counted, Zenon DEF DeleteMcApp
  <2> QED BY <1>3, <2>1, NoneSound, UserWritten, Zenon DEF DeleteMcApp
<1>4. ASSUME NEW p \in Projects, AddProject(p) PROVE TypeInv'
  <2>1. changes' \in Nat
    BY <1>1, <1>4, Counted, Zenon DEF AddProject
  <2>2. Sound([mc EXCEPT !.targets = Append(@, Target(p))])
    BY <1>1, <1>4, AddSound, Zenon DEF AddProject
  <2> QED BY <1>4, <2>1, <2>2, UserWritten, Zenon DEF AddProject
<1>5. ASSUME NEW p \in Projects, RemoveProject(p) PROVE TypeInv'
  <2>1. changes' \in Nat
    BY <1>1, <1>5, Counted, Zenon DEF RemoveProject
  <2>2. PICK i \in DOMAIN mc.targets : UserWrites([mc EXCEPT !.targets = Without(@, i)])
    BY <1>5, Zenon DEF RemoveProject
  <2>3. Sound([mc EXCEPT !.targets = Without(@, i)])
    BY <1>1, RemoveSound, Zenon
  <2> QED BY <2>1, <2>2, <2>3, UserWritten, Zenon
<1>6. ASSUME StateSync PROVE TypeInv'
  <2>1. changes' \in Nat
    BY <1>1, <1>6, Counted, Zenon DEF StateSync
  <2> QED BY <1>1, <1>6, <2>1, UserWritten, Zenon DEF StateSync
<1> QED BY <1>2, <1>3, <1>4, <1>5, <1>6, Zenon DEF Users

LEMMA TypeStep == TypeInv /\ [Next]_vars => TypeInv'
<1> SUFFICES ASSUME TypeInv, [Next]_vars PROVE TypeInv'
  OBVIOUS
<1>1. CASE UNCHANGED vars
  BY <1>1, Zenon DEF vars, mvars, avars, hvars, TypeInv, Sound, Proper, AppsOK, HandlerOK, RestOK, NamedAt
<1>2. CASE Next
  BY <1>2, HandlerTypes, OtherTypes, UserTypes, Zenon DEF Next
<1> QED BY <1>1, <1>2, Zenon

\* The copies and the apps stay well-formed; no project ever becomes a target twice,
\* although addProjects, removeProjects and the handler rewrite the list of targets.
THEOREM TypeCorrect == Spec => []TypeOK
<1>1. Spec => []TypeInv
  BY InitTypes, TypeStep, PTL DEF Spec
<1> QED BY <1>1, TypeParts, PTL

-----------------------------------------------------------------------------
(* What the handler's copy is a copy of.                                   *)

\* The copy in the cache, and the handler's own, which has a new revision before the
\* last update.
CacheInv == (~mold => mcache = mc) /\ (mc.there => mcache.there)
MyInv ==
  /\ pc \notin {"idle", "done"} /\ ~stale => my = mc
  /\ pc = "done" => my.rev = my.ver
  /\ pc = "done" /\ ~stale => my.there = mc.there /\ my.ver = mc.ver /\ my.targets = mc.targets

LEMMA InitCopies == Init => CacheInv /\ MyInv
<1> SUFFICES ASSUME Init PROVE CacheInv /\ MyInv
  OBVIOUS
<1>1. mcache = mc /\ pc = "idle"
  BY Zenon DEF Init
<1> QED BY <1>1, SMT DEF CacheInv, MyInv

LEMMA CacheStep ==
  ASSUME TypeInv, CacheInv, MyInv, [Next]_vars
  PROVE  CacheInv'
<1>1. ASSUME UNCHANGED mvars PROVE CacheInv'
  BY <1>1, Zenon DEF CacheInv, mvars
<1>2. ASSUME mold' = TRUE, mcache' = mcache, mc'.there => mc.there PROVE CacheInv'
  BY <1>2, Zenon DEF CacheInv
<1>3. ASSUME mcache' = mc, mc' = mc PROVE CacheInv'
  BY <1>3, Zenon DEF CacheInv
<1>4. my \in McType /\ mc \in McType /\ (pc = "idle" <=> ~my.there) /\ mcache \in McType
  BY Zenon DEF TypeInv, HandlerOK, Sound
<1>5. ASSUME NEW u, UpdateCondition(u), mcache' = mcache, pc # "idle" PROVE CacheInv'
  <2>1. CASE Return(TRUE) /\ UNCHANGED <<mc, mold>>
    BY <1>1, <1>5, <2>1, Zenon DEF mvars
  <2>2. CASE ~stale /\ mc' = [my EXCEPT !.upgrading = u, !.recent = u] /\ mold' = TRUE
    <3>1. mc.there
      <4>1. my = mc \/ my.there = mc.there
        BY <1>5, <2>2, Zenon DEF MyInv
      <4> QED BY <1>4, <1>5, <4>1, Zenon
    <3> QED BY <1>2, <1>5, <2>2, <3>1, Zenon
  <2>3. CASE mc.there /\ mold' = TRUE
    BY <1>2, <1>5, <2>3, Zenon
  <2> QED BY <1>5, <2>1, <2>2, <2>3, Conditions, Zenon
<1>6. ASSUME Handler PROVE CacheInv'
  <2>1. CASE SyncDeleted \/ Sync \/ CreateApps \/ UpdateApp \/ SetRevision
    BY <1>1, <2>1, Zenon DEF SyncDeleted, Sync, CreateApps, UpdateApp, SetRevision
  <2>2. CASE NameApps
    <3>1. CASE UNCHANGED <<mc, mold>>
      BY <1>1, <2>2, <3>1, Zenon DEF NameApps, mvars
    <3>2. CASE ~stale /\ mold' = TRUE
      <4>1. my = mc /\ mc.there
        BY <1>4, <2>2, <3>2, Zenon DEF MyInv, NameApps
      <4> QED BY <1>2, <2>2, <3>2, <4>1, Zenon DEF NameApps
    <3> QED BY <2>2, <3>1, <3>2, Zenon DEF NameApps, Write
  <2>3. CASE SetInstalledUnknown
    <3>1. UpdateCondition(TRUE) /\ mcache' = mcache /\ pc # "idle"
      BY <2>3, Zenon DEF SetInstalledUnknown
    <3> QED BY <1>5, <3>1, Zenon
  <2>4. CASE SetInstalledDone
    <3>1. UpdateCondition(FALSE) /\ mcache' = mcache /\ pc # "idle"
      BY <2>4, Zenon DEF SetInstalledDone
    <3> QED BY <1>5, <3>1, Zenon
  <2> QED BY <1>6, <2>1, <2>2, <2>3, <2>4, Zenon DEF Handler
<1>7. ASSUME NEW n, UserWrites(n) PROVE CacheInv'
  BY <1>2, <1>7, Zenon DEF UserWrites, Write
<1>8. ASSUME Users \/ StateSync PROVE CacheInv'
  BY <1>7, <1>8, Zenon DEF Users, StateSync, Upgrade, DeleteMcApp, AddProject, RemoveProject
<1>9. ASSUME McEvent \/ Restart PROVE CacheInv'
  BY <1>3, <1>9, Zenon DEF McEvent, Restart
<1>10. ASSUME \/ Events \/ Helm \/ Resync \/ Fails \/ UNCHANGED vars
              \/ \E p \in Projects : HelmFails(p)
       PROVE  CacheInv'
  BY <1>1, <1>10, Zenon DEF Events, RevisionEvent, AppEvent, Helm, HelmStarts, HelmDone, HelmRemoves,
                            HelmFails, SetApp, Resync, Fails, vars
<1>11. ASSUME Tick PROVE CacheInv'
  <2>1. \A m \in McType : [m EXCEPT !.recent = FALSE].there = m.there
    BY Zenon DEF McType
  <2>2. mc' = [mc EXCEPT !.recent = FALSE] /\ mcache' = [mcache EXCEPT !.recent = FALSE] /\ mold' = mold
    BY <1>11, Zenon DEF Tick
  <2> QED BY <1>4, <2>1, <2>2, Zenon DEF CacheInv
<1> QED BY <1>6, <1>8, <1>9, <1>10, <1>11, Zenon DEF Next

LEMMA MyStep ==
  ASSUME TypeInv, CacheInv, MyInv, [Next]_vars
  PROVE  MyInv'
<1>1. ASSUME pc' = "idle" PROVE MyInv'
  BY <1>1, SMT DEF MyInv
<1>2. ASSUME mc' = mc, UNCHANGED <<pc, my, stale>> PROVE MyInv'
  BY <1>2, Zenon DEF MyInv
<1>3. ASSUME mc' = mc, my' = my, stale' = stale, pc \in {"create", "name"},
             pc' \in {"name", "update", "revision"}
      PROVE  MyInv'
  BY <1>3, SMT DEF MyInv
<1>4. my \in McType /\ mc \in McType
  BY Zenon DEF TypeInv, HandlerOK, Sound
<1>5. ASSUME NEW failed, Return(failed) PROVE MyInv'
  BY <1>1, <1>5, Zenon DEF Return
<1>6. ASSUME Sync PROVE MyInv'
  <2>1. CASE UNCHANGED <<pc, my, stale>>
    BY <1>2, <1>6, <2>1, Zenon DEF Sync, mvars
  <2>2. CASE pc' = "create" /\ my' = mcache /\ stale' = mold
    <3>1. mc' = mc
      BY <1>6, Zenon DEF Sync, mvars
    <3> QED BY <2>2, <3>1, SMT DEF MyInv, CacheInv
  <2> QED BY <1>6, <2>1, <2>2, Zenon DEF Sync
<1>7. ASSUME CreateApps PROVE MyInv'
  <2>1. mc' = mc /\ pc = "create" /\ ticking \in BOOLEAN /\ stale \in BOOLEAN
    BY <1>7, Zenon DEF CreateApps, mvars, TypeInv, RestOK, HandlerOK
  <2>2. CASE pc' = "name" /\ UNCHANGED <<my, stale>>
    BY <1>3, <2>1, <2>2, Zenon
  <2>3. CASE Decide({}) /\ stale' = (stale /\ pc' # "idle")
    <3>1. pc' = "idle" \/ (pc' \in {"revision", "update"} /\ my' = my)
      BY <2>1, <2>3, Decided, Zenon
    <3>2. pc' # "idle" => stale' = stale
      BY <2>1, <2>3, Zenon
    <3> QED BY <1>1, <1>3, <2>1, <3>1, <3>2, Zenon
  <2> QED BY <1>5, <1>7, <2>2, <2>3, Zenon DEF CreateApps
<1>8. ASSUME NameApps PROVE MyInv'
  <2>1. CASE Decide(named) /\ stale' = (pc' # "idle")
    <3>1. pc' \in {"idle", "revision", "update"}
      BY <2>1, Decided, Zenon DEF TypeInv, RestOK
    <3>2. pc' # "done" /\ (pc' # "idle" => stale')
      BY <2>1, <3>1, Zenon
    <3> QED BY <3>2, Zenon DEF MyInv
  <2> QED BY <1>5, <1>8, <2>1, Zenon DEF NameApps
<1>9. ASSUME SetRevision PROVE MyInv'
  <2>1. CASE Return(TRUE) \/ Return(FALSE)
    BY <1>5, <2>1, Zenon
  <2>2. CASE /\ mc.rev # NoRevision /\ my' = [mc EXCEPT !.rev = mc.ver] /\ pc' = "done"
    <3>1. mc' = mc
      BY <1>9, Zenon DEF SetRevision, mvars
    <3>2. /\ my'.rev = my'.ver /\ my'.ver = mc.ver /\ my'.there = mc.there
          /\ my'.targets = mc.targets
      BY <1>4, <2>2, Zenon DEF McType
    <3> QED BY <2>2, <3>1, <3>2, Zenon DEF MyInv
  <2>3. CASE /\ my' = [my EXCEPT !.rev = my.ver] /\ pc' = "done" /\ (~stale' => ~stale)
    <3>1. mc' = mc /\ pc = "revision"
      BY <1>9, Zenon DEF SetRevision, mvars
    <3>2. /\ my'.rev = my'.ver /\ my'.ver = my.ver /\ my'.there = my.there
          /\ my'.targets = my.targets
      BY <1>4, <2>3, Zenon DEF McType
    <3>3. ~stale' => my = mc
      BY <2>3, <3>1, Zenon DEF MyInv
    <3> QED BY <2>3, <3>1, <3>2, <3>3, Zenon DEF MyInv
  <2> QED BY <1>9, <2>1, <2>2, <2>3, Zenon DEF SetRevision
<1>10. ASSUME \/ SyncDeleted \/ Events \/ Helm \/ Resync \/ McEvent \/ UNCHANGED vars
              \/ \E p \in Projects : HelmFails(p)
       PROVE  MyInv'
  <2>1. mc' = mc /\ UNCHANGED <<pc, my, stale>>
    BY <1>10, Zenon DEF SyncDeleted, Events, RevisionEvent, AppEvent, Helm, HelmStarts, HelmDone,
                        HelmRemoves, HelmFails, SetApp, Resync, McEvent, vars, mvars, hvars
  <2> QED BY <1>2, <2>1, Zenon
<1>11. ASSUME UpdateApp PROVE MyInv'
  <2>1. mc' = mc /\ (Return(TRUE) \/ UNCHANGED <<pc, my, stale>>)
    BY <1>11, Zenon DEF UpdateApp, mvars
  <2> QED BY <1>2, <1>5, <2>1, Zenon
<1>12. ASSUME SetInstalledUnknown \/ SetInstalledDone PROVE MyInv'
  <2>1. Return(TRUE) \/ Return(FALSE)
    BY <1>12, Zenon DEF SetInstalledUnknown, SetInstalledDone, UpdateCondition
  <2> QED BY <1>5, <2>1, Zenon
<1>13. ASSUME NEW n, UserWrites(n) PROVE MyInv'
  <2>1. stale' = (pc # "idle") /\ pc' = pc /\ my' = my
    BY <1>13, Zenon DEF UserWrites
  <2> QED BY <2>1, Zenon DEF MyInv
<1>14. ASSUME Users \/ StateSync PROVE MyInv'
  BY <1>13, <1>14, Zenon DEF Users, StateSync, Upgrade, DeleteMcApp, AddProject, RemoveProject
<1>15. ASSUME Fails \/ Restart PROVE MyInv'
  BY <1>1, <1>5, <1>15, Zenon DEF Fails, Restart
<1>16. ASSUME Tick PROVE MyInv'
  <2>1. \A m \in McType : LET n == [m EXCEPT !.recent = FALSE]
                          IN  /\ n.rev = m.rev /\ n.ver = m.ver /\ n.there = m.there
                              /\ n.targets = m.targets
    BY Zenon DEF McType
  <2>2. mc' = [mc EXCEPT !.recent = FALSE] /\ my' = [my EXCEPT !.recent = FALSE] /\ UNCHANGED <<pc, stale>>
    BY <1>16, Zenon DEF Tick
  <2> QED BY <1>4, <2>1, <2>2, Zenon DEF MyInv
<1> QED BY <1>6, <1>7, <1>8, <1>9, <1>10, <1>11, <1>12, <1>14, <1>15, <1>16, Zenon DEF Next, Handler

-----------------------------------------------------------------------------
(* Targets keep their apps.                                                *)

\* A multi-cluster app that has gone has no targets.
Whole(m) == m.there \/ ProjectsOf(m) = {}
WholeInv == Whole(mc) /\ Whole(mcache)

\* TargetsKeepApps is not inductive: what the handler deletes depends on two caches.  A
\* project that was never dropped and has an app, or whose app is in the cache, is among
\* the targets in the cache, because the handler that created the app had found it there;
\* and what is in the cache is still true.
Safe(p) ==
  /\ ~app[p].ending
  /\ app[p].there \/ acache[p].there => p \in ProjectsOf(mcache)
  /\ p \in ProjectsOf(mcache) => p \in ProjectsOf(mc)
  /\ pc = "create" /\ p \in ProjectsOf(my) => p \in ProjectsOf(mcache)
KeptInv == \A p \in Projects : p \in dropped \/ Safe(p)

\* What a step may do to an app, its copy and the copies of the targets.
LEMMA Keeps ==
  ASSUME KeptInv, dropped \subseteq dropped',
         ProjectsOf(mc) \subseteq ProjectsOf(mc)' \cup dropped',
         ProjectsOf(mcache)' \in {ProjectsOf(mcache), ProjectsOf(mc)},
         \A p \in Projects : p \in dropped \/
           /\ app'[p].ending => app[p].ending
           /\ app'[p].there => app[p].there \/ (pc = "create" /\ p \in ProjectsOf(my))
           /\ acache'[p].there => acache[p].there \/ app[p].there,
         pc' = "create" => \/ pc = "create" /\ ProjectsOf(my)' = ProjectsOf(my)
                           \/ ProjectsOf(my)' = ProjectsOf(mcache)
  PROVE  KeptInv'
<1> SUFFICES ASSUME NEW p \in Projects, p \notin dropped' PROVE Safe(p)'
  BY Zenon DEF KeptInv
<1>1. p \notin dropped /\ Safe(p)
  BY Zenon DEF KeptInv
<1>2. p \in ProjectsOf(mcache) => p \in ProjectsOf(mc) /\ p \in ProjectsOf(mc)' /\ p \in ProjectsOf(mcache)'
  BY <1>1, Zenon DEF Safe
<1>3. p \in ProjectsOf(mcache)' => p \in ProjectsOf(mc)'
  BY <1>1, <1>2, Zenon
<1>4. ~app'[p].ending /\ (app'[p].there \/ acache'[p].there => p \in ProjectsOf(mcache))
  BY <1>1, Zenon DEF Safe
<1>5. pc' = "create" /\ p \in ProjectsOf(my)' => p \in ProjectsOf(mcache)
  BY <1>1, Zenon DEF Safe
<1> QED BY <1>2, <1>3, <1>4, <1>5, Zenon DEF Safe

LEMMA SameProjects ==
  ASSUME NEW m, NEW n, n.targets = m.targets \/ Renamed(m.targets, n.targets),
         m.targets \in Seq(TargetType)
  PROVE  ProjectsOf(n) = ProjectsOf(m)
<1>1. CASE n.targets = m.targets
  BY <1>1, Zenon DEF ProjectsOf
<1>2. CASE Renamed(m.targets, n.targets)
  <2>1. DOMAIN n.targets = DOMAIN m.targets
    BY <1>2 DEF Renamed
  <2> QED BY <1>2, <2>1, Zenon DEF Renamed, ProjectsOf
<1> QED BY <1>1, <1>2, Zenon

\* The handler's updates leave the projects of the targets alone.
LEMMA ConditionKeeps ==
  ASSUME TypeInv, MyInv, NEW u \in BOOLEAN, UpdateCondition(u), pc # "idle"
  PROVE  mc'.there = mc.there /\ ProjectsOf(mc)' = ProjectsOf(mc)
<1>1. mc \in McType /\ my \in McType /\ Sound(Latest)
  BY LatestSound, Zenon DEF TypeInv, HandlerOK, Sound
<1>2. \A m \in McType : LET n == [m EXCEPT !.upgrading = u, !.recent = u]
                        IN  n.there = m.there /\ n.targets = m.targets
  BY SetCondition, Zenon
<1>3. CASE ~stale /\ mc' = [my EXCEPT !.upgrading = u, !.recent = u]
  <2>1. my.there = mc.there /\ my.targets = mc.targets
    BY <1>3, Zenon DEF MyInv
  <2>2. mc'.there = mc.there /\ mc'.targets = mc.targets
    BY <1>1, <1>2, <1>3, <2>1, Zenon
  <2> QED BY <2>2, Zenon DEF ProjectsOf
<1>4. CASE mc' = [Latest EXCEPT !.upgrading = u, !.recent = u]
  <2>1. Latest \in McType
    BY <1>1, Zenon DEF Sound
  <2>2. mc'.there = Latest.there /\ mc'.targets = Latest.targets
    BY <1>2, <1>4, <2>1, Zenon
  <2>3. Latest.there = mc.there /\ Latest.targets = CopiedTargets(mc, my, NamedAt)
    BY <1>1, Zenon DEF Latest, CopiedTargets, McType
  <2>4. Renamed(mc.targets, mc'.targets)
    BY <1>1, <2>2, <2>3, CopiedRenamed, Zenon DEF NamedAt
  <2>5. mc.targets \in Seq(TargetType)
    BY <1>1, McFields, Zenon
  <2> HIDE <1>4
  <2>6. ProjectsOf(mc') = ProjectsOf(mc)
    BY <2>4, <2>5, SameProjects, Zenon
  <2> QED BY <2>2, <2>3, <2>6, Zenon DEF ProjectsOf
<1>5. CASE UNCHANGED mc
  BY <1>5, Zenon DEF ProjectsOf
<1> QED BY <1>3, <1>4, <1>5, Conditions, Zenon

LEMMA HandlerKeeps ==
  ASSUME TypeInv, MyInv, Handler
  PROVE  mc'.there = mc.there /\ ProjectsOf(mc)' = ProjectsOf(mc)
<1>1. CASE UNCHANGED mc
  BY <1>1, Zenon DEF ProjectsOf
<1>2. CASE SyncDeleted \/ Sync \/ CreateApps \/ UpdateApp \/ SetRevision
  BY <1>1, <1>2, Zenon DEF SyncDeleted, Sync, CreateApps, UpdateApp, SetRevision, mvars
<1>3. CASE NameApps
  <2>1. CASE ~stale /\ mc' = [my EXCEPT !.targets = NamedTargets(my, named)]
    <3>1. my = mc /\ mc \in McType
      BY <1>3, <2>1, Zenon DEF NameApps, MyInv, TypeInv, Sound
    <3>2. Renamed(mc.targets, NamedTargets(mc, named)) /\ mc.targets \in Seq(TargetType)
      BY <3>1, NamedRenamed, McFields, Zenon
    <3>3. mc'.there = mc.there /\ mc'.targets = NamedTargets(mc, named)
      <4>1. NamedTargets(mc, named) \in Seq(TargetType)
        BY <3>2, Zenon DEF Renamed
      <4>2. mc' = [mc EXCEPT !.targets = NamedTargets(mc, named)]
        BY <2>1, <3>1, Zenon
      <4> QED BY <3>1, <4>1, <4>2, SetTargets, Zenon
    <3> HIDE <2>1
    <3>4. ProjectsOf(mc') = ProjectsOf(mc)
      BY <3>2, <3>3, SameProjects, Zenon
    <3> QED BY <3>3, <3>4, Zenon DEF ProjectsOf
  <2> QED BY <1>1, <1>3, <2>1, Zenon DEF NameApps, Write, NamedTargets
<1>4. CASE SetInstalledUnknown \/ SetInstalledDone
  <2>1. pc # "idle"
    BY <1>4, Zenon DEF SetInstalledUnknown, SetInstalledDone
  <2> QED BY <1>4, <2>1, ConditionKeeps, Zenon DEF SetInstalledUnknown, SetInstalledDone
<1> QED BY <1>2, <1>3, <1>4, Zenon DEF Handler

\* Steps of the handler.
LEMMA HandlerSafe ==
  ASSUME TypeInv, MyInv, WholeInv, KeptInv, Handler
  PROVE  KeptInv'
<1>1. /\ UNCHANGED <<mcache, acache, dropped>>
      /\ ProjectsOf(mc)' = ProjectsOf(mc) /\ ProjectsOf(mcache)' = ProjectsOf(mcache)
  <2>1. UNCHANGED <<mcache, acache, dropped>>
    BY Zenon DEF Handler, SyncDeleted, Sync, CreateApps, NameApps, UpdateApp, SetInstalledUnknown,
                 SetRevision, SetInstalledDone, mvars, avars
  <2> QED BY <2>1, HandlerKeeps, Zenon DEF ProjectsOf
<1>2. ASSUME \A p \in Projects : p \in dropped \/
               /\ app'[p].ending => app[p].ending
               /\ app'[p].there => app[p].there \/ (pc = "create" /\ p \in ProjectsOf(my)),
             pc' = "create" => \/ pc = "create" /\ my' = my
                               \/ my' = mcache
      PROVE  KeptInv'
  <2>1. \A p \in Projects : p \in dropped \/
           /\ app'[p].ending => app[p].ending
           /\ app'[p].there => app[p].there \/ (pc = "create" /\ p \in ProjectsOf(my))
           /\ acache'[p].there => acache[p].there \/ app[p].there
    BY <1>1, <1>2, Zenon
  <2>2. pc' = "create" => \/ pc = "create" /\ ProjectsOf(my)' = ProjectsOf(my)
                          \/ ProjectsOf(my)' = ProjectsOf(mcache)
    BY <1>2, Zenon DEF ProjectsOf
  <2>3. /\ dropped \subseteq dropped' /\ ProjectsOf(mc) \subseteq ProjectsOf(mc)' \cup dropped'
        /\ ProjectsOf(mcache)' \in {ProjectsOf(mcache), ProjectsOf(mc)}
    BY <1>1, Zenon
  <2> QED BY <2>1, <2>2, <2>3, Keeps, Zenon
<1>3. CASE SyncDeleted
  <2>1. /\ app' = Deleted({p \in Projects : acache[p].there}) /\ ~mcache.there /\ pc' = pc /\ pc = "idle"
    BY <1>3, Zenon DEF SyncDeleted, hvars
  <2>2. ProjectsOf(mcache) = {}
    BY <2>1, Zenon DEF WholeInv, Whole
  <2>3. \A p \in Projects : p \in dropped \/ ~acache[p].there
    BY <2>2, Zenon DEF KeptInv, Safe
  <2>4. \A p \in Projects : p \in dropped \/ app'[p] = app[p]
    BY <2>1, <2>3, Zenon DEF Deleted
  <2> QED BY <1>2, <2>1, <2>4, Zenon
<1>4. CASE Sync
  <2>1. /\ app' = Deleted({p \in Projects \ ProjectsOf(mcache) : acache[p].there})
        /\ (pc' = pc /\ pc = "idle") \/ my' = mcache
    BY <1>4, Zenon DEF Sync, Surplus
  <2>2. \A p \in Projects : p \in dropped \/ ~acache[p].there \/ p \in ProjectsOf(mcache)
    BY Zenon DEF KeptInv, Safe
  <2>3. \A p \in Projects : p \in dropped \/ app'[p] = app[p]
    BY <2>1, <2>2, Zenon DEF Deleted
  <2> QED BY <1>2, <2>1, <2>3, Zenon
<1>5. CASE CreateApps
  <2>1. pc' # "create"
    <3>1. ticking \in BOOLEAN
      BY Zenon DEF TypeInv, RestOK
    <3> QED BY <1>5, <3>1, Decided, Zenon DEF CreateApps, Return
  <2>2. \A p \in Projects :
          \/ app'[p] = app[p]
          \/ /\ p \in {my.targets[i].project : i \in Creating}
             /\ app'[p] = [Gone EXCEPT !.there = TRUE, !.ver = my.ver]
    BY <1>5, Zenon DEF CreateApps
  <2>3. ~[Gone EXCEPT !.there = TRUE, !.ver = my.ver].ending
    BY DEF Gone
  <2>4. {my.targets[i].project : i \in Creating} \subseteq ProjectsOf(my) /\ pc = "create"
    BY <1>5, Zenon DEF Creating, ProjectsOf, CreateApps
  <2> QED BY <1>2, <2>1, <2>2, <2>3, <2>4, Zenon
<1>6. CASE UpdateApp
  <2>1. pc' # "create"
    BY <1>6, Zenon DEF UpdateApp, Return
  <2>2. app' = app \/ \E i \in todo : app' = [app EXCEPT ![my.targets[i].app].ver = my.ver]
    BY <1>6, Zenon DEF UpdateApp
  <2>3. app \in AppFcn
    BY SMT DEF TypeInv, AppsOK
  <2>4. \A x \in AppType : LET y == [x EXCEPT !.ver = my.ver]
                           IN  y.there = x.there /\ y.ending = x.ending
    BY Zenon DEF AppType
  <2>5. \A p \in Projects : app'[p] = app[p] \/ app'[p] = [app[p] EXCEPT !.ver = my.ver]
    BY <2>2, <2>3, Zenon DEF AppFcn
  <2>6. ASSUME NEW p \in Projects
        PROVE  app'[p].there = app[p].there /\ app'[p].ending = app[p].ending
    <3>1. app[p] \in AppType
      BY <2>3, Zenon DEF AppFcn
    <3> QED BY <2>4, <2>5, <3>1, Zenon
  <2> QED BY <1>2, <2>1, <2>6, Zenon
<1>7. CASE NameApps \/ SetInstalledUnknown \/ SetRevision \/ SetInstalledDone
  <2>1. ticking \in BOOLEAN
    BY Zenon DEF TypeInv, RestOK
  <2>2. app' = app
    BY <1>7, Zenon DEF NameApps, SetInstalledUnknown, SetRevision, SetInstalledDone, avars
  <2>3. CASE NameApps
    BY <1>2, <2>1, <2>2, <2>3, Decided, Zenon DEF NameApps, Return
  <2>4. CASE SetInstalledUnknown \/ SetRevision \/ SetInstalledDone
    <3>1. pc' \in {"idle", "done"}
      BY <2>4, Zenon DEF SetInstalledUnknown, SetRevision, SetInstalledDone, UpdateCondition, Return
    <3> QED BY <1>2, <2>2, <3>1, Zenon
  <2> QED BY <1>7, <2>3, <2>4
<1> QED BY <1>3, <1>4, <1>5, <1>6, <1>7, Zenon DEF Handler

\* All other steps.
LEMMA OtherSafe ==
  ASSUME TypeInv, KeptInv,
         \/ McEvent \/ Events \/ Helm \/ Tick \/ Resync \/ Fails \/ Restart \/ UNCHANGED vars
         \/ \E p \in Projects : HelmFails(p)
  PROVE  KeptInv'
<1>1. ASSUME ProjectsOf(mc)' = ProjectsOf(mc), dropped' = dropped,
             ProjectsOf(mcache)' \in {ProjectsOf(mcache), ProjectsOf(mc)},
             \A p \in Projects :
               /\ app'[p].ending => app[p].ending
               /\ app'[p].there => app[p].there
               /\ acache'[p].there => acache[p].there \/ app[p].there,
             pc' = "idle" \/ (pc' = pc /\ ProjectsOf(my)' = ProjectsOf(my))
      PROVE  KeptInv'
  <2>1. pc' = "create" => pc = "create" /\ ProjectsOf(my)' = ProjectsOf(my)
    BY <1>1, Zenon
  <2>2. dropped \subseteq dropped' /\ ProjectsOf(mc) \subseteq ProjectsOf(mc)' \cup dropped'
    BY <1>1, Zenon
  <2> QED BY <1>1, <2>1, <2>2, Keeps, Zenon
<1>2. app \in AppFcn /\ acache \in AppFcn
  BY SMT DEF TypeInv, AppsOK
<1>3. CASE McEvent \/ RevisionEvent \/ Resync \/ Fails \/ UNCHANGED vars
  <2>1. /\ UNCHANGED <<mc, app, acache, dropped>> /\ mcache' \in {mcache, mc}
        /\ pc' = "idle" \/ (pc' = pc /\ my' = my)
    BY <1>3, Zenon DEF McEvent, RevisionEvent, Resync, Fails, Return, vars, mvars, avars, hvars
  <2> QED BY <1>1, <2>1, Zenon DEF ProjectsOf
<1>4. ASSUME NEW p \in Projects, AppEvent(p) PROVE KeptInv'
  <2>1. UNCHANGED <<mc, mcache, app, dropped, pc, my>> /\ acache' = [acache EXCEPT ![p] = app[p]]
    BY <1>4, Zenon DEF AppEvent, mvars, hvars
  <2>2. \A q \in Projects : acache'[q] \in {acache[q], app[q]}
    BY <1>2, <2>1, Zenon DEF AppFcn
  <2> QED BY <1>1, <2>1, <2>2, Zenon DEF ProjectsOf
<1>5. ASSUME NEW p \in Projects, HelmStarts(p) \/ HelmDone(p) \/ HelmRemoves(p) \/ HelmFails(p)
      PROVE  KeptInv'
  <2>1. PICK x : SetApp(p, x) /\ x \in {Gone, [app[p] EXCEPT !.ready = FALSE],
                                         [app[p] EXCEPT !.ready = TRUE, !.deployed = app[p].ver],
                                         [app[p] EXCEPT !.deployed = app[p].ver]}
    BY <1>5, Zenon DEF HelmStarts, HelmDone, HelmRemoves, HelmFails
  <2>2. app[p] \in AppType /\ ~Gone.there /\ ~Gone.ending
    BY <1>2, SMT DEF AppFcn, Gone
  <2>3. (x.there => app[p].there) /\ (x.ending => app[p].ending)
    BY <2>1, <2>2, Zenon DEF AppType
  <2>4. UNCHANGED <<mc, mcache, acache, dropped, pc, my>> /\ app' = [app EXCEPT ![p] = x]
    BY <2>1, Zenon DEF SetApp, mvars, hvars
  <2>5. \A q \in Projects : app'[q] = app[q] \/ (q = p /\ app'[q] = x)
    BY <1>2, <2>4, Zenon DEF AppFcn
  <2> QED BY <1>1, <2>3, <2>4, <2>5, Zenon DEF ProjectsOf
<1>6. CASE Tick
  <2>1. /\ mc' = [mc EXCEPT !.recent = FALSE] /\ mcache' = [mcache EXCEPT !.recent = FALSE]
        /\ my' = [my EXCEPT !.recent = FALSE] /\ UNCHANGED <<app, acache, dropped, pc>>
    BY <1>6, Zenon DEF Tick, avars
  <2>2. mc \in McType /\ mcache \in McType /\ my \in McType
    BY Zenon DEF TypeInv, HandlerOK, Sound
  <2>3. mc'.targets = mc.targets /\ mcache'.targets = mcache.targets /\ my'.targets = my.targets
    BY <2>1, <2>2, SetRecent, Zenon
  <2> QED BY <1>1, <2>1, <2>3, Zenon DEF ProjectsOf
<1>7. CASE Restart
  <2>1. UNCHANGED <<mc, app, dropped>> /\ mcache' = mc /\ acache' = app /\ pc' = "idle"
    BY <1>7, Zenon DEF Restart
  <2> QED BY <1>1, <2>1, Zenon DEF ProjectsOf
<1> QED BY <1>3, <1>4, <1>5, <1>6, <1>7, Zenon DEF Events, Helm

\* Users' writes, which are the only steps that drop a project.
LEMMA UserSafe ==
  ASSUME KeptInv, NEW n, UserWrites(n)
  PROVE  KeptInv'
<1>1. /\ UNCHANGED <<mcache, app, acache, pc, my>> /\ mc' = n
      /\ dropped' = dropped \cup (ProjectsOf(mc) \ ProjectsOf(n))
  BY Zenon DEF UserWrites, Write, avars
<1>2. /\ ProjectsOf(mc)' = ProjectsOf(n) /\ ProjectsOf(mcache)' = ProjectsOf(mcache)
      /\ ProjectsOf(my)' = ProjectsOf(my)
  BY <1>1, Zenon DEF ProjectsOf
<1>3. dropped \subseteq dropped' /\ ProjectsOf(mc) \subseteq ProjectsOf(mc)' \cup dropped'
  BY <1>1, <1>2, Zenon
<1> QED BY <1>1, <1>2, <1>3, Keeps, Zenon

LEMMA WholeStep ==
  ASSUME TypeInv, MyInv, WholeInv, [Next]_vars
  PROVE  WholeInv'
<1>1. mc \in McType /\ mcache \in McType
  BY Zenon DEF TypeInv, Sound
<1>2. ASSUME mc'.there = mc.there, ProjectsOf(mc)' = ProjectsOf(mc), mcache' \in {mcache, mc}
      PROVE  WholeInv'
  BY <1>2, Zenon DEF WholeInv, Whole, ProjectsOf
<1>3. ASSUME mc' = mc, mcache' \in {mcache, mc} PROVE WholeInv'
  BY <1>3, Zenon DEF WholeInv, Whole, ProjectsOf
<1>4. CASE Handler
  <2>1. mcache' = mcache
    BY <1>4, Zenon DEF Handler, SyncDeleted, Sync, CreateApps, NameApps, UpdateApp, SetInstalledUnknown,
                       SetRevision, SetInstalledDone, mvars
  <2> QED BY <1>2, <1>4, <2>1, HandlerKeeps, Zenon
<1>5. CASE \/ McEvent \/ Events \/ Helm \/ Resync \/ Fails \/ Restart \/ UNCHANGED vars
           \/ \E p \in Projects : HelmFails(p)
  <2>1. mc' = mc /\ mcache' \in {mcache, mc}
    BY <1>5, Zenon DEF McEvent, Events, RevisionEvent, AppEvent, Helm, HelmStarts, HelmDone, HelmRemoves,
                       HelmFails, SetApp, Resync, Fails, Restart, vars, mvars
  <2> QED BY <1>3, <2>1, Zenon
<1>6. CASE Tick
  <2>1. mc' = [mc EXCEPT !.recent = FALSE] /\ mcache' = [mcache EXCEPT !.recent = FALSE]
    BY <1>6, Zenon DEF Tick
  <2>2. /\ mc'.there = mc.there /\ mcache'.there = mcache.there
        /\ mc'.targets = mc.targets /\ mcache'.targets = mcache.targets
    BY <1>1, <2>1, SetRecent, Zenon
  <2> QED BY <2>2, Zenon DEF WholeInv, Whole, ProjectsOf
<1>7. ASSUME NEW n, UserWrites(n), Whole(n) PROVE WholeInv'
  <2>1. mc' = n /\ mcache' = mcache
    BY <1>7, Zenon DEF UserWrites, Write
  <2> QED BY <1>7, <2>1, Zenon DEF WholeInv, Whole, ProjectsOf
<1>8. CASE Users \/ StateSync
  <2>1. \A v, t : /\ [mc EXCEPT !.ver = v].there = mc.there
                  /\ [mc EXCEPT !.targets = t].there = mc.there
    BY <1>1, Zenon DEF McType
  <2>2. Whole(NoMcApp)
    BY NoneSound, Zenon DEF Whole, ProjectsOf
  <2>3. \A n : UserWrites(n) => mc.there
    BY Zenon DEF UserWrites
  <2>4. CASE Upgrade
    <3>1. PICK v : UserWrites([mc EXCEPT !.ver = v])
      BY <2>4, Zenon DEF Upgrade
    <3> QED BY <1>7, <2>1, <2>3, <3>1, Zenon DEF Whole
  <2>5. CASE DeleteMcApp \/ StateSync
    BY <1>7, <2>2, <2>3, <2>5, Zenon DEF DeleteMcApp, StateSync, Whole
  <2>6. ASSUME NEW p \in Projects, AddProject(p) \/ RemoveProject(p) PROVE WholeInv'
    <3>1. PICK t : UserWrites([mc EXCEPT !.targets = t])
      BY <2>6, Zenon DEF AddProject, RemoveProject
    <3> QED BY <1>7, <2>1, <2>3, <3>1, Zenon DEF Whole
  <2> QED BY <1>8, <2>4, <2>5, <2>6, Zenon DEF Users
<1> QED BY <1>4, <1>5, <1>6, <1>8, Zenon DEF Next

LEMMA InitSafe == Init => WholeInv /\ KeptInv
<1> SUFFICES ASSUME Init PROVE WholeInv /\ KeptInv
  OBVIOUS
<1>1. mcache = mc /\ acache = app /\ pc = "idle"
  BY Zenon DEF Init
<1>2. ASSUME NEW s, mc.there, DOMAIN mc.targets = DOMAIN s,
             \A i \in DOMAIN s : mc.targets[i].project = s[i],
             \A p \in Projects : /\ ~app[p].ending
                                 /\ app[p].there => \E i \in DOMAIN s : s[i] = p
      PROVE  WholeInv /\ KeptInv
  <2>1. \A i \in DOMAIN s : s[i] \in ProjectsOf(mc)
    <3> TAKE i \in DOMAIN s
    <3>1. s[i] = mc.targets[i].project /\ i \in DOMAIN mc.targets
      BY <1>2, Zenon
    <3> QED BY <3>1, Zenon DEF ProjectsOf
  <2> QED BY <1>1, <1>2, <2>1, Zenon DEF WholeInv, Whole, KeptInv, Safe
<1>3. \A s \in Starts \cup Installed : \A i \in DOMAIN s : s[i] \in Projects
  <2> TAKE s \in Starts \cup Installed
  <2>1. s \in Seq(Projects)
    BY StartsAreDistinct, Zenon
  <2> QED BY <2>1
<1>4. \A p \in Projects : /\ Target(p).project = p
                          /\ [project |-> p, app |-> p].project = p
  BY DEF Target
<1>5. CASE New
  <2>1. PICK s \in Starts : mc = McApp(s)
    BY <1>5, Zenon DEF New
  <2>2. mc.there /\ mc.targets = [i \in DOMAIN s |-> Target(s[i])]
    BY <2>1 DEF McApp, NoMcApp
  <2> DEFINE f == [i \in DOMAIN s |-> Target(s[i])]
  <2>3. DOMAIN f = DOMAIN s /\ \A i \in DOMAIN s : f[i].project = s[i]
    BY <1>3, <1>4, Zenon
  <2> HIDE DEF f
  <2>f. mc.targets = f
    BY <2>2, Zenon DEF f
  <2>4. ~Gone.ending /\ ~Gone.there /\ \A p \in Projects : app[p] = Gone
    BY <1>5 DEF New, Gone
  <2> QED BY <1>2, <2>2, <2>3, <2>f, <2>4, Zenon
<1>6. CASE Running
  <2> DEFINE a == [there |-> TRUE, ending |-> FALSE, ver |-> 1, deployed |-> 1, ready |-> TRUE]
  <2>1. PICK s \in Installed :
          /\ mc = [McApp(s) EXCEPT !.rev = 1,
                     !.targets = [i \in DOMAIN s |-> [project |-> s[i], app |-> s[i]]]]
          /\ app = [p \in Projects |-> IF \E i \in DOMAIN s : s[i] = p THEN a ELSE Gone]
    BY <1>6, Zenon DEF Running
  <2>2. mc.there /\ mc.targets = [i \in DOMAIN s |-> [project |-> s[i], app |-> s[i]]]
    BY <2>1 DEF McApp, NoMcApp
  <2> DEFINE f == [i \in DOMAIN s |-> [project |-> s[i], app |-> s[i]]]
  <2>3. DOMAIN f = DOMAIN s /\ \A i \in DOMAIN s : f[i].project = s[i]
    BY <1>3, <1>4, Zenon
  <2> HIDE DEF f
  <2>f. mc.targets = f
    BY <2>2, Zenon DEF f
  <2>4. ~Gone.ending /\ ~Gone.there /\ ~a.ending
    BY DEF Gone
  <2> HIDE DEF a
  <2>5. \A p \in Projects : /\ ~app[p].ending
                            /\ app[p].there => \E i \in DOMAIN s : s[i] = p
    BY <2>1, <2>4, Zenon
  <2> QED BY <1>2, <2>2, <2>3, <2>f, <2>5, Zenon
<1> QED BY <1>5, <1>6, Zenon DEF Init

\* No app of a project that has stayed a target is deleted, whatever copies of targets and
\* apps the handlers work on, whoever changes the targets or the version meanwhile, and
\* whatever fails or is restarted.
THEOREM AppsKept == Spec => []TargetsKeepApps
<1> DEFINE Inv == TypeInv /\ CacheInv /\ MyInv /\ WholeInv /\ KeptInv
<1>1. Init => Inv
  BY InitTypes, InitCopies, InitSafe, Zenon
<1>2. Inv /\ [Next]_vars => Inv'
  <2> SUFFICES ASSUME Inv, [Next]_vars PROVE Inv'
    OBVIOUS
  <2>1. TypeInv' /\ CacheInv' /\ MyInv' /\ WholeInv'
    BY TypeStep, CacheStep, MyStep, WholeStep, Zenon
  <2>2. ASSUME Handler PROVE KeptInv'
    BY <2>2, HandlerSafe, Zenon
  <2>3. ASSUME Users \/ StateSync PROVE KeptInv'
    BY <2>3, UserSafe, Zenon DEF Users, StateSync, Upgrade, DeleteMcApp, AddProject, RemoveProject
  <2>4. KeptInv'
    BY <2>2, <2>3, OtherSafe, Zenon DEF Next
  <2> QED BY <2>1, <2>4
<1>3. Inv => TargetsKeepApps
  BY Zenon DEF KeptInv, Safe, TargetsKeepApps
<1> QED BY <1>1, <1>2, <1>3, PTL DEF Spec
=============================================================================

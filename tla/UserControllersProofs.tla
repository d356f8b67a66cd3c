----------------------- MODULE UserControllersProofs -----------------------
(***************************************************************************)
(* Proofs about Ownership, PeerManager and UserControllers for any number  *)
(* of servers and clusters, any checksums and any capacity of the channel. *)
(***************************************************************************)
EXTENDS UserControllers, FiniteSetTheorems, SequenceTheorems, TLAPS

-----------------------------------------------------------------------------
(* amOwner *)

\* The index amOwner computes is one of the slice: peers.IDs[scaled] does not panic.
LEMMA ScaledInRange ==
  ASSUME NEW c \in Clusters, NEW n \in Nat \ {0}
  PROVE  Scaled(c, n) \in 0 .. (n - 1)
<1> DEFINE k == Ck(c)
<1>1. k \in Nat /\ k < MaxUint32 /\ MaxUint32 \in Nat /\ MaxUint32 > 0
  BY MaxAssumption, ChecksumAssumption DEF Ck
<1> HIDE DEF k
<1>2. k * n \in Nat
  BY <1>1
<1>3. k * n < MaxUint32 * n
  <2>1. PICK d \in Nat \ {0} : MaxUint32 = k + d
    <3>1. MaxUint32 - k \in Nat \ {0} /\ MaxUint32 = k + (MaxUint32 - k)
      BY <1>1
    <3> QED BY <3>1
  <2>2. MaxUint32 * n = k * n + d * n
    BY <1>1, <2>1
  <2>3. d * n > 0
    BY <2>1
  <2> QED BY <1>1, <2>2, <2>3
<1>4. (k * n) \div MaxUint32 \in 0 .. (n - 1)
  BY <1>1, <1>2, <1>3
<1> QED BY <1>4 DEF Scaled, k

\* Positions in the sorted slice are distinct and start at 0.
LEMMA RankProperties ==
  ASSUME NEW ids \in SUBSET Nat, IsFiniteSet(ids), NEW i \in ids
  PROVE  /\ Rank(ids, i) \in 0 .. (Cardinality(ids) - 1)
         /\ \A j \in ids : Rank(ids, i) = Rank(ids, j) => i = j
<1> DEFINE Below(x) == {y \in ids : y < x}
<1>1. \A x \in ids : IsFiniteSet(Below(x)) /\ Cardinality(Below(x)) \in Nat
  BY FS_Subset, FS_CardinalityType
<1>2. ASSUME NEW x \in ids, NEW y \in ids, x < y PROVE Cardinality(Below(x)) < Cardinality(Below(y))
  <2>1. Below(x) \in SUBSET Below(y) /\ x \in Below(y) /\ x \notin Below(x)
    <3>1. x \in Nat /\ y \in Nat /\ \A z \in ids : z \in Nat
      OBVIOUS
    <3>2. \A z \in ids : z < x => z < y
      BY <1>2, <3>1
    <3>3. ~(x < x)
      BY <3>1
    <3> QED BY <1>2, <3>2, <3>3, Zenon
  <2>2. /\ Cardinality(Below(x)) <= Cardinality(Below(y))
        /\ Cardinality(Below(y)) = Cardinality(Below(x)) => Below(y) = Below(x)
    BY <1>1, <2>1, FS_Subset
  <2> QED BY <1>1, <2>1, <2>2
<1>3. Cardinality(Below(i)) < Cardinality(ids)
  <2>1. Below(i) \in SUBSET ids /\ i \notin Below(i)
    OBVIOUS
  <2>2. /\ Cardinality(Below(i)) <= Cardinality(ids)
        /\ Cardinality(ids) = Cardinality(Below(i)) => ids = Below(i)
    BY <2>1, FS_Subset
  <2> QED BY <1>1, <2>1, <2>2, FS_CardinalityType
<1>4. Cardinality(ids) \in Nat
  BY FS_CardinalityType
<1> HIDE DEF Below
<1>5. \A x \in ids : Rank(ids, x) = Cardinality(Below(x))
  BY DEF Rank, Below
<1>6. Rank(ids, i) \in 0 .. (Cardinality(ids) - 1)
  BY <1>1, <1>3, <1>4, <1>5
<1>7. ASSUME NEW j \in ids, Rank(ids, i) = Rank(ids, j) PROVE i = j
  <2>1. CASE i < j BY <1>1, <1>2, <1>5, <1>7, <2>1
  <2>2. CASE j < i BY <1>1, <1>2, <1>5, <1>7, <2>2
  <2> QED BY <2>1, <2>2
<1> QED BY <1>6, <1>7

\* The servers that agree on who they are share the clusters out: two or more
\* servers, all ready and all with the same IDs, have for every cluster exactly
\* one owner among them, whoever leads.
THEOREM ExactlyOneOwner ==
  ASSUME NEW ids \in SUBSET Nat, IsFiniteSet(ids), Cardinality(ids) >= 2,
         NEW lead \in [ids -> BOOLEAN], NEW c \in Clusters
  PROVE  \E s \in ids : \A t \in ids :
           AmOwner(Peers(t, lead[t], TRUE, ids), c) <=> t = s
<1> DEFINE n == Cardinality(ids)
           rank == [i \in ids |-> Rank(ids, i)]
<1>1. n \in Nat /\ n \in Nat \ {0} /\ n # 1 /\ ids # {}
  BY FS_CardinalityType, FS_EmptySet
<1>2. IsFiniteSet(0 .. (n - 1)) /\ Cardinality(0 .. (n - 1)) = n
  BY <1>1, FS_Interval, SMTT(30)
<1>3. rank \in Injection(ids, 0 .. (n - 1))
  BY RankProperties DEF Injection, IsInjective
<1>4. rank \in Surjection(ids, 0 .. (n - 1))
  BY <1>2, <1>3, FS_Injection
<1>5. Scaled(c, n) \in 0 .. (n - 1)
  BY <1>1, ScaledInRange
<1>6. PICK s \in ids : rank[s] = Scaled(c, n)
  BY <1>4, <1>5, Zenon DEF Surjection
<1>7. ASSUME NEW t \in ids
      PROVE  AmOwner(Peers(t, lead[t], TRUE, ids), c) <=> t = s
  <2>1. AmOwner(Peers(t, lead[t], TRUE, ids), c) <=> Rank(ids, t) = Scaled(c, n)
    BY <1>1 DEF AmOwner, Peers
  <2> QED BY <1>6, <2>1, RankProperties, Zenon
<1> QED BY <1>7, Zenon

-----------------------------------------------------------------------------
(* The type invariant *)

\* What notify sends is a message.
LEMMA MessageType ==
  ASSUME NEW s \in Servers, NEW l \in BOOLEAN, NEW r \in BOOLEAN, NEW ids \in SUBSET Servers
  PROVE  Peers(s, l, r, ids) \in Messages
  BY DEF Peers, Messages

\* A view is a message with one more ID.
LEMMA ViewType == ASSUME NEW m \in Messages PROVE ViewOf(m) \in Messages
  BY DEF ViewOf, Messages

\* A message being sent is a message.
LEMMA PendingType ==
  ASSUME TypeOK, NEW s \in Servers, NEW m \in Messages
  PROVE  [pending EXCEPT ![s] = <<m>>] \in [Servers -> Seq(Messages)]
  BY DEF TypeOK, PMTypeOK

\* The types hold at the start.
LEMMA TypeInit == Init => TypeOK
<1> SUFFICES ASSUME Init PROVE TypeOK
  OBVIOUS
<1>1. \A s \in Servers : NoPeers(s) \in Messages
  BY MessageType, Zenon DEF NoPeers
<1>2. PMTypeOK
  BY DEF Init, PMInit, PMTypeOK
<1> QED BY <1>1, <1>2 DEF Init, TypeOK

\* Every step keeps the types.
LEMMA TypeStep == TypeOK /\ [Next]_vars => TypeOK'
<1> SUFFICES ASSUME TypeOK, [Next]_vars PROVE TypeOK'
  OBVIOUS
<1> USE DEF TypeOK, PMTypeOK, pmVars, ucVars, local
<1>1. ASSUME NEW s \in Servers, AddRemovePeers(s), UNCHANGED ucVars PROVE TypeOK'
  <2>1. (s \in endpoints) \in BOOLEAN OBVIOUS
  <2>2. Peers(s, leader[s], s \in endpoints, endpoints \ {s}) \in Messages
    BY <2>1, MessageType, Zenon
  <2>3. ready' \in [Servers -> BOOLEAN]
    BY <1>1, <2>1 DEF AddRemovePeers
  <2>4. pending' \in [Servers -> Seq(Messages)]
    BY <1>1, <2>2, PendingType, Zenon DEF AddRemovePeers
  <2>5. peers' \in [Servers -> SUBSET Servers]
    BY <1>1 DEF AddRemovePeers
  <2>6. UNCHANGED <<endpoints, lease, up, leader, listening, chan, faults, view, todo, mode>>
    BY <1>1 DEF AddRemovePeers
  <2> QED BY <2>3, <2>4, <2>5, <2>6
<1>2. ASSUME NEW s \in Servers, Leader(s), UNCHANGED ucVars PROVE TypeOK'
  <2>1. Peers(s, TRUE, ready[s], peers[s]) \in Messages
    BY MessageType, Zenon
  <2>2. pending' \in [Servers -> Seq(Messages)]
    BY <1>2, <2>1, PendingType, Zenon DEF Leader
  <2>3. /\ leader' \in [Servers -> BOOLEAN]
        /\ UNCHANGED <<endpoints, lease, up, ready, peers, listening, chan, faults, view, todo, mode>>
    BY <1>2 DEF Leader
  <2> QED BY <2>2, <2>3
<1>3. ASSUME NEW s \in Servers, Send(s), UNCHANGED ucVars PROVE TypeOK'
  <2>1. pending[s][1] \in Messages
    BY <1>3, EmptySeq, ElementOfSeq DEF Send
  <2>2. Append(chan[s], pending[s][1]) \in Seq(Messages)
    BY <2>1, AppendProperties
  <2> QED BY <1>3, <2>2 DEF Send
<1>4. ASSUME NEW s \in Servers, RemoveListener(s), UNCHANGED ucVars PROVE TypeOK'
  <2>1. Peers(s, leader[s], FALSE, {}) \in Messages
    BY MessageType, Zenon
  <2>2. pending' \in [Servers -> Seq(Messages)]
    BY <1>4, <2>1, PendingType, Zenon DEF RemoveListener
  <2>3. /\ listening' \in [Servers -> BOOLEAN] /\ faults' \in Nat
        /\ UNCHANGED <<endpoints, lease, up, leader, ready, peers, chan, view, todo, mode>>
    BY <1>4 DEF RemoveListener, Fault
  <2> QED BY <2>2, <2>3
<1>5. ASSUME NEW s \in Servers, TakeLease(s), UNCHANGED ucVars PROVE TypeOK'
  BY <1>5 DEF TakeLease
<1>6. CASE EndpointsChange /\ UNCHANGED ucVars
  BY <1>6 DEF EndpointsChange, Fault
<1>7. CASE LeaseExpires /\ UNCHANGED ucVars
  BY <1>7 DEF LeaseExpires
<1>8. ASSUME NEW s \in Servers, SetPeers(s) PROVE TypeOK'
  <2>1. chan[s] \in Seq(Messages) /\ chan[s] # <<>>
    BY <1>8 DEF SetPeers, Take
  <2>2. Head(chan[s]) \in Messages /\ Tail(chan[s]) \in Seq(Messages)
    BY <2>1
  <2> QED BY <1>8, <2>2, ViewType DEF SetPeers, Take
<1>9. ASSUME NEW s \in Servers, Resync(s) PROVE TypeOK'
  BY <1>9 DEF Resync
<1>10. ASSUME NEW s \in Servers, NEW c \in Clusters, PeersSync(s, c) PROVE TypeOK'
  <2>1. Wanted(s, c) \in {"none", "owner", "follower"}
    BY DEF Wanted
  <2> QED BY <1>10, <2>1 DEF PeersSync
<1>11. ASSUME NEW s \in Servers, NEW c \in Clusters, PeersSyncFails(s, c) PROVE TypeOK'
  <2>1. mode' \in [Servers -> [Clusters -> {"none", "owner", "follower"}]]
    <3>1. CASE UNCHANGED mode BY <3>1
    <3>2. CASE mode' = [mode EXCEPT ![s][c] = "none"] BY <3>2
    <3> QED BY <1>11, <3>1, <3>2 DEF PeersSyncFails
  <2>2. /\ todo' \in [Servers -> SUBSET Clusters] /\ faults' \in Nat
        /\ UNCHANGED <<endpoints, lease, up, local, view>>
    BY <1>11 DEF PeersSyncFails, Fault
  <2> QED BY <2>1, <2>2
<1>12. ASSUME NEW s \in Servers, Crash(s) PROVE TypeOK'
  <2>1. NoPeers(s) \in Messages
    BY MessageType, Zenon DEF NoPeers
  <2> QED BY <1>12, <2>1 DEF Crash, PMCrash, Fault
<1>13. ASSUME NEW s \in Servers, Boot(s) PROVE TypeOK'
  BY <1>13 DEF Boot, PMBoot
<1>14. CASE UNCHANGED vars BY <1>14 DEF vars
<1> QED BY <1>1, <1>2, <1>3, <1>4, <1>5, <1>6, <1>7, <1>8, <1>9, <1>10, <1>11, <1>12, <1>13, <1>14, Zenon
        DEF Next, PeerNext, Work

\* The state of the peer managers and of the user controllers is well typed.
THEOREM TypeCorrect == Spec => []TypeOK
  BY TypeInit, TypeStep, PTL DEF Spec

-----------------------------------------------------------------------------
(* Who owns a cluster *)

\* Everything a server knows of its peers was addressed to it, and its own ID
\* is among the IDs as soon as there are any.
AboutSelf ==
  \A s \in Servers :
    /\ view[s].SelfID = s
    /\ view[s].IDs = {} \/ s \in view[s].IDs
    /\ \A i \in 1 .. Len(chan[s]) : chan[s][i].SelfID = s
    /\ pending[s] # <<>> => pending[s][1].SelfID = s

\* A cluster that peersSync is done with runs as owner only by the current view.
ModeFollowsView ==
  \A s \in Servers, c \in Clusters :
    mode[s][c] = "owner" /\ c \notin todo[s] => AmOwner(view[s], c)

OwnerInv == TypeOK /\ AboutSelf /\ ModeFollowsView

\* Nobody owns anything at the start.
LEMMA OwnerInit == Init => OwnerInv
<1> SUFFICES ASSUME Init PROVE OwnerInv
  OBVIOUS
<1>1. AboutSelf
  BY EmptySeq DEF Init, PMInit, AboutSelf, NoPeers, Peers
<1>2. ModeFollowsView
  BY DEF Init, ModeFollowsView
<1> QED BY <1>1, <1>2, TypeInit DEF OwnerInv

\* The message sent is about its sender; the reader's view is made of it.
LEMMA AboutSelfStep == TypeOK /\ AboutSelf /\ [Next]_vars => AboutSelf'
<1> SUFFICES ASSUME TypeOK, AboutSelf, [Next]_vars PROVE AboutSelf'
  OBVIOUS
<1>t. TypeOK' BY TypeStep
<1> USE <1>t DEF TypeOK, PMTypeOK, pmVars, ucVars, local
<1>1. ASSUME NEW s \in Servers, NEW m, m.SelfID = s, pending' = [pending EXCEPT ![s] = <<m>>],
             UNCHANGED <<chan, view>>
      PROVE  AboutSelf'
  BY <1>1 DEF AboutSelf
<1>2. ASSUME NEW s \in Servers, Send(s), UNCHANGED ucVars PROVE AboutSelf'
  <2>1. pending[s][1] \in Messages /\ chan[s] \in Seq(Messages) /\ pending[s][1].SelfID = s
    BY <1>2, EmptySeq, ElementOfSeq DEF Send, AboutSelf
  <2>2. \A i \in 1 .. Len(chan'[s]) : chan'[s][i].SelfID = s
    <3>1. chan'[s] = Append(chan[s], pending[s][1])
      BY <1>2 DEF Send
    <3>2. /\ Len(chan'[s]) = Len(chan[s]) + 1 /\ Len(chan[s]) \in Nat
          /\ \A i \in 1 .. Len(chan[s]) : chan'[s][i] = chan[s][i]
          /\ chan'[s][Len(chan[s]) + 1] = pending[s][1]
      BY <2>1, <3>1, AppendProperties, LenProperties
    <3>3. \A i \in 1 .. Len(chan'[s]) : i \in 1 .. Len(chan[s]) \/ i = Len(chan[s]) + 1
      BY <3>2
    <3>4. \A i \in 1 .. Len(chan[s]) : chan[s][i].SelfID = s
      BY DEF AboutSelf
    <3> QED BY <2>1, <3>2, <3>3, <3>4, Zenon
  <2> QED BY <1>2, <2>2 DEF Send, AboutSelf
<1>3. ASSUME NEW s \in Servers, SetPeers(s) PROVE AboutSelf'
  <2>1. chan[s] \in Seq(Messages) /\ chan[s] # <<>>
    BY <1>3 DEF SetPeers, Take
  <2>2. /\ Len(chan[s]) \in Nat \ {0} /\ Head(chan[s]) = chan[s][1] /\ Head(chan[s]) \in Messages
        /\ Len(Tail(chan[s])) = Len(chan[s]) - 1
        /\ \A i \in 1 .. Len(Tail(chan[s])) : Tail(chan[s])[i] = chan[s][i + 1]
    BY <2>1, EmptySeq, HeadTailProperties
  <2>3. Head(chan[s]).SelfID = s
    BY <2>2 DEF AboutSelf
  <2>4. view'[s] = ViewOf(Head(chan[s])) /\ chan'[s] = Tail(chan[s])
    BY <1>3 DEF SetPeers, Take
  <2>5. view'[s].SelfID = s /\ s \in view'[s].IDs
    BY <2>2, <2>3, <2>4 DEF ViewOf, Messages
  <2>6. \A i \in 1 .. Len(chan'[s]) : chan'[s][i].SelfID = s
    BY <2>2, <2>4 DEF AboutSelf
  <2>7. \A t \in Servers \ {s} : view'[t] = view[t] /\ chan'[t] = chan[t]
    BY <1>3 DEF SetPeers, Take
  <2> QED BY <1>3, <2>5, <2>6, <2>7 DEF SetPeers, Take, AboutSelf
<1>4. ASSUME NEW s \in Servers, Crash(s) PROVE AboutSelf'
  <2>1. /\ view'[s] = NoPeers(s) /\ chan'[s] = <<>> /\ pending'[s] = <<>>
        /\ \A t \in Servers \ {s} : view'[t] = view[t] /\ chan'[t] = chan[t] /\ pending'[t] = pending[t]
    BY <1>4 DEF Crash, PMCrash
  <2>2. view'[s].SelfID = s /\ view'[s].IDs = {}
    BY <2>1 DEF NoPeers, Peers
  <2>3. \A i \in 1 .. Len(chan'[s]) : chan'[s][i].SelfID = s
    BY <2>1, EmptySeq
  <2>4. ASSUME NEW t \in Servers \ {s}
        PROVE  /\ view'[t].SelfID = t
               /\ view'[t].IDs = {} \/ t \in view'[t].IDs
               /\ \A i \in 1 .. Len(chan'[t]) : chan'[t][i].SelfID = t
               /\ pending'[t] # <<>> => pending'[t][1].SelfID = t
    BY <2>1 DEF AboutSelf
  <2>5. pending'[s] # <<>> => pending'[s][1].SelfID = s
    BY <2>1
  <2>6. ASSUME NEW t \in Servers
        PROVE  /\ view'[t].SelfID = t
               /\ view'[t].IDs = {} \/ t \in view'[t].IDs
               /\ \A i \in 1 .. Len(chan'[t]) : chan'[t][i].SelfID = t
               /\ pending'[t] # <<>> => pending'[t][1].SelfID = t
    <3>1. CASE t = s
      BY <2>2, <2>3, <2>5, <3>1, Zenon
    <3> QED BY <2>4, <3>1, Zenon
  <2> QED BY <2>6, Zenon DEF AboutSelf
<1>5. CASE UNCHANGED <<view, chan, pending>>
  BY <1>5 DEF AboutSelf
<1>6. ASSUME NEW s \in Servers, AddRemovePeers(s), UNCHANGED ucVars PROVE AboutSelf'
  <2>1. Peers(s, leader[s], s \in endpoints, endpoints \ {s}).SelfID = s
    BY Zenon DEF Peers
  <2> QED BY <1>1, <1>6, <2>1, Zenon DEF AddRemovePeers
<1>7. ASSUME NEW s \in Servers, Leader(s), UNCHANGED ucVars PROVE AboutSelf'
  <2>1. Peers(s, TRUE, ready[s], peers[s]).SelfID = s
    BY Zenon DEF Peers
  <2> QED BY <1>1, <1>7, <2>1, Zenon DEF Leader
<1>8. ASSUME NEW s \in Servers, RemoveListener(s), UNCHANGED ucVars PROVE AboutSelf'
  <2>1. Peers(s, leader[s], FALSE, {}).SelfID = s
    BY Zenon DEF Peers
  <2> QED BY <1>1, <1>8, <2>1, Zenon DEF RemoveListener
<1> QED BY <1>2, <1>3, <1>4, <1>5, <1>6, <1>7, <1>8, Zenon
        DEF Next, PeerNext, Work, vars, TakeLease, EndpointsChange, LeaseExpires,
            Resync, PeersSync, PeersSyncFails, Boot, PMBoot

\* Modes change only in peersSync, which puts them in line with the view.
LEMMA ModeStep == TypeOK /\ ModeFollowsView /\ [Next]_vars => ModeFollowsView'
<1> SUFFICES ASSUME TypeOK, ModeFollowsView, [Next]_vars PROVE ModeFollowsView'
  OBVIOUS
<1> USE DEF TypeOK, PMTypeOK, pmVars, ucVars, local
<1>1. CASE UNCHANGED ucVars
  BY <1>1, Zenon DEF ModeFollowsView, AmOwner
<1>2. ASSUME NEW s \in Servers, SetPeers(s) PROVE ModeFollowsView'
  BY <1>2 DEF SetPeers, ModeFollowsView
<1>3. ASSUME NEW s \in Servers, Resync(s) PROVE ModeFollowsView'
  BY <1>3 DEF Resync, ModeFollowsView
<1>4. ASSUME NEW s \in Servers, NEW c \in Clusters, PeersSync(s, c) PROVE ModeFollowsView'
  BY <1>4 DEF PeersSync, Wanted, ModeFollowsView
<1>5. ASSUME NEW s \in Servers, NEW c \in Clusters, PeersSyncFails(s, c) PROVE ModeFollowsView'
  BY <1>5 DEF PeersSyncFails, Wanted, ModeFollowsView
<1>6. ASSUME NEW s \in Servers, Crash(s) PROVE ModeFollowsView'
  BY <1>6 DEF Crash, ModeFollowsView
<1> QED BY <1>1, <1>2, <1>3, <1>4, <1>5, <1>6 DEF Next, Work, Boot, vars

\* Servers with the same IDs do not own the same cluster.
LEMMA OwnersDiffer == OwnerInv => TwoOwnersOnlyInTransition
<1> SUFFICES ASSUME OwnerInv, NEW s1 \in up, NEW s2 \in up, NEW c \in Clusters,
                    s1 # s2, mode[s1][c] = "owner", mode[s2][c] = "owner",
                    view[s1].IDs = view[s2].IDs, c \notin todo[s1] \cup todo[s2]
             PROVE  FALSE
  BY DEF TwoOwnersOnlyInTransition
<1> USE DEF OwnerInv, TypeOK, PMTypeOK
<1> DEFINE ids == view[s1].IDs
<1>1. s1 \in Servers /\ s2 \in Servers
  OBVIOUS
<1>2. ids \in SUBSET Nat /\ IsFiniteSet(ids)
  <2>1. ids \in SUBSET Servers
    BY <1>1 DEF Messages
  <2> QED BY <2>1, ServersAssumption, FS_Subset, Zenon
<1>3. AmOwner(view[s1], c) /\ AmOwner(view[s2], c)
  BY <1>1 DEF ModeFollowsView
<1>4. s1 \in ids /\ s2 \in ids /\ view[s1].SelfID = s1 /\ view[s2].SelfID = s2
  BY <1>1, <1>3, Zenon DEF AboutSelf, AmOwner
<1>5. Rank(ids, s1) = Rank(ids, s2)
  BY <1>3, <1>4, Zenon DEF AmOwner
<1> HIDE DEF ids
<1>6. \A j \in ids : Rank(ids, s1) = Rank(ids, j) => s1 = j
  BY <1>2, <1>4, RankProperties, Zenon
<1> QED BY <1>4, <1>5, <1>6

\* At any time, two servers own one cluster only while one of them has not
\* caught up with the peers: see TwoOwnersOnlyInTransition.
THEOREM OwnersAgree == Spec => []TwoOwnersOnlyInTransition
<1>1. OwnerInv /\ [Next]_vars => OwnerInv'
  BY TypeStep, AboutSelfStep, ModeStep DEF OwnerInv
<1> QED BY OwnerInit, <1>1, OwnersDiffer, PTL DEF Spec

-----------------------------------------------------------------------------
(* The way of a message *)

\* A server that is down knows nothing.
DownIsBlank ==
  \A s \in Servers \ up :
    /\ Message(s) = NoPeers(s) /\ view[s] = NoPeers(s)
    /\ pending[s] = <<>> /\ chan[s] = <<>>

MessageInv == TypeOK /\ DownIsBlank /\ LastMessageIsCurrent

\* There is no message at the start.
LEMMA MessageInit == Init => MessageInv
<1> SUFFICES ASSUME Init PROVE MessageInv
  OBVIOUS
<1>1. \A s \in Servers : /\ pending[s] = <<>> /\ chan[s] = <<>> /\ view[s] = NoPeers(s)
                         /\ leader[s] = FALSE /\ ready[s] = FALSE /\ peers[s] = {}
  BY DEF Init, PMInit
<1>2. \A s \in Servers : Message(s) = NoPeers(s)
  BY <1>1, Zenon DEF Message, NoPeers
<1>3. up = Servers
  BY DEF Init, PMInit
<1>4. LastMessageIsCurrent
  BY <1>1, <1>2, <1>3, Zenon DEF LastMessageIsCurrent, Final
<1> QED BY <1>3, <1>4, TypeInit DEF MessageInv, DownIsBlank

\* A server whose message is being sent will end up with a view made of it.
LEMMA CurrentOf ==
  ASSUME NEW s \in Servers, pending'[s] = <<Message(s)'>>
  PROVE  Final(s)' = ViewOf(Message(s)')
  BY DEF Final, ViewOf

\* Moving a message from the sender to the channel, or from the channel to the
\* view, leaves the last one where it is last.
LEMMA SendKeepsLast ==
  ASSUME TypeOK, NEW s \in Servers, Send(s), UNCHANGED view
  PROVE  \A t \in Servers : Final(t)' = Final(t)
<1> USE DEF TypeOK, PMTypeOK
<1>1. pending[s][1] \in Messages /\ chan[s] \in Seq(Messages) /\ pending[s] # <<>>
  BY EmptySeq, ElementOfSeq DEF Send
<1>2. chan'[s] = Append(chan[s], pending[s][1]) /\ pending'[s] = <<>>
  BY DEF Send
<1>3. /\ chan'[s] # <<>> /\ Len(chan'[s]) = Len(chan[s]) + 1
      /\ chan'[s][Len(chan'[s])] = pending[s][1]
  <2>1. /\ Len(chan'[s]) = Len(chan[s]) + 1 /\ Len(chan[s]) \in Nat
        /\ chan'[s][Len(chan[s]) + 1] = pending[s][1]
    BY <1>1, <1>2, AppendProperties, LenProperties
  <2>2. Len(<<>>) = 0
    OBVIOUS
  <2> QED BY <2>1, <2>2
<1>4. \A t \in Servers \ {s} : pending'[t] = pending[t] /\ chan'[t] = chan[t] /\ view'[t] = view[t]
  BY DEF Send
<1> QED BY <1>1, <1>2, <1>3, <1>4, Zenon DEF Final

\* Reading a message does not change the one read last in the end.
LEMMA SetPeersKeepsLast ==
  ASSUME TypeOK, NEW s \in Servers, SetPeers(s)
  PROVE  \A t \in Servers : Final(t)' = Final(t)
<1> USE DEF TypeOK, PMTypeOK
<1>1. chan[s] \in Seq(Messages) /\ chan[s] # <<>>
  BY DEF SetPeers, Take
<1>2. chan'[s] = Tail(chan[s]) /\ view'[s] = ViewOf(Head(chan[s])) /\ pending'[s] = pending[s]
  BY DEF SetPeers, Take
<1>3. \A t \in Servers \ {s} : pending'[t] = pending[t] /\ chan'[t] = chan[t] /\ view'[t] = view[t]
  BY DEF SetPeers, Take
<1>4. /\ Len(chan[s]) \in Nat \ {0} /\ Head(chan[s]) = chan[s][1]
      /\ Tail(chan[s]) \in Seq(Messages) /\ Len(Tail(chan[s])) = Len(chan[s]) - 1
      /\ \A i \in 1 .. Len(Tail(chan[s])) : Tail(chan[s])[i] = chan[s][i + 1]
  BY <1>1, EmptySeq, HeadTailProperties
<1>5. CASE Tail(chan[s]) = <<>>
  <2>0. Len(<<>>) = 0
    OBVIOUS
  <2>1. Len(Tail(chan[s])) = 0
    BY <1>5, <2>0, Zenon
  <2>2. Len(chan[s]) = 1
    <3>1. Len(chan[s]) \in Nat \ {0} /\ Len(chan[s]) - 1 = 0
      BY <1>4, <2>1, Zenon
    <3> QED BY <3>1
  <2> QED BY <1>1, <1>2, <1>3, <1>4, <1>5, <2>2 DEF Final
<1>6. CASE Tail(chan[s]) # <<>>
  <2>1. Len(chan[s]) > 1 /\ Tail(chan[s])[Len(Tail(chan[s]))] = chan[s][Len(chan[s])]
    BY <1>4, <1>6, EmptySeq
  <2> QED BY <1>1, <1>2, <1>3, <1>4, <1>6, <2>1, Zenon DEF Final
<1> QED BY <1>5, <1>6

\* Every step keeps the last message current.
LEMMA MessageStep == MessageInv /\ [Next]_vars => MessageInv'
<1> SUFFICES ASSUME MessageInv, [Next]_vars PROVE MessageInv'
  OBVIOUS
<1>t. TypeOK /\ TypeOK' BY TypeStep DEF MessageInv
<1> DEFINE Same(t) == Final(t)' = Final(t) /\ Message(t)' = Message(t)
<1>a. ASSUME NEW t \in Servers, leader'[t] = leader[t], ready'[t] = ready[t], peers'[t] = peers[t]
      PROVE  Message(t)' = Message(t)
  BY <1>a, Zenon DEF Message
<1>b. ASSUME NEW t \in Servers, pending'[t] = pending[t], chan'[t] = chan[t], view'[t] = view[t]
      PROVE  Final(t)' = Final(t)
  BY <1>b DEF Final
<1> HIDE DEF Same
\* A step after which one server's message is being sent.
<1>c. ASSUME NEW s \in Servers, s \in up, UNCHANGED <<up, listening, chan, view>>,
             pending'[s] = <<Message(s)'>>,
             \A t \in Servers \ {s} : Message(t)' = Message(t) /\ pending'[t] = pending[t]
      PROVE  MessageInv'
  <2>1. Final(s)' = ViewOf(Message(s)')
    BY <1>c, CurrentOf
  <2>2. DownIsBlank'
    BY <1>c, Zenon DEF MessageInv, DownIsBlank, NoPeers
  <2>3. \A t \in Servers \ {s} : Final(t)' = Final(t)
    BY <1>c, <1>b
  <2>4. LastMessageIsCurrent'
    <3> SUFFICES ASSUME NEW t \in up', listening'[t]
                 PROVE  \/ Final(t)' = ViewOf(Message(t)')
                        \/ Final(t)' = NoPeers(t) /\ Message(t)' = NoPeers(t)
      BY Zenon DEF LastMessageIsCurrent, NoPeers
    <3>1. t \in up /\ t \in Servers /\ listening[t]
      BY <1>c, <1>t DEF TypeOK, PMTypeOK
    <3>2. CASE t = s
      BY <2>1, <3>2
    <3>3. CASE t # s
      BY <1>c, <2>3, <3>1, <3>3, Zenon DEF MessageInv, LastMessageIsCurrent
    <3> QED BY <3>2, <3>3
  <2> QED BY <1>t, <2>2, <2>4 DEF MessageInv
\* A step that leaves every message and every last message alone.
<1>d. ASSUME UNCHANGED <<up, listening>>, \A t \in Servers : Same(t), DownIsBlank'
      PROVE  MessageInv'
  <2>1. LastMessageIsCurrent'
    BY <1>d, <1>t, Zenon DEF MessageInv, LastMessageIsCurrent, NoPeers, Same, TypeOK, PMTypeOK
  <2> QED BY <1>t, <1>d, <2>1 DEF MessageInv
<1>e. CASE UNCHANGED <<local, view, up>>
  <2>1. \A t \in Servers : Same(t)
    BY <1>a, <1>b, <1>e, Zenon DEF Same, local
  <2>2. DownIsBlank'
    BY <1>e, <2>1, Zenon DEF MessageInv, DownIsBlank, NoPeers, Same, local
  <2> QED BY <1>d, <1>e, <2>1, <2>2 DEF local
<1>1. ASSUME NEW s \in Servers, AddRemovePeers(s), UNCHANGED ucVars PROVE MessageInv'
  <2>1. Message(s)' = Peers(s, leader[s], s \in endpoints, endpoints \ {s})
    <3>1. leader'[s] = leader[s] /\ peers'[s] = endpoints \ {s}
      BY <1>1, <1>t DEF AddRemovePeers, TypeOK, PMTypeOK
    <3>2. ready'[s] = (s \in endpoints)
      BY <1>1, <1>t, Zenon DEF AddRemovePeers, TypeOK, PMTypeOK
    <3> QED BY <3>1, <3>2, Zenon DEF Message
  <2>2. pending'[s] = <<Message(s)'>>
    BY <1>1, <1>t, <2>1, Zenon DEF AddRemovePeers, TypeOK, PMTypeOK
  <2>3. ASSUME NEW t \in Servers \ {s} PROVE Message(t)' = Message(t) /\ pending'[t] = pending[t]
    <3>1. peers'[t] = peers[t] /\ ready'[t] = ready[t] /\ pending'[t] = pending[t] /\ leader'[t] = leader[t]
      BY <1>1, <1>t DEF AddRemovePeers, TypeOK, PMTypeOK
    <3> QED BY <3>1, Zenon DEF Message
  <2> QED BY <1>1, <1>c, <2>2, <2>3, Zenon DEF AddRemovePeers, Unlocked, ucVars
<1>2. ASSUME NEW s \in Servers, Leader(s), UNCHANGED ucVars PROVE MessageInv'
  <2>1. Message(s)' = Peers(s, TRUE, ready[s], peers[s])
    <3>1. leader'[s] = TRUE /\ peers'[s] = peers[s] /\ ready'[s] = ready[s]
      BY <1>2, <1>t, Zenon DEF Leader, TypeOK, PMTypeOK
    <3> QED BY <3>1, Zenon DEF Message
  <2>2. pending'[s] = <<Message(s)'>>
    BY <1>2, <1>t, <2>1, Zenon DEF Leader, TypeOK, PMTypeOK
  <2>3. \A t \in Servers \ {s} : Message(t)' = Message(t) /\ pending'[t] = pending[t]
    BY <1>2, <1>t, <1>a, Zenon DEF Leader, TypeOK, PMTypeOK
  <2> QED BY <1>2, <1>c, <2>2, <2>3, Zenon DEF Leader, Unlocked, ucVars
<1>3. ASSUME NEW s \in Servers, RemoveListener(s), UNCHANGED ucVars PROVE MessageInv'
  <2>1. /\ s \in up /\ up' = up /\ listening'[s] = FALSE
        /\ \A t \in Servers : Message(t)' = Message(t)
        /\ \A t \in Servers \ {s} : pending'[t] = pending[t] /\ listening'[t] = listening[t]
        /\ chan' = chan /\ view' = view
    BY <1>3, <1>t, <1>a, Zenon DEF RemoveListener, Unlocked, ucVars, TypeOK, PMTypeOK
  <2>2. \A t \in Servers \ {s} : Final(t)' = Final(t)
    BY <2>1, <1>b
  <2>3. DownIsBlank'
    BY <2>1, Zenon DEF MessageInv, DownIsBlank, NoPeers
  <2>4. LastMessageIsCurrent'
    BY <2>1, <2>2, <1>t, Zenon DEF MessageInv, LastMessageIsCurrent, NoPeers, TypeOK, PMTypeOK
  <2> QED BY <1>t, <2>3, <2>4 DEF MessageInv
<1>4. ASSUME NEW s \in Servers, Send(s), UNCHANGED ucVars PROVE MessageInv'
  <2>1. \A t \in Servers : Same(t)
    BY <1>4, <1>t, <1>a, SendKeepsLast, Zenon DEF Send, ucVars, Same
  <2>2. DownIsBlank'
    <3>1. /\ s \in up /\ UNCHANGED <<up, view>>
          /\ \A t \in Servers \ {s} : pending'[t] = pending[t] /\ chan'[t] = chan[t]
      BY <1>4, <1>t DEF Send, ucVars, TypeOK, PMTypeOK
    <3> QED BY <2>1, <3>1, Zenon DEF MessageInv, DownIsBlank, NoPeers, Same
  <2> QED BY <1>4, <1>d, <2>1, <2>2 DEF Send
<1>5. ASSUME NEW s \in Servers, SetPeers(s) PROVE MessageInv'
  <2>1. \A t \in Servers : Same(t)
    BY <1>5, <1>t, <1>a, SetPeersKeepsLast, Zenon DEF SetPeers, Take, Same
  <2>2. DownIsBlank'
    <3>1. /\ s \in up /\ up' = up
          /\ \A t \in Servers \ {s} :
               pending'[t] = pending[t] /\ chan'[t] = chan[t] /\ view'[t] = view[t]
      BY <1>5, <1>t DEF SetPeers, Take, Idle, TypeOK, PMTypeOK
    <3> QED BY <2>1, <3>1, Zenon DEF MessageInv, DownIsBlank, NoPeers, Same
  <2> QED BY <1>5, <1>d, <2>1, <2>2 DEF SetPeers, Take
<1>6. ASSUME NEW s \in Servers, Crash(s) PROVE MessageInv'
  <2>1. /\ up' = up \ {s} /\ pending'[s] = <<>> /\ chan'[s] = <<>> /\ view'[s] = NoPeers(s)
        /\ \A t \in Servers \ {s} :
             /\ pending'[t] = pending[t] /\ chan'[t] = chan[t] /\ view'[t] = view[t]
             /\ peers'[t] = peers[t]
    BY <1>6, <1>t DEF Crash, PMCrash, TypeOK, PMTypeOK
  <2>2. /\ peers'[s] = {} /\ leader'[s] = FALSE /\ ready'[s] = FALSE
        /\ \A t \in Servers \ {s} :
             leader'[t] = leader[t] /\ ready'[t] = ready[t] /\ listening'[t] = listening[t]
    <3>1. /\ peers' = [peers EXCEPT ![s] = {}] /\ leader' = [leader EXCEPT ![s] = FALSE]
          /\ ready' = [ready EXCEPT ![s] = FALSE] /\ listening' = [listening EXCEPT ![s] = FALSE]
      BY <1>6, Zenon DEF Crash, PMCrash
    <3>2. DOMAIN peers = Servers /\ DOMAIN leader = Servers /\ DOMAIN ready = Servers /\ DOMAIN listening = Servers
      BY <1>t DEF TypeOK, PMTypeOK
    <3>3. peers'[s] = {}
      BY <3>1, <3>2
    <3>4. leader'[s] = FALSE /\ ready'[s] = FALSE
      BY <3>1, <3>2, Zenon
    <3>5. \A t \in Servers \ {s} :
            leader'[t] = leader[t] /\ ready'[t] = ready[t] /\ listening'[t] = listening[t]
      BY <3>1, <3>2, Zenon
    <3> QED BY <3>3, <3>4, <3>5, Zenon
  <2>3. Message(s)' = NoPeers(s)
    BY <2>2, Zenon DEF Message, NoPeers
  <2>4. \A t \in Servers \ {s} : Message(t)' = Message(t) /\ Final(t)' = Final(t)
    BY <1>a, <1>b, <2>1, <2>2, Zenon
  <2>5. DownIsBlank'
    <3> SUFFICES ASSUME NEW t \in Servers \ up'
                 PROVE  /\ Message(t)' = NoPeers(t) /\ view'[t] = NoPeers(t)
                        /\ pending'[t] = <<>> /\ chan'[t] = <<>>
      BY Zenon DEF DownIsBlank, NoPeers
    <3>1. CASE t = s
      BY <2>1, <2>3, <3>1, Zenon
    <3>2. CASE t # s
      BY <2>1, <2>4, <3>2 DEF MessageInv, DownIsBlank
    <3> QED BY <3>1, <3>2
  <2>6. LastMessageIsCurrent'
    <3> SUFFICES ASSUME NEW t \in up', listening'[t]
                 PROVE  \/ Final(t)' = ViewOf(Message(t)')
                        \/ Final(t)' = NoPeers(t) /\ Message(t)' = NoPeers(t)
      BY Zenon DEF LastMessageIsCurrent, NoPeers
    <3>1. t \in up /\ t \in Servers \ {s}
      BY <2>1, <1>t DEF TypeOK, PMTypeOK
    <3>2. listening[t]
      BY <2>2, <3>1, Zenon
    <3> QED BY <2>4, <3>1, <3>2, Zenon DEF MessageInv, LastMessageIsCurrent
  <2> QED BY <1>t, <2>5, <2>6 DEF MessageInv
<1>7. ASSUME NEW s \in Servers, Boot(s) PROVE MessageInv'
  <2>1. /\ s \notin up /\ up' = up \cup {s} /\ UNCHANGED <<pending, chan, view>>
        /\ \A t \in Servers \ {s} : listening'[t] = listening[t]
    BY <1>7, <1>t DEF Boot, PMBoot, ucVars, TypeOK, PMTypeOK
  <2>2. \A t \in Servers : Message(t)' = Message(t) /\ Final(t)' = Final(t)
    BY <1>7, <1>a, <1>b, <2>1, Zenon DEF Boot, PMBoot
  <2>3. DownIsBlank'
    BY <2>1, <2>2, Zenon DEF MessageInv, DownIsBlank, NoPeers
  <2>4. Final(s) = NoPeers(s) /\ Message(s) = NoPeers(s)
    BY <2>1, Zenon DEF MessageInv, DownIsBlank, Final
  <2>5. LastMessageIsCurrent'
    BY <2>1, <2>2, <2>4, <1>t, Zenon DEF MessageInv, LastMessageIsCurrent, NoPeers, TypeOK, PMTypeOK
  <2> QED BY <1>t, <2>3, <2>5 DEF MessageInv
<1> QED BY <1>e, <1>1, <1>2, <1>3, <1>4, <1>5, <1>6, <1>7, Zenon
        DEF Next, PeerNext, Work, vars, pmVars, ucVars, local, TakeLease, EndpointsChange,
            LeaseExpires, Resync, PeersSync, PeersSyncFails

\* notify and the channel: whatever the servers, the channel's capacity and the
\* clusters, the last message under way to the user controllers of a listening
\* server tells the peer manager's present state.
THEOREM MessagesArrive == Spec => []LastMessageIsCurrent
<1>1. Init => MessageInv
  BY MessageInit
<1>2. MessageInv /\ [Next]_vars => MessageInv'
  BY MessageStep
<1>3. MessageInv => LastMessageIsCurrent
  BY DEF MessageInv
<1> QED BY <1>1, <1>2, <1>3, PTL DEF Spec
=============================================================================

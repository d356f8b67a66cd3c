-------------------------- MODULE UserControllers --------------------------
(***************************************************************************)
(* pkg/api/controllers/usercontrollers/usercontroller.go on every server,  *)
(* on top of PeerManager: the listener's goroutine, the timer and the      *)
(* cluster handler call setPeers, which under the controller's mutex goes  *)
(* through all clusters and starts each in the mode amOwner says.          *)
(* What Manager.Start does to a cluster's controllers is ClusterManager's  *)
(* subject; here it is the mode in which they run on a server.             *)
(***************************************************************************)
EXTENDS PeerManager, Ownership

VARIABLES
  view,   \* u.peers of each server
  todo,   \* clusters the running peersSync has still to visit (u.Lock is held)
  mode    \* how each server runs each cluster's controllers

ucVars == <<view, todo, mode>>
vars == <<pmVars, ucVars>>

\* u.peers before the first message (its SelfID is empty in the code, where
\* nobody looks at it: amOwner is FALSE without Ready).
NoPeers(s) == Peers(s, FALSE, FALSE, {})

Idle(s) == s \in up /\ todo[s] = {}

Init ==
  /\ PMInit
  /\ view = [s \in Servers |-> NoPeers(s)]
  /\ todo = [s \in Servers |-> {}]
  /\ mode = [s \in Servers |-> [c \in Clusters |-> "none"]]

\* The view made of a message: SelfID is appended to the IDs, which are sorted.
ViewOf(m) == [m EXCEPT !.IDs = @ \cup {m.SelfID}]

\* setPeers(&peer): a message from the channel.
SetPeers(s) ==
  /\ Idle(s)
  /\ Take(s)
  /\ view' = [view EXCEPT ![s] = ViewOf(Head(chan[s]))]
  /\ todo' = [todo EXCEPT ![s] = Clusters]
  /\ UNCHANGED mode

\* setPeers(nil): the timer, or a cluster event.
Resync(s) ==
  /\ Idle(s) /\ listening[s]
  /\ todo' = [todo EXCEPT ![s] = Clusters]
  /\ UNCHANGED <<pmVars, view, mode>>

\* The mode in which s has to run c.
Wanted(s, c) == IF AmOwner(view[s], c) THEN "owner" ELSE "follower"

\* peersSync: Start of one cluster.
PeersSync(s, c) ==
  /\ s \in up /\ c \in todo[s]
  /\ todo' = [todo EXCEPT ![s] = @ \ {c}]
  /\ mode' = [mode EXCEPT ![s][c] = Wanted(s, c)]
  /\ UNCHANGED <<pmVars, view>>

\* peersSync: Start fails.  Controllers in another mode have been stopped by
\* then, those already in the right mode may still run.
PeersSyncFails(s, c) ==
  /\ s \in up /\ c \in todo[s]
  /\ Fault
  /\ todo' = [todo EXCEPT ![s] = @ \ {c}]
  /\ \/ mode' = [mode EXCEPT ![s][c] = "none"]
     \/ mode[s][c] = Wanted(s, c) /\ UNCHANGED mode
  /\ UNCHANGED <<endpoints, lease, up, local, view>>

Crash(s) ==
  /\ Fault
  /\ PMCrash(s)
  /\ view' = [view EXCEPT ![s] = NoPeers(s)]
  /\ todo' = [todo EXCEPT ![s] = {}]
  /\ mode' = [mode EXCEPT ![s] = [c \in Clusters |-> "none"]]

Boot(s) == PMBoot(s) /\ UNCHANGED ucVars

Work(s) == SetPeers(s) \/ Resync(s) \/ \E c \in Clusters : PeersSync(s, c)

Next ==
  \/ PeerNext /\ UNCHANGED ucVars
  \/ \E s \in Servers : Work(s) \/ Crash(s) \/ Boot(s)
  \/ \E s \in Servers, c \in Clusters : PeersSyncFails(s, c)

Spec == Init /\ [][Next]_vars

\* The Endpoints handler runs after every change, the election is run all the
\* time, a blocked send resumes, the channel's reader and the timer get the
\* mutex in turn, and so do Leader and the handler (Go's mutexes are starvation
\* free), dead servers are restarted.
Fairness ==
  /\ \A s \in Servers :
       /\ WF_vars(AddRemovePeers(s) /\ UNCHANGED ucVars /\ <<peers, ready>>' # <<peers, ready>>)
       /\ SF_vars(Leader(s) /\ UNCHANGED ucVars)
       /\ WF_vars(Send(s) /\ UNCHANGED ucVars)
       /\ SF_vars(SetPeers(s))
       /\ WF_vars(Resync(s))
       /\ \A c \in Clusters : WF_vars(PeersSync(s, c))
       /\ WF_vars(Boot(s))
  /\ WF_vars(LeaseExpires /\ UNCHANGED ucVars)
  /\ WF_vars((\E s \in Servers : TakeLease(s)) /\ UNCHANGED ucVars)

FairSpec == Spec /\ Fairness

-----------------------------------------------------------------------------
(* Properties *)

\* Type correctness.
TypeOK ==
  /\ PMTypeOK
  /\ view \in [Servers -> Messages]
  /\ todo \in [Servers -> SUBSET Clusters]
  /\ mode \in [Servers -> [Clusters -> {"none", "owner", "follower"}]]

\* What the user controllers of s will think of their peers once they have
\* read what is on its way to them.
Final(s) ==
  IF pending[s] # <<>> THEN ViewOf(pending[s][1])
  ELSE IF chan[s] # <<>> THEN ViewOf(chan[s][Len(chan[s])])
  ELSE view[s]

\* No change of the peers gets lost or is overtaken on the way to the user
\* controllers: while a server listens, the last message is about the state
\* the peer manager is in now (or there has been none so far).
LastMessageIsCurrent ==
  \A s \in up : listening[s] =>
    \/ Final(s) = ViewOf(Message(s))
    \/ Final(s) = NoPeers(s) /\ Message(s) = NoPeers(s)

\* Two servers run the owner controllers of one cluster only while at least
\* one of them has not caught up: they see different peers, or one of them is
\* in the middle of applying what it saw.
TwoOwnersOnlyInTransition ==
  \A s1, s2 \in up, c \in Clusters :
    s1 # s2 /\ mode[s1][c] = "owner" /\ mode[s2][c] = "owner" =>
      \/ view[s1].IDs # view[s2].IDs
      \/ c \in todo[s1] \cup todo[s2]

Owners(c) == {s \in up : mode[s][c] = "owner"}

\* The Endpoints name running servers, and if it is a single one it leads.
Steady ==
  /\ endpoints # {} /\ endpoints \subseteq up
  /\ \A s \in endpoints : listening[s]
  /\ Cardinality(endpoints) = 1 => lease = endpoints

\* When the set of ready servers stops changing, every cluster gets exactly
\* one server that runs its owner controllers, for good.
EventuallyOneOwner ==
  <>[]Steady => <>[](\A c \in Clusters : Cardinality(Owners(c)) = 1)

\* A server that shuts down gives its clusters up, unless it dies first.
ShutdownGivesUp ==
  \A s \in Servers, c \in Clusters :
    s \in up /\ ~listening[s] ~> s \notin up \/ mode[s][c] # "owner"
=============================================================================

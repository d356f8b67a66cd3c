---------------------------- MODULE PeerManager ----------------------------
(***************************************************************************)
(* pkg/tunnelserver/peermanager.go on every server of an HA installation:  *)
(* the Endpoints of the peer services tell each server who its peers are   *)
(* and whether it is ready itself; the leader election tells it that it is *)
(* the leader; both are passed on to a listener through a channel of       *)
(* bounded capacity, sent to while the manager's mutex is held.            *)
(***************************************************************************)
EXTENDS Integers, Sequences, FiniteSets

CONSTANTS
  Servers,     \* the servers, by the number that stands for their address
  ChanCap,     \* capacity of the listener's channel (100 in usercontroller.go)
  MaxFaults    \* bound: changes of Endpoints, crashes and shutdowns

ASSUME ServersAssumption == Servers \subseteq Nat /\ IsFiniteSet(Servers)
ASSUME ChanCapAssumption == ChanCap \in Nat \ {0}

VARIABLES
  endpoints,   \* ready addresses of the peer services
  lease,       \* holders of the leader election lock: {} or {s}
  up,          \* servers whose process runs
  leader, ready, peers,  \* the peerManager of each server
  listening,   \* the channel is in p.listeners
  pending,     \* messages being sent: <<>> or <<m>>, the mutex is held meanwhile
  chan,        \* the listener's channel
  faults

pmVars == <<endpoints, lease, up, leader, ready, peers, listening, pending, chan, faults>>
local == <<leader, ready, peers, listening, pending, chan>>

\* peermanager.Peers as notify fills it in.
Peers(s, isLeader, isReady, ids) ==
  [Leader |-> isLeader, Ready |-> isReady, SelfID |-> s, IDs |-> ids]

Message(s) == Peers(s, leader[s], ready[s], peers[s])

PMInit ==
  /\ endpoints = Servers
  /\ lease = {}
  /\ up = Servers
  /\ leader = [s \in Servers |-> FALSE]
  /\ ready = [s \in Servers |-> FALSE]
  /\ peers = [s \in Servers |-> {}]
  /\ listening = [s \in Servers |-> TRUE]
  /\ pending = [s \in Servers |-> <<>>]
  /\ chan = [s \in Servers |-> <<>>]
  /\ faults = 0

Fault == faults < MaxFaults /\ faults' = faults + 1

\* The mutex of the peerManager is free.
Unlocked(s) == s \in up /\ pending[s] = <<>>

-----------------------------------------------------------------------------
(* peerManager                                                             *)

\* Mutant: notify leaves out who the message is about.
AddRemovePeersNoSelf(s) ==
  /\ Unlocked(s) /\ listening[s]
  /\ peers' = [peers EXCEPT ![s] = endpoints \ {s}]
  /\ ready' = [ready EXCEPT ![s] = s \in endpoints]
  /\ pending' = [pending EXCEPT ![s] =
       <<Peers(0, leader[s], s \in endpoints, endpoints \ {s})>>]
  /\ UNCHANGED <<endpoints, lease, up, leader, listening, chan, faults>>

\* Mutant: the message is made before the new peers are in place.
AddRemovePeersStale(s) ==
  /\ Unlocked(s) /\ listening[s]
  /\ peers' = [peers EXCEPT ![s] = endpoints \ {s}]
  /\ ready' = [ready EXCEPT ![s] = s \in endpoints]
  /\ pending' = [pending EXCEPT ![s] = <<Message(s)>>]
  /\ UNCHANGED <<endpoints, lease, up, leader, listening, chan, faults>>

\* syncService and addRemovePeers: the handler of the Endpoints, run on every
\* change and on resyncs.  (Once the server shuts down its informers are off.)
AddRemovePeers(s) ==
  /\ Unlocked(s) /\ listening[s]
  /\ peers' = [peers EXCEPT ![s] = endpoints \ {s}]
  /\ ready' = [ready EXCEPT ![s] = s \in endpoints]
  /\ pending' = [pending EXCEPT ![s] =
       <<Peers(s, leader[s], s \in endpoints, endpoints \ {s})>>]
  /\ UNCHANGED <<endpoints, lease, up, leader, listening, chan, faults>>

\* Leader: called once the election is won.
Leader(s) ==
  /\ Unlocked(s) /\ listening[s]
  /\ lease = {s} /\ ~leader[s]
  /\ leader' = [leader EXCEPT ![s] = TRUE]
  /\ pending' = [pending EXCEPT ![s] = <<Peers(s, TRUE, ready[s], peers[s])>>]
  /\ UNCHANGED <<endpoints, lease, up, ready, peers, listening, chan, faults>>

\* notify, RemoveListener: the send goes through when the channel has room.
Send(s) ==
  /\ s \in up /\ pending[s] # <<>>
  /\ Len(chan[s]) < ChanCap
  /\ chan' = [chan EXCEPT ![s] = Append(@, pending[s][1])]
  /\ pending' = [pending EXCEPT ![s] = <<>>]
  /\ UNCHANGED <<endpoints, lease, up, leader, ready, peers, listening, faults>>

\* Mutant: the listener goes without a last message.
RemoveListenerSilently(s) ==
  /\ Unlocked(s) /\ listening[s]
  /\ Fault
  /\ listening' = [listening EXCEPT ![s] = FALSE]
  /\ UNCHANGED <<endpoints, lease, up, leader, ready, peers, pending, chan>>

\* RemoveListener, when the server's context is done: out of the listeners, and
\* a last message without Ready.
RemoveListener(s) ==
  /\ Unlocked(s) /\ listening[s]
  /\ Fault
  /\ listening' = [listening EXCEPT ![s] = FALSE]
  /\ pending' = [pending EXCEPT ![s] =
       <<Peers(s, leader[s], FALSE, {})>>]
  /\ UNCHANGED <<endpoints, lease, up, leader, ready, peers, chan>>

-----------------------------------------------------------------------------
(* The surroundings: Kubernetes and the processes.                         *)

\* A server becomes ready or stops being ready.
EndpointsChange ==
  /\ \E s \in Servers :
       \/ s \in endpoints /\ endpoints' = endpoints \ {s}
       \/ s \in up \ endpoints /\ listening[s] /\ endpoints' = endpoints \cup {s}
  /\ Fault
  /\ UNCHANGED <<lease, up, local>>

\* leader.RunOrDie: a free lease is taken; the lease of a dead server runs out.
TakeLease(s) ==
  /\ lease = {} /\ s \in up /\ listening[s]
  /\ lease' = {s}
  /\ UNCHANGED <<endpoints, up, local, faults>>

LeaseExpires ==
  /\ lease \cap up = {} /\ lease # {}
  /\ lease' = {}
  /\ UNCHANGED <<endpoints, up, local, faults>>

\* The process dies, and with it everything it knew.
PMCrash(s) ==
  /\ s \in up
  /\ up' = up \ {s}
  /\ leader' = [leader EXCEPT ![s] = FALSE]
  /\ ready' = [ready EXCEPT ![s] = FALSE]
  /\ peers' = [peers EXCEPT ![s] = {}]
  /\ pending' = [pending EXCEPT ![s] = <<>>]
  /\ chan' = [chan EXCEPT ![s] = <<>>]
  /\ listening' = [listening EXCEPT ![s] = FALSE]
  /\ UNCHANGED <<endpoints, lease>>

\* The process starts: the listener is registered (server.Start) before the
\* informers run (scaledContext.Start), which app.Run does in this order.
PMBoot(s) ==
  /\ s \notin up
  /\ up' = up \cup {s}
  /\ listening' = [listening EXCEPT ![s] = TRUE]
  /\ UNCHANGED <<endpoints, lease, leader, ready, peers, pending, chan, faults>>

PeerNext ==
  \/ \E s \in Servers :
       AddRemovePeers(s) \/ Leader(s) \/ Send(s) \/ RemoveListener(s) \/ TakeLease(s)
  \/ EndpointsChange \/ LeaseExpires

\* The consumer takes the oldest message.
Take(s) ==
  /\ s \in up /\ chan[s] # <<>>
  /\ chan' = [chan EXCEPT ![s] = Tail(@)]
  /\ UNCHANGED <<endpoints, lease, up, leader, ready, peers, listening, pending, faults>>

Messages == [Leader : BOOLEAN, Ready : BOOLEAN, SelfID : Servers, IDs : SUBSET Servers]

PMTypeOK ==
  /\ endpoints \in SUBSET Servers /\ lease \in SUBSET Servers /\ up \in SUBSET Servers
  /\ leader \in [Servers -> BOOLEAN] /\ ready \in [Servers -> BOOLEAN]
  /\ peers \in [Servers -> SUBSET Servers]
  /\ listening \in [Servers -> BOOLEAN]
  /\ pending \in [Servers -> Seq(Messages)]
  /\ chan \in [Servers -> Seq(Messages)]
  /\ faults \in Nat
=============================================================================

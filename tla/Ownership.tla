----------------------------- MODULE Ownership -----------------------------
(***************************************************************************)
(* userControllersController.amOwner: which server of an HA installation   *)
(* runs the owner controllers of a cluster.  A server's view of its peers  *)
(* is a record with the set of IDs (its own included; the code keeps it as *)
(* a sorted slice), Ready, Leader and SelfID.  IDs are numbers here, in    *)
(* the order in which sort.Strings puts the addresses they stand for.      *)
(***************************************************************************)
EXTENDS Integers, FiniteSets

CONSTANTS
  MaxUint32,   \* math.MaxUint32 in the code; the arithmetic works for any bound
  Clusters,    \* cluster UIDs
  Checksum     \* crc32.ChecksumIEEE of each UID

ASSUME MaxAssumption == MaxUint32 \in Nat \ {0}
ASSUME ChecksumAssumption == Checksum \in [Clusters -> 0 .. MaxUint32]

\* Mutant: without the special case for the largest checksum.
CkUnclamped(c) == Checksum[c]

\* ck, with the largest value taken down by one.
Ck(c) == IF Checksum[c] = MaxUint32 THEN Checksum[c] - 1 ELSE Checksum[c]

\* scaled: the (zero-based) position of the owner in the sorted slice of IDs.
Scaled(c, n) == (Ck(c) * n) \div MaxUint32

\* The (zero-based) position of an ID in the sorted slice.
Rank(ids, id) == Cardinality({i \in ids : i < id})

\* Mutant: the IDs are not sorted, so that a server finds itself in the last place.
AmOwnerUnsorted(peers, c) ==
  /\ peers.Ready
  /\ Cardinality(peers.IDs) = 1 => peers.Leader
  /\ Scaled(c, Cardinality(peers.IDs)) = Cardinality(peers.IDs) - 1

AmOwner(peers, c) ==
  /\ peers.Ready
  /\ peers.IDs # {}
  /\ Cardinality(peers.IDs) = 1 => peers.Leader
  /\ Rank(peers.IDs, peers.SelfID) = Scaled(c, Cardinality(peers.IDs))
=============================================================================

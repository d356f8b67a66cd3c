------------------------- MODULE MCUserControllers -------------------------
(* Model-checking instances of UserControllers. *)
EXTENDS UserControllers

\* The largest checksum, where amOwner has its special case.
MCMaxUint32 == 15
MCClusters == {"c1"}
MCChecksumTop == [c \in MCClusters |-> 15]
=============================================================================

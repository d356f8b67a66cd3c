------------------------- MODULE MCMultiClusterApp -------------------------
(* Model-checking instances of MultiClusterApp. *)
EXTENDS MultiClusterApp

None == {}
One == {<<1>>}
Two == {<<1, 2>>}
=============================================================================

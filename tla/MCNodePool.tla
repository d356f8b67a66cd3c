----------------------------- MODULE MCNodePool -----------------------------
(* Model-checking instances of NodePool. *)
EXTENDS NodePool

OneRole == {{"worker"}}
TwoRoles == {{"worker"}, AllRoles}
SomeOrNegative == {-1, 2}
=============================================================================

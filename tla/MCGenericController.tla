------------------------ MODULE MCGenericController ------------------------
(* Model-checking instances of GenericController. *)
EXTENDS GenericController
=============================================================================

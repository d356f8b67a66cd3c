--------------------------- MODULE MCResourceQuota ---------------------------
(* Model-checking instances of ResourceQuota. *)
EXTENDS ResourceQuota

Pods(k) == [f \in {"pods"} |-> k]
Both(k, m) == [f \in {"pods", "cpu"} |-> IF f = "pods" THEN k ELSE m]

MCFields == {"pods", "cpu"}

\* Pods(2) can be asked for while the project has no quota, and has to be completed.
MCLimits == {Pods(2), Both(2, 1)}
MCProjectQuotas == {[limit |-> Both(2, 1), default |-> Both(1, 0)]}
=============================================================================

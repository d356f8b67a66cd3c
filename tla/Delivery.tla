------------------------------ MODULE Delivery ------------------------------
(***************************************************************************)
(* What a controller promises its handlers: every change of an object is   *)
(* owed to the handlers in the list, and whatever is owed to a handler is  *)
(* served in the end.                                                      *)
(***************************************************************************)
CONSTANTS Handlers, Keys

VARIABLES
  registered,  \* the handlers that are in the list
  owed         \* pairs <<h, k>>: h has still to handle the present state of k

vars == <<registered, owed>>

Init == registered = {} /\ owed = {}

\* A new handler is owed the objects that exist.
Register(h) ==
  /\ h \notin registered
  /\ registered' = registered \cup {h}
  /\ \E K \in SUBSET Keys : owed' = owed \cup ({h} \X K)

\* An object changes; a handler that made the change itself may know it already.
Change(k) ==
  /\ \E R \in SUBSET registered : owed' = owed \cup (R \X {k})
  /\ UNCHANGED registered

Serve(h, k) ==
  /\ <<h, k>> \in owed
  /\ owed' = owed \ {<<h, k>>}
  /\ UNCHANGED registered

\* Handlers leave the list, and nothing is owed to them any more.
Deregister ==
  /\ registered' \in SUBSET registered
  /\ owed' = owed \cap (registered' \X Keys)

Next ==
  \/ \E h \in Handlers : Register(h) \/ \E k \in Keys : Serve(h, k)
  \/ \E k \in Keys : Change(k)
  \/ Deregister

Spec ==
  /\ Init
  /\ [][Next]_vars
  /\ \A h \in Handlers, k \in Keys : WF_vars(Serve(h, k))
=============================================================================

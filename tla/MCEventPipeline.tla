--------------------------- MODULE MCEventPipeline ---------------------------
(* Instances of EventPipeline: which swap belongs to which transaction. *)
EXTENDS EventPipeline, TLC

CONSTANTS a1, a2, ta

(* Two hops of one transaction. *)
TwoHops == (a1 :> ta) @@ (a2 :> ta)
=============================================================================

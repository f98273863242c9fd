---------------------------- MODULE MCRateLimiter ----------------------------
(* Instances of RateLimiter: which worker belongs to which instance. *)
EXTENDS RateLimiter, TLC

CONSTANTS c1, c2, i1, i2

(* Workers of two instances, whose clocks differ. *)
TwoInstances == (c1 :> i1) @@ (c2 :> i2)
=============================================================================

----------------------------- MODULE MCTxGrouper -----------------------------
(* Instances of TxGrouper: which swap belongs to which transaction. *)
EXTENDS TxGrouper, TLC

CONSTANTS a1, a2, a3, a4, b1, ta, tb

(* A transaction of one swap more than maxSwaps next to one of a single    *)
(* swap.                                                                   *)
FourAndOne == (a1 :> ta) @@ (a2 :> ta) @@ (a3 :> ta) @@ (a4 :> ta) @@ (b1 :> tb)
=============================================================================

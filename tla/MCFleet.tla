------------------------------- MODULE MCFleet -------------------------------
(* An instance of Fleet in which all swaps are of one transaction. *)
EXTENDS Fleet

CONSTANTS i1, i2, e1, e2, ta

TwoSwaps == {i1, i2} \X {e1, e2}
TwoTx == {i1, i2} \X {ta}

SameTx == [s \in Swap |-> <<InstanceOf(s), ta>>]
=============================================================================

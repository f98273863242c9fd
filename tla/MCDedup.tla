------------------------------- MODULE MCDedup -------------------------------
(***************************************************************************)
(* Dedup for TLC: instances, and the workers of an instance, are alike.    *)
(***************************************************************************)
EXTENDS Dedup, TLC

CONSTANTS i1, i2, s1, s2

MCInstance == {i1, i2}
MCSlot == {s1, s2}

Renamings == Permutations(MCInstance) \cup Permutations(MCSlot)
=============================================================================

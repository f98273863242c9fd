------------------------- MODULE MCSubscriptionSync -------------------------
(***************************************************************************)
(* Values for the constants of SubscriptionSync (and SettingsStore).       *)
(***************************************************************************)
EXTENDS SubscriptionSync, TLC

CONSTANTS w1, w2, t1, t2, x1, x2, s1, g1, g2

MCAdmin == {w1, w2}
MCToken == {t1, t2}

(* Forms: everything on; a toggle for the stream against that of the       *)
(* token; a toggle for a stream that the token does not list.              *)
MCForm ==
  {[address |-> x1, streams |-> {s1}, notify |-> TRUE, streamNotify |-> NoMap],
   [address |-> x2, streams |-> {}, notify |-> FALSE, streamNotify |-> [s \in {s1} |-> "on"]],
   [address |-> x2, streams |-> {s1}, notify |-> TRUE, streamNotify |-> [s \in {s1} |-> "off"]]}

(* The configuration lists one token, once or twice. *)
Line(x) == [address |-> x, streams |-> {s1}]
OneToken == {[tokens |-> <<Line(x1)>>, telegram |-> g2]}
MCConfigFile == OneToken \cup {[tokens |-> <<Line(x1), Line(x1)>>, telegram |-> g2]}

Renamings == Permutations(MCAdmin) \cup Permutations(MCToken)
=============================================================================

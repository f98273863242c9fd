--------------------------- MODULE TxGrouperProofs ---------------------------
(***************************************************************************)
(* Proofs about module TxGrouper, for any swaps, transactions, window and  *)
(* limits.                                                                 *)
(***************************************************************************)
EXTENDS TxGrouper, FiniteSetTheorems, TLAPS

(* What the sections keep between each other: an entry's swaps carry its   *)
(* hash, its timer field names one of them, a missing entry has no timer   *)
(* field, and the entry is never full (a full one was built at once).      *)
EntryInv ==
  \A t \in Tx :
    /\ group[t] \subseteq {s \in Added : TxOf[s] = t}
    /\ IsFiniteSet(group[t]) /\ Cardinality(group[t]) < MaxSwaps
    /\ group[t] # {} => pendingTimer[t] \in group[t]
    /\ group[t] = {} => pendingTimer[t] = NoSwap /\ groupAge[t] = 0

GInv == GrouperTypeOK /\ EntryInv /\ EachSwapOnce /\ GroupHasTimer /\ BuiltWellFormed

LEMMA GrouperTypeStep == GrouperTypeOK /\ [GrouperNext]_gvars => GrouperTypeOK'
<1> SUFFICES ASSUME GrouperTypeOK, [GrouperNext]_gvars PROVE GrouperTypeOK'
  OBVIOUS
<1> USE SwapAssumption, LimitAssumption
<1> USE DEF GrouperTypeOK, TimerState, Stopped
<1>1. ASSUME NEW s \in Swap, AddSwap(s) PROVE GrouperTypeOK'
  BY <1>1 DEF AddSwap, TimersWith, WindowFor, BuildMultiHopSwap
<1>2. ASSUME NEW s \in Swap, TimerFires(s) PROVE GrouperTypeOK'
  BY <1>2 DEF TimerFires
<1>3. ASSUME NEW s \in Swap, FinalizeTransaction(s) PROVE GrouperTypeOK'
  BY <1>3 DEF FinalizeTransaction, BuildMultiHopSwap
<1>4. ASSUME Cleanup PROVE GrouperTypeOK'
  BY <1>4 DEF Cleanup, Stale
<1>5. ASSUME GrouperTick PROVE GrouperTypeOK'
  BY <1>5 DEF GrouperTick
<1>6. CASE UNCHANGED gvars
  BY <1>6 DEF gvars
<1> QED
  BY <1>1, <1>2, <1>3, <1>4, <1>5, <1>6 DEF GrouperNext

LEMMA GrouperTypeInit == GrouperInit => GrouperTypeOK
<1> SUFFICES ASSUME GrouperInit PROVE GrouperTypeOK
  OBVIOUS
<1>1. late \in BOOLEAN
  BY Zenon DEF GrouperInit
<1> QED
  BY <1>1, LimitAssumption DEF GrouperInit, GrouperTypeOK, TimerState

(* Every value the grouper keeps stays in its type. *)
THEOREM GrouperTypeCorrect == GrouperSpec => []GrouperTypeOK
  BY GrouperTypeInit, GrouperTypeStep, PTL DEF GrouperSpec

-----------------------------------------------------------------------------
(* A group that takes one more swap. *)
LEMMA JoinSize ==
  ASSUME GInv, NEW s \in Swap, timer[s] = "unset"
  PROVE  /\ s \notin group[TxOf[s]]
         /\ IsFiniteSet(group[TxOf[s]] \cup {s})
         /\ Cardinality(group[TxOf[s]]) \in Nat
         /\ Cardinality(group[TxOf[s]] \cup {s}) = Cardinality(group[TxOf[s]]) + 1
         /\ Cardinality(group[TxOf[s]] \cup {s}) <= MaxSwaps
<1>1. TxOf[s] \in Tx
  BY SwapAssumption
<1>2. s \notin group[TxOf[s]] /\ IsFiniteSet(group[TxOf[s]])
  BY <1>1 DEF GInv, EntryInv, Added
<1>3. Cardinality(group[TxOf[s]]) \in Nat
  BY <1>2, FS_CardinalityType
<1>4. /\ IsFiniteSet(group[TxOf[s]] \cup {s})
      /\ Cardinality(group[TxOf[s]] \cup {s}) = Cardinality(group[TxOf[s]]) + 1
  BY <1>2, FS_AddElement
<1> QED
  BY <1>1, <1>2, <1>3, <1>4, LimitAssumption DEF GInv, EntryInv

LEMMA EmptySize == IsFiniteSet({}) /\ Cardinality({}) = 0
  BY FS_EmptySet

LEMMA AddSwapKeeps ==
  ASSUME GInv, NEW s \in Swap, AddSwap(s)
  PROVE  EntryInv' /\ EachSwapOnce' /\ GroupHasTimer' /\ BuiltWellFormed'
<1> DEFINE t == TxOf[s]
           swaps == group[t] \cup {s}
<1> USE SwapAssumption, LimitAssumption
<1>1. t \in Tx /\ timer[s] = "unset" /\ s \notin Added
  BY DEF AddSwap, Added
<1>2. /\ s \notin group[t] /\ IsFiniteSet(swaps)
      /\ Cardinality(swaps) \in Nat /\ Cardinality(swaps) <= MaxSwaps
  BY <1>1, JoinSize
<1>3. Added' = Added \cup {s}
  <2>1. timer' = TimersWith(s, swaps)
    BY DEF AddSwap
  <2>2. timer'[s] # "unset"
    BY <2>1 DEF TimersWith
  <2>3. \A u \in Swap \ {s} : timer'[u] = "unset" <=> timer[u] = "unset"
    BY <2>1 DEF TimersWith, Stopped
  <2> QED
    BY <2>2, <2>3 DEF Added
<1>4. \A r \in swaps : TxOf[r] = t /\ r \in Swap
  BY <1>1 DEF GInv, EntryInv, Added
<1>5. CASE Full(swaps)
  <2>1. /\ group' = [group EXCEPT ![t] = {}]
        /\ pendingTimer' = [pendingTimer EXCEPT ![t] = NoSwap]
        /\ groupAge' = [groupAge EXCEPT ![t] = 0]
        /\ built' = built \cup {swaps} /\ removed' = removed
    BY <1>5 DEF AddSwap, BuildMultiHopSwap
  <2>2. EntryInv'
    BY <1>1, <1>3, <2>1, EmptySize DEF GInv, EntryInv, GrouperTypeOK, Added
  <2>3. EachSwapOnce'
    <3>1. \A u \in Tx : group'[u] = IF u = t THEN {} ELSE group[u]
      BY <2>1 DEF GInv, GrouperTypeOK
    <3>2. swaps \cap (Reported \cup removed) = {}
      BY <1>1 DEF GInv, EachSwapOnce, Grouped, Reported
    <3>3. \A u \in Tx \ {t} : group[u] \cap swaps = {}
      BY <1>1, <1>4 DEF GInv, EntryInv
    <3>a. Grouped' = Grouped \ group[t]
      BY <1>1, <1>4, <3>1 DEF GInv, EntryInv, Grouped
    <3>b. group[t] \subseteq Grouped /\ Reported' = Reported \cup swaps
      BY <1>1, <2>1 DEF Grouped, Reported
    <3>4. Added' = Grouped' \cup Reported' \cup removed'
      BY <1>3, <2>1, <3>a, <3>b DEF GInv, EachSwapOnce
    <3>5. \A a, b \in built' : a # b => a \cap b = {}
      BY <2>1, <3>2 DEF GInv, EachSwapOnce, Grouped, Reported
    <3>6. \A u \in Tx : group'[u] \cap (Reported' \cup removed') = {}
      BY <2>1, <3>1, <3>3 DEF GInv, EachSwapOnce, Grouped, Reported
    <3>7. removed' \cap Reported' = {}
      BY <2>1, <3>2 DEF GInv, EachSwapOnce, Grouped, Reported
    <3> QED
      BY <2>2, <3>4, <3>5, <3>6, <3>7 DEF EachSwapOnce, Grouped, Reported, EntryInv
  <2>4. GroupHasTimer'
    BY <1>1, <2>1 DEF GInv, GroupHasTimer, EntryInv, GrouperTypeOK,
                      AddSwap, TimersWith, Stopped, Added
  <2>5. BuiltWellFormed'
    BY <1>2, <1>4, <2>1 DEF GInv, BuiltWellFormed
  <2> QED
    BY <2>2, <2>3, <2>4, <2>5
<1>6. CASE ~Full(swaps)
  <2>1. /\ group' = [group EXCEPT ![t] = swaps]
        /\ pendingTimer' = [pendingTimer EXCEPT ![t] = s]
        /\ groupAge' = groupAge /\ built' = built /\ removed' = removed
    BY <1>6 DEF AddSwap
  <2>2. \A u \in Tx : group'[u] = IF u = t THEN swaps ELSE group[u]
    BY <2>1 DEF GInv, GrouperTypeOK
  <2>3. EntryInv'
    BY <1>1, <1>2, <1>3, <1>4, <1>6, <2>1, <2>2
       DEF GInv, EntryInv, GrouperTypeOK, Full, Added
  <2>4. EachSwapOnce'
    <3>a. Grouped' = Grouped \cup {s}
      BY <1>1, <2>2 DEF Grouped
    <3>1. Added' = Grouped' \cup Reported' \cup removed'
      BY <1>3, <2>1, <3>a DEF GInv, EachSwapOnce, Reported
    <3>2. \A u \in Tx : group'[u] \cap (Reported' \cup removed') = {}
      BY <1>1, <2>1, <2>2 DEF GInv, EachSwapOnce, Grouped, Reported
    <3> QED
      BY <2>1, <2>3, <3>1, <3>2 DEF GInv, EachSwapOnce, EntryInv, Reported
  <2>5. GroupHasTimer'
    BY <1>1, <1>6, <2>1, <2>2 DEF GInv, GroupHasTimer, EntryInv, GrouperTypeOK,
                      AddSwap, TimersWith, Stopped, Added
  <2>6. BuiltWellFormed'
    BY <2>1 DEF GInv, BuiltWellFormed
  <2> QED
    BY <2>3, <2>4, <2>5, <2>6
<1> QED
  BY <1>5, <1>6

(* The section of a timer's callback, whichever group it meets. *)
LEMMA FinalizeKeeps ==
  ASSUME GInv, NEW s \in Swap, FinalizeTransaction(s)
  PROVE  EntryInv' /\ EachSwapOnce' /\ GroupHasTimer' /\ BuiltWellFormed'
<1> DEFINE t == TxOf[s]
<1> USE SwapAssumption, LimitAssumption
<1>1. t \in Tx /\ timer[s] = "fired" /\ timer' = [timer EXCEPT ![s] = "off"]
  BY DEF FinalizeTransaction
<1>2. Added' = Added
  BY <1>1 DEF Added, GInv, GrouperTypeOK
<1>3. GroupHasTimer'
  <2>1. \A u \in Tx : group'[u] # {} =>
          group'[u] = group[u] /\ pendingTimer'[u] = pendingTimer[u]
    BY <1>1 DEF FinalizeTransaction, BuildMultiHopSwap, GInv, GrouperTypeOK
  <2>2. \A u \in Tx : group'[u] # {} => pendingTimer[u] # s
    BY <1>1, <2>1 DEF FinalizeTransaction, BuildMultiHopSwap, GInv, GrouperTypeOK,
                      EntryInv, Added
  <2> QED
    BY <1>1, <2>1, <2>2 DEF GInv, GroupHasTimer, GrouperTypeOK
<1>4. CASE group[t] = {}
  <2>1. group' = group /\ pendingTimer' = pendingTimer /\ groupAge' = groupAge
        /\ built' = built /\ removed' = removed
    BY <1>4 DEF FinalizeTransaction
  <2> QED
    BY <1>2, <1>3, <2>1 DEF GInv, EntryInv, EachSwapOnce, BuiltWellFormed, Grouped, Reported
<1>5. CASE group[t] # {}
  <2>1. /\ group' = [group EXCEPT ![t] = {}]
        /\ pendingTimer' = [pendingTimer EXCEPT ![t] = NoSwap]
        /\ groupAge' = [groupAge EXCEPT ![t] = 0]
        /\ built' = built \cup {group[t]} /\ removed' = removed
    BY <1>5 DEF FinalizeTransaction, BuildMultiHopSwap
  <2>2. EntryInv'
    BY <1>1, <1>2, <2>1, EmptySize DEF GInv, EntryInv, GrouperTypeOK
  <2>3. EachSwapOnce'
    <3>1. \A u \in Tx : group'[u] = IF u = t THEN {} ELSE group[u]
      BY <2>1 DEF GInv, GrouperTypeOK
    <3>2. \A u \in Tx \ {t} : group[u] \cap group[t] = {}
      BY <1>1 DEF GInv, EntryInv
    <3>3. Grouped' = Grouped \ group[t] /\ group[t] \subseteq Grouped
      BY <1>1, <3>1, <3>2 DEF Grouped
    <3>4. Reported' = Reported \cup group[t]
      BY <2>1 DEF Reported
    <3>5. Added' = Grouped' \cup Reported' \cup removed'
      BY <1>2, <2>1, <3>3, <3>4 DEF GInv, EachSwapOnce
    <3>6. \A a, b \in built' : a # b => a \cap b = {}
      BY <1>1, <2>1 DEF GInv, EachSwapOnce, Reported
    <3>7. \A u \in Tx : group'[u] \cap (Reported' \cup removed') = {}
      BY <2>1, <3>1, <3>2, <3>4 DEF GInv, EachSwapOnce
    <3>8. removed' \cap Reported' = {}
      BY <1>1, <2>1, <3>4 DEF GInv, EachSwapOnce
    <3> QED
      BY <2>2, <3>5, <3>6, <3>7, <3>8 DEF EachSwapOnce, EntryInv
  <2>4. BuiltWellFormed'
    <3>1. Cardinality(group[t]) <= MaxSwaps /\ \A r, q \in group[t] : TxOf[r] = TxOf[q]
      <4>1. Cardinality(group[t]) \in Nat
        BY <1>1, FS_CardinalityType DEF GInv, EntryInv
      <4> QED
        BY <1>1, <4>1 DEF GInv, EntryInv
    <3> QED
      BY <1>5, <2>1, <3>1 DEF GInv, BuiltWellFormed
  <2> QED
    BY <1>3, <2>2, <2>3, <2>4
<1> QED
  BY <1>4, <1>5

LEMMA CleanupKeeps ==
  ASSUME GInv, Cleanup
  PROVE  EntryInv' /\ EachSwapOnce' /\ GroupHasTimer' /\ BuiltWellFormed'
<1> USE SwapAssumption, LimitAssumption
<1>1. Stale \subseteq Tx
  BY DEF Stale
<1>2. \A t \in Tx : group'[t] = IF t \in Stale THEN {} ELSE group[t]
  BY DEF Cleanup
<1>3. Added' = Added
  BY DEF Cleanup, Stopped, Added
<1>4. EntryInv'
  BY <1>2, <1>3, EmptySize DEF Cleanup, GInv, EntryInv
<1>5. EachSwapOnce'
  <2> DEFINE Gone == UNION {group[t] : t \in Stale}
  <2>1. \A t \in Tx \ Stale : group[t] \cap Gone = {}
    BY <1>1 DEF GInv, EntryInv
  <2>2. Grouped' = Grouped \ Gone /\ Gone \subseteq Grouped
    BY <1>1, <1>2, <2>1 DEF Grouped
  <2>3. removed' = removed \cup Gone /\ Reported' = Reported /\ built' = built
    BY DEF Cleanup, Reported
  <2>4. Added' = Grouped' \cup Reported' \cup removed'
    BY <1>3, <2>2, <2>3 DEF GInv, EachSwapOnce
  <2>5. \A t \in Tx : group'[t] \cap (Reported' \cup removed') = {}
    BY <1>2, <2>1, <2>3 DEF GInv, EachSwapOnce
  <2>6. removed' \cap Reported' = {}
    BY <1>1, <2>3 DEF GInv, EachSwapOnce
  <2> QED
    BY <1>4, <2>3, <2>4, <2>5, <2>6 DEF GInv, EachSwapOnce, EntryInv
<1>6. GroupHasTimer'
  <2>1. ASSUME NEW t \in Tx, group'[t] # {}
        PROVE  /\ pendingTimer'[t] \in group'[t]
               /\ timer'[pendingTimer'[t]] \in {"armed", "fired"}
    <3>1. t \notin Stale /\ group'[t] = group[t] /\ pendingTimer'[t] = pendingTimer[t]
      BY <1>2, <2>1 DEF Cleanup
    <3>2. /\ pendingTimer[t] \in group[t] /\ pendingTimer[t] \in Swap
          /\ timer[pendingTimer[t]] \in {"armed", "fired"}
          /\ TxOf[pendingTimer[t]] = t
      BY <2>1, <3>1 DEF GInv, GroupHasTimer, EntryInv, Added
    <3>3. \A u \in Stale : pendingTimer[u] \in group[u] /\ TxOf[pendingTimer[u]] = u
      BY <1>1 DEF GInv, EntryInv, Stale
    <3>4. timer'[pendingTimer[t]] = timer[pendingTimer[t]]
      BY <3>1, <3>2, <3>3 DEF Cleanup
    <3> QED
      BY <3>1, <3>2, <3>4
  <2> QED
    BY <2>1 DEF GroupHasTimer
<1>7. BuiltWellFormed'
  BY DEF Cleanup, GInv, BuiltWellFormed
<1> QED
  BY <1>4, <1>5, <1>6, <1>7

LEMMA GrouperStep == GInv /\ [GrouperNext]_gvars => GInv'
<1> SUFFICES ASSUME GInv, [GrouperNext]_gvars PROVE GInv'
  OBVIOUS
<1>1. GrouperTypeOK'
  BY GrouperTypeStep DEF GInv
<1>2. ASSUME NEW s \in Swap, TimerFires(s)
      PROVE EntryInv' /\ EachSwapOnce' /\ GroupHasTimer' /\ BuiltWellFormed'
  <2>1. Added' = Added
    BY <1>2 DEF TimerFires, Added, GInv, GrouperTypeOK
  <2> QED
    BY <1>2, <2>1 DEF TimerFires, GInv, GrouperTypeOK, EntryInv, EachSwapOnce,
                      GroupHasTimer, BuiltWellFormed, Grouped, Reported
<1>3. ASSUME GrouperTick
      PROVE EntryInv' /\ EachSwapOnce' /\ GroupHasTimer' /\ BuiltWellFormed'
  BY <1>3 DEF GrouperTick, GInv, EntryInv, EachSwapOnce, GroupHasTimer,
              BuiltWellFormed, Added, Grouped, Reported
<1>4. CASE UNCHANGED gvars
  BY <1>1, <1>4 DEF gvars, GInv, EntryInv, EachSwapOnce, GroupHasTimer,
                    BuiltWellFormed, Added, Grouped, Reported
<1> QED
  BY <1>1, <1>2, <1>3, <1>4, AddSwapKeeps, FinalizeKeeps, CleanupKeeps
     DEF GrouperNext, GInv

LEMMA GrouperInitial == GrouperInit => GInv
<1>1. GrouperInit => GrouperTypeOK
  BY GrouperTypeInit
<1>2. GrouperInit => EntryInv
  BY EmptySize, LimitAssumption DEF GrouperInit, EntryInv
<1>3. GrouperInit => EachSwapOnce
  BY DEF GrouperInit, EachSwapOnce, Added, Grouped, Reported
<1>4. GrouperInit => GroupHasTimer /\ BuiltWellFormed
  BY DEF GrouperInit, GroupHasTimer, BuiltWellFormed
<1> QED
  BY <1>1, <1>2, <1>3, <1>4 DEF GInv

(* The grouper's invariant, from which its safety properties follow. *)
THEOREM GrouperInvariant == GrouperSpec => []GInv
  BY GrouperInitial, GrouperStep, PTL DEF GrouperSpec

(* Whatever the callbacks' order, a swap is in one place: its group, one   *)
(* notification, or what Cleanup threw away.                               *)
THEOREM SwapsConserved == GrouperSpec => []EachSwapOnce
  BY GrouperInvariant, PTL DEF GInv

(* Every group has a timer or a callback that will close it. *)
THEOREM NoGroupLeftBehind == GrouperSpec => []GroupHasTimer
  BY GrouperInvariant, PTL DEF GInv

(* Notifications respect the limit and never mix transactions. *)
THEOREM NotificationsWellFormed == GrouperSpec => []BuiltWellFormed
  BY GrouperInvariant, PTL DEF GInv

-----------------------------------------------------------------------------
(* While no timer was late, a group has been prolonged by at most one      *)
(* window per swap it holds.                                               *)
AgeInv ==
  \A t \in Tx : group[t] # {} =>
    groupAge[t] + left[pendingTimer[t]] <= Cardinality(group[t]) * GroupWindow

(* On time so far. *)
OnTime == ~late => AgeInv /\ removed = {}

LEMMA WindowTimes ==
  \A m, n \in Nat : m <= n => m * GroupWindow <= n * GroupWindow
<1> SUFFICES ASSUME NEW m \in Nat, NEW n \in Nat, m <= n
             PROVE  m * GroupWindow <= n * GroupWindow
  OBVIOUS
<1>1. n = m + (n - m) /\ n - m \in Nat
  OBVIOUS
<1>2. n * GroupWindow = m * GroupWindow + (n - m) * GroupWindow
  BY <1>1, LimitAssumption
<1>3. (n - m) * GroupWindow >= 0 /\ m * GroupWindow \in Nat
  BY <1>1, LimitAssumption
<1> QED
  BY <1>2, <1>3, LimitAssumption

LEMMA AgeStep ==
  ASSUME GInv, AgeInv, ~late', [GrouperNext]_gvars
  PROVE  AgeInv'
<1> SUFFICES ASSUME NEW t \in Tx, group'[t] # {}
             PROVE  groupAge'[t] + left'[pendingTimer'[t]]
                      <= Cardinality(group'[t]) * GroupWindow
  BY DEF AgeInv
<1> USE SwapAssumption, LimitAssumption
<1> DEFINE Same == /\ group'[t] = group[t] /\ pendingTimer'[t] = pendingTimer[t]
                   /\ groupAge'[t] = groupAge[t] /\ left' = left
           Bound == groupAge'[t] + left'[pendingTimer'[t]]
                      <= Cardinality(group'[t]) * GroupWindow
<1>0. Same => Bound
  BY DEF AgeInv
<1>1. ASSUME NEW s \in Swap, AddSwap(s) PROVE Bound
  <2>1. timer[s] = "unset"
    BY <1>1 DEF AddSwap
  <2>2. s \notin group[t] /\ left' = [left EXCEPT ![s] = GroupWindow]
    BY <1>1, <2>1 DEF AddSwap, WindowFor, GInv, EntryInv, Added
  <2>3. CASE t # TxOf[s]
    <3>1. /\ group'[t] = group[t] /\ pendingTimer'[t] = pendingTimer[t]
          /\ groupAge'[t] = groupAge[t]
      BY <1>1, <2>3 DEF AddSwap, BuildMultiHopSwap, GInv, GrouperTypeOK
    <3>2. pendingTimer[t] \in Swap \ {s}
      BY <2>2, <3>1 DEF GInv, EntryInv, GrouperTypeOK
    <3>3. left'[pendingTimer'[t]] = left[pendingTimer[t]]
      BY <2>2, <3>1, <3>2 DEF GInv, GrouperTypeOK
    <3> QED
      BY <3>1, <3>3 DEF AgeInv
  <2>4. CASE t = TxOf[s]
    <3> DEFINE n == Cardinality(group[t])
    <3>1. ~Full(group[t] \cup {s})
      BY <1>1, <2>4 DEF AddSwap, BuildMultiHopSwap, GInv, GrouperTypeOK
    <3>2. /\ group'[t] = group[t] \cup {s} /\ pendingTimer'[t] = s
          /\ groupAge'[t] = groupAge[t]
      BY <1>1, <2>4, <3>1 DEF AddSwap, GInv, GrouperTypeOK
    <3>3. left'[pendingTimer'[t]] = GroupWindow
      BY <2>2, <3>2 DEF GInv, GrouperTypeOK
    <3>4. n \in Nat /\ Cardinality(group'[t]) = n + 1
      BY <2>1, <2>4, <3>2, JoinSize
    <3>5. groupAge[t] <= n * GroupWindow
      <4>1. CASE group[t] = {}
        BY <4>1, EmptySize DEF GInv, EntryInv
      <4>2. CASE group[t] # {}
        <5>1. /\ groupAge[t] \in Nat /\ left[pendingTimer[t]] \in Nat
              /\ groupAge[t] + left[pendingTimer[t]] <= n * GroupWindow
          BY <4>2 DEF AgeInv, GInv, EntryInv, GrouperTypeOK
        <5> HIDE DEF n
        <5> QED
          BY <3>4, <5>1
      <4> QED
        BY <4>1, <4>2
    <3>6. groupAge[t] \in Nat
      BY DEF GInv, GrouperTypeOK
    <3> HIDE DEF n
    <3>7. (n + 1) * GroupWindow = n * GroupWindow + GroupWindow
      BY <3>4
    <3>8. groupAge[t] + GroupWindow <= (n + 1) * GroupWindow
      BY <3>4, <3>5, <3>6, <3>7
    <3> QED
      BY <3>2, <3>3, <3>4, <3>8
  <2> QED
    BY <2>3, <2>4
<1>2. ASSUME NEW s \in Swap, TimerFires(s) PROVE Same
  BY <1>2 DEF TimerFires
<1>3. ASSUME NEW s \in Swap, FinalizeTransaction(s) PROVE Same
  BY <1>3 DEF FinalizeTransaction, BuildMultiHopSwap, GInv, GrouperTypeOK
<1>4. ASSUME Cleanup PROVE Same
  BY <1>4 DEF Cleanup
<1>5. ASSUME GrouperTick PROVE Bound
  <2>1. group' = group /\ pendingTimer' = pendingTimer
    BY <1>5 DEF GrouperTick
  <2>2. pendingTimer[t] \in Swap /\ timer[pendingTimer[t]] \in {"armed", "fired"}
    BY <2>1 DEF GInv, GroupHasTimer, EntryInv, Added
  <2>a. ~Overdue(pendingTimer[t])
    BY Zenon, <1>5, <2>2 DEF GrouperTick
  <2>3. timer[pendingTimer[t]] = "armed" /\ left[pendingTimer[t]] \in Nat \ {0}
    BY <2>2, <2>a DEF Overdue, GInv, GrouperTypeOK
  <2>4. left'[pendingTimer[t]] = left[pendingTimer[t]] - 1
    BY <1>5, <2>2, <2>3 DEF GrouperTick
  <2>5. groupAge[t] \in Nat /\ groupAge'[t] \in {groupAge[t], groupAge[t] + 1}
    BY <1>5 DEF GrouperTick, GInv, GrouperTypeOK
  <2>6. groupAge'[t] + left'[pendingTimer[t]] <= groupAge[t] + left[pendingTimer[t]]
    BY <2>3, <2>4, <2>5
  <2>7. groupAge[t] + left[pendingTimer[t]] <= Cardinality(group[t]) * GroupWindow
    BY <2>1 DEF AgeInv
  <2>8. Cardinality(group[t]) * GroupWindow \in Nat
    <3>1. Cardinality(group[t]) \in Nat
      BY FS_CardinalityType DEF GInv, EntryInv
    <3> QED BY <3>1
  <2> QED
    BY <2>1, <2>3, <2>4, <2>5, <2>6, <2>7, <2>8
<1>6. CASE UNCHANGED gvars
  BY <1>0, <1>6 DEF gvars
<1> QED
  BY <1>0, <1>1, <1>2, <1>3, <1>4, <1>5, <1>6 DEF GrouperNext

(* If maxSwaps - 1 windows do not exceed maxAge (9 windows of 500ms against*)
(* 10s in the program), Cleanup never throws a transaction away before some*)
(* timer or callback was late.                                             *)
THEOREM CleanupIsIdle ==
  ASSUME (MaxSwaps - 1) * GroupWindow <= MaxAge
  PROVE  GrouperSpec => []CleanupRemovesNothing
<1> USE LimitAssumption
<1>1. GrouperInit => OnTime
  BY DEF GrouperInit, AgeInv, OnTime
<1>2. ASSUME GInv, AgeInv PROVE Stale = {}
  <2> SUFFICES ASSUME NEW t \in Tx, group[t] # {} PROVE groupAge[t] <= MaxAge
    <3>1. \A t \in Tx : groupAge[t] \in Nat
      BY <1>2 DEF GInv, GrouperTypeOK
    <3> QED
      BY <3>1 DEF Stale
  <2> DEFINE n == Cardinality(group[t])
  <2>2. n \in Nat /\ n <= MaxSwaps - 1
    <3>1. n \in Nat /\ n < MaxSwaps
      BY <1>2, FS_CardinalityType DEF GInv, EntryInv
    <3> HIDE DEF n
    <3> QED BY <3>1
  <2>3. groupAge[t] \in Nat /\ left[pendingTimer[t]] \in Nat
        /\ groupAge[t] + left[pendingTimer[t]] <= n * GroupWindow
    BY <1>2 DEF GInv, EntryInv, AgeInv, GrouperTypeOK
  <2> HIDE DEF n
  <2>4. n * GroupWindow <= (MaxSwaps - 1) * GroupWindow
    BY <2>2, WindowTimes
  <2>5. n * GroupWindow \in Nat /\ (MaxSwaps - 1) * GroupWindow \in Nat
    BY <2>2
  <2> QED
    BY <2>3, <2>4, <2>5
<1>3. GInv /\ OnTime /\ [GrouperNext]_gvars => OnTime'
  <2> SUFFICES ASSUME GInv, OnTime, [GrouperNext]_gvars, ~late'
               PROVE  AgeInv' /\ removed' = {}
    BY DEF OnTime
  <2>1. ~late
    BY DEF GrouperNext, AddSwap, TimerFires, FinalizeTransaction, Cleanup,
           GrouperTick, gvars
  <2>2. ~Cleanup
    BY <1>2, <2>1 DEF Cleanup, OnTime
  <2>3. removed' = removed
    BY <2>2 DEF GrouperNext, AddSwap, TimerFires, FinalizeTransaction, GrouperTick, gvars
  <2> QED
    BY <2>1, <2>3, AgeStep DEF OnTime
<1>4. OnTime => CleanupRemovesNothing
  BY DEF OnTime, CleanupRemovesNothing
<1> QED
  BY <1>1, <1>3, <1>4, GrouperInvariant, PTL DEF GrouperSpec

=============================================================================

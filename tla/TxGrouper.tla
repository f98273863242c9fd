------------------------------ MODULE TxGrouper ------------------------------
(***************************************************************************)
(* The transaction grouper of internal/handler/tx_grouper.go: swaps that   *)
(* carry the same transaction hash are collected in memory and turned into *)
(* one MultiHopSwap when no further swap came for groupWindow, or as soon  *)
(* as maxSwaps of them are there.                                          *)
(*                                                                         *)
(* Every method body is one critical section of g.mu, hence one action.    *)
(* What is not atomic are the timers: time.AfterFunc runs its callback in  *)
(* a goroutine of its own, so between the moment a timer goes off and the  *)
(* moment its callback gets the mutex any number of other sections may     *)
(* run, and Stop no longer has an effect on it.  A swap arms exactly one   *)
(* timer, so timers are named by the swap that armed them.                 *)
(***************************************************************************)
EXTENDS Integers, FiniteSets

CONSTANTS Swap,        \* the swaps of all transactions, each added once
          Tx,          \* transaction hashes
          TxOf,        \* [Swap -> Tx], the hash a swap carries
          GroupWindow, \* groupWindow, in ticks
          MaxSwaps,    \* maxSwaps
          MaxAge,      \* age at which Cleanup removes a group, in ticks
          NoSwap

ASSUME SwapAssumption ==
  /\ TxOf \in [Swap -> Tx]
  /\ NoSwap \notin Swap
ASSUME LimitAssumption ==
  /\ GroupWindow \in Nat \ {0}
  /\ MaxSwaps \in Nat \ {0}
  /\ MaxAge \in Nat

VARIABLES group,        \* [Tx -> SUBSET Swap], pendingSwaps; {}: no such entry
          pendingTimer, \* [Tx -> Swap], the entry's timer field
          groupAge,     \* [Tx -> ticks since the entry's firstSeen]
          timer,        \* [Swap -> TimerState]
          left,         \* [Swap -> ticks before the timer goes off]
          built,        \* the MultiHopSwaps built so far, as sets of swaps
          removed,      \* the swaps of groups that Cleanup threw away
          late          \* history: has a timer that was due, or its callback,
                        \* ever been kept waiting for a tick?

gvars == <<group, pendingTimer, groupAge, timer, left, built, removed, late>>

(* "unset": the swap has not arrived; "fired": the callback waits for g.mu *)
TimerState == {"unset", "armed", "fired", "off"}

Added == {s \in Swap : timer[s] # "unset"}
Grouped == UNION {group[t] : t \in Tx}
Reported == UNION built

GrouperTypeOK ==
  /\ group \in [Tx -> SUBSET Swap]
  /\ pendingTimer \in [Tx -> Swap \cup {NoSwap}]
  /\ groupAge \in [Tx -> 0..(MaxAge + 1)]
  /\ timer \in [Swap -> TimerState]
  /\ left \in [Swap -> 0..GroupWindow]
  /\ built \subseteq SUBSET Swap
  /\ removed \subseteq Swap
  /\ late \in BOOLEAN

GrouperInit ==
  /\ group = [t \in Tx |-> {}]
  /\ pendingTimer = [t \in Tx |-> NoSwap]
  /\ groupAge = [t \in Tx |-> 0]
  /\ timer = [s \in Swap |-> "unset"]
  /\ left = [s \in Swap |-> 0]
  /\ built = {}
  /\ removed = {}
  /\ late = FALSE

-----------------------------------------------------------------------------
(* timer.Stop: prevents the callback only if the timer has not gone off. *)
Stopped(state) == IF state = "armed" THEN "off" ELSE state

(* Mutant: delete(g.pendingSwaps, ...) is forgotten. *)
BuildAndKeep(t, swaps) ==
  /\ built' = built \cup {swaps}
  /\ group' = [group EXCEPT ![t] = swaps]
  /\ pendingTimer' = [pendingTimer EXCEPT ![t] = NoSwap]
  /\ groupAge' = [groupAge EXCEPT ![t] = 0]

(* buildMultiHopSwap: all swaps of the group, and the entry is deleted. *)
BuildMultiHopSwap(t, swaps) ==
  /\ built' = built \cup {swaps}
  /\ group' = [group EXCEPT ![t] = {}]
  /\ pendingTimer' = [pendingTimer EXCEPT ![t] = NoSwap]
  /\ groupAge' = [groupAge EXCEPT ![t] = 0]

(* Mutant: the limit is compared with > . *)
FullTooLate(swaps) == Cardinality(swaps) > MaxSwaps

Full(swaps) == Cardinality(swaps) >= MaxSwaps

(* Mutant: only the first swap of a group arms a timer. *)
TimersNotRearmed(s, swaps) ==
  [u \in Swap |->
     IF u = s THEN (IF swaps = {s} /\ ~Full(swaps) THEN "armed" ELSE "off")
     ELSE IF u = pendingTimer[TxOf[s]] THEN Stopped(timer[u]) ELSE timer[u]]

(* The timers after s joined: the group's former one is stopped, a new one *)
(* armed, which is stopped at once when the group is full.                 *)
TimersWith(s, swaps) ==
  [u \in Swap |->
     IF u = s THEN (IF Full(swaps) THEN "off" ELSE "armed")
     ELSE IF u = pendingTimer[TxOf[s]] THEN Stopped(timer[u]) ELSE timer[u]]

(* Mutant: the new timer also waits for what the old one had left. *)
WindowAddsUp(s) ==
  IF pendingTimer[TxOf[s]] = NoSwap THEN GroupWindow
  ELSE GroupWindow + left[pendingTimer[TxOf[s]]]

WindowFor(s) == GroupWindow

(* AddSwap: join or start the group and arm its timer anew; at the limit,  *)
(* build at once (the caller then queues the result).                      *)
AddSwap(s) ==
  LET t == TxOf[s]
      swaps == group[t] \cup {s} IN
  /\ timer[s] = "unset"
  /\ timer' = TimersWith(s, swaps)
  /\ left' = [left EXCEPT ![s] = WindowFor(s)]
  /\ IF Full(swaps)
       THEN BuildMultiHopSwap(t, swaps)
       ELSE /\ group' = [group EXCEPT ![t] = swaps]
            /\ pendingTimer' = [pendingTimer EXCEPT ![t] = s]
            /\ UNCHANGED <<groupAge, built>>
  /\ UNCHANGED <<removed, late>>

(* The runtime starts the callback of a timer that is due. *)
TimerFires(s) ==
  /\ timer[s] = "armed" /\ left[s] = 0
  /\ timer' = [timer EXCEPT ![s] = "fired"]
  /\ UNCHANGED <<group, pendingTimer, groupAge, left, built, removed, late>>

(* finalizeTransaction: whatever group the hash has NOW is built, be it    *)
(* the one the timer was armed for or not; its own timer is not stopped.   *)
FinalizeTransaction(s) ==
  LET t == TxOf[s] IN
  /\ timer[s] = "fired"
  /\ timer' = [timer EXCEPT ![s] = "off"]
  /\ IF group[t] = {}
       THEN UNCHANGED <<group, pendingTimer, groupAge, built>>
       ELSE BuildMultiHopSwap(t, group[t])
  /\ UNCHANGED <<left, removed, late>>

(* Mutant: Cleanup goes by lastUpdate's window instead of maxAge. *)
StaleSoon == {t \in Tx : group[t] # {} /\ groupAge[t] > GroupWindow}

Stale == {t \in Tx : group[t] # {} /\ groupAge[t] > MaxAge}

(* Cleanup, run every 30s by cleanupWorker: groups whose firstSeen is too  *)
(* long ago go away without a notification.                                *)
Cleanup ==
  /\ Stale # {}
  /\ removed' = removed \cup UNION {group[t] : t \in Stale}
  /\ timer' = [u \in Swap |-> IF u \in {pendingTimer[t] : t \in Stale}
                                THEN Stopped(timer[u]) ELSE timer[u]]
  /\ group' = [t \in Tx |-> IF t \in Stale THEN {} ELSE group[t]]
  /\ pendingTimer' = [t \in Tx |-> IF t \in Stale THEN NoSwap ELSE pendingTimer[t]]
  /\ groupAge' = [t \in Tx |-> IF t \in Stale THEN 0 ELSE groupAge[t]]
  /\ UNCHANGED <<left, built, late>>

(* A timer is due, or its callback has not had the mutex yet. *)
Overdue(s) == timer[s] = "fired" \/ (timer[s] = "armed" /\ left[s] = 0)

GrouperTick ==
  /\ left' = [s \in Swap |-> IF timer[s] = "armed" /\ left[s] > 0
                               THEN left[s] - 1 ELSE left[s]]
  /\ groupAge' = [t \in Tx |-> IF group[t] # {} /\ groupAge[t] <= MaxAge
                                 THEN groupAge[t] + 1 ELSE groupAge[t]]
  /\ late' = (late \/ \E s \in Swap : Overdue(s))
  /\ UNCHANGED <<group, pendingTimer, timer, built, removed>>

GrouperNext ==
  \/ \E s \in Swap : AddSwap(s) \/ TimerFires(s) \/ FinalizeTransaction(s)
  \/ Cleanup
  \/ GrouperTick

GrouperSpec == GrouperInit /\ [][GrouperNext]_gvars

(* Timers fire and a waiting goroutine gets the mutex in the end; nothing  *)
(* makes swaps arrive or Cleanup run.                                      *)
GrouperFairSpec ==
  /\ GrouperSpec
  /\ WF_gvars(GrouperTick)
  /\ \A s \in Swap : WF_gvars(TimerFires(s)) /\ WF_gvars(FinalizeTransaction(s))

-----------------------------------------------------------------------------
(* Properties *)

(* Every swap that was added is in exactly one place: its own transaction's*)
(* group, one built MultiHopSwap, or the groups Cleanup threw away.  None  *)
(* is reported twice and none vanishes, whatever callback runs when.       *)
EachSwapOnce ==
  /\ \A t \in Tx : group[t] \subseteq {s \in Added : TxOf[s] = t}
  /\ Added = Grouped \cup Reported \cup removed
  /\ \A a, b \in built : a # b => a \cap b = {}
  /\ \A t \in Tx : group[t] \cap (Reported \cup removed) = {}
  /\ removed \cap Reported = {}

(* A notification is about one transaction and at most maxSwaps swaps. *)
BuiltWellFormed ==
  \A b \in built :
    /\ b # {} /\ Cardinality(b) <= MaxSwaps
    /\ \A r, s \in b : TxOf[r] = TxOf[s]

(* No group is left behind: the timer a group points to is running or its  *)
(* callback is on its way, although timers are stopped and replaced and    *)
(* callbacks armed for an earlier group may have run.                      *)
GroupHasTimer ==
  \A t \in Tx : group[t] # {} =>
    pendingTimer[t] \in group[t] /\ timer[pendingTimer[t]] \in {"armed", "fired"}

(* Cleanup is only a safety net: as long as timers run on time no group    *)
(* gets as old as maxAge, since at most maxSwaps - 1 swaps can each have   *)
(* prolonged it by one window.                                             *)
CleanupRemovesNothing == removed # {} => late

(* Every group is closed in the end, also one whose timer was replaced or  *)
(* stopped many times: by EachSwapOnce its swaps are then in a             *)
(* notification, or Cleanup threw them away.                               *)
GroupCloses == \A t \in Tx : group[t] # {} ~> group[t] = {}

(* The window is measured from the last swap: a group is closed by a timer *)
(* only when groupWindow has passed without a further swap ("Set new timer *)
(* to finalize after groupWindow", after cancelling the existing one).     *)
WindowRestarts ==
  [][\A s \in Swap :
       FinalizeTransaction(s) /\ group[TxOf[s]] # {} =>
         timer[pendingTimer[TxOf[s]]] # "armed"]_gvars
=============================================================================

----------------------------- MODULE FleetProofs -----------------------------
(***************************************************************************)
(* Proofs about module Fleet, for any instances, swaps, limits, windows    *)
(* and number of crashes.                                                  *)
(***************************************************************************)
EXTENDS Fleet, TxGrouperProofs

(* The copies that are, or may still get, into a message. *)
Copies == begun \cup joined \cup Grouped \cup Reported

PlacesOK ==
  /\ group \in [Tx -> SUBSET Swap]
  /\ built \subseteq SUBSET Swap
  /\ waiting \subseteq built /\ sent \subseteq built
  /\ begun \subseteq Swap /\ joined \subseteq Swap
  /\ quiet \in [SwapEvent -> 0..1]

(* At most one copy of a swap, over all instances, has been let through,   *)
(* unless a crash ended its processing before the record.                  *)
OneCopyEach ==
  \A r, s \in Copies : EventOf(r) = EventOf(s) => r = s \/ EventOf(r) \in abandoned

(* A copy is in a group or reported only while its worker holds the lock   *)
(* or under a record: no other instance lets one through in between.       *)
Protected ==
  \A s \in Grouped \cup Reported :
    s \in joined \/ quiet[EventOf(s)] = 1 \/ EventOf(s) \in abandoned

FInv == PlacesOK /\ OneCopyEach /\ Protected

LEMMA EventType == ASSUME NEW s \in Swap
                   PROVE  EventOf(s) \in SwapEvent /\ InstanceOf(s) \in Instance
  BY FleetAssumption DEF EventOf, InstanceOf

LEMMA FInvInit == FleetInit => FInv
<1> SUFFICES ASSUME FleetInit PROVE FInv
  OBVIOUS
<1>1. Copies = {} /\ Grouped \cup Reported = {}
  BY DEF FleetInit, GrouperInit, Copies, Grouped, Reported
<1>2. PlacesOK
  BY DEF FleetInit, GrouperInit, PlacesOK
<1> QED
  BY <1>1, <1>2 DEF FInv, OneCopyEach, Protected

(* Most steps let no copy in and take no protection away. *)
LEMMA NothingNew ==
  ASSUME FInv, PlacesOK', Copies' \subseteq Copies, abandoned \subseteq abandoned',
         (Grouped \cup Reported)' \subseteq Grouped \cup Reported,
         \A s \in joined : s \in joined' \/ EventOf(s) \in abandoned',
         quiet' = quiet
  PROVE  FInv'
  BY DEF FInv, OneCopyEach, Protected

(* What AddSwap and FinalizeTransaction do to the copies. *)
LEMMA AddSwapPlaces ==
  ASSUME PlacesOK, NEW s \in Swap, AddSwap(s)
  PROVE  /\ group' \in [Tx -> SUBSET Swap] /\ built' \subseteq SUBSET Swap
         /\ built \subseteq built'
         /\ (Grouped \cup Reported)' \subseteq Grouped \cup Reported \cup {s}
<1> DEFINE t == TxOf[s]
<1>1. t \in Tx
  BY SwapAssumption
<1>2. CASE Full(group[t] \cup {s})
  BY <1>1, <1>2 DEF AddSwap, BuildMultiHopSwap, PlacesOK, Grouped, Reported
<1>3. CASE ~Full(group[t] \cup {s})
  BY <1>1, <1>3 DEF AddSwap, PlacesOK, Grouped, Reported
<1> QED
  BY <1>2, <1>3

LEMMA FinalizePlaces ==
  ASSUME PlacesOK, NEW s \in Swap, FinalizeTransaction(s)
  PROVE  /\ group' \in [Tx -> SUBSET Swap] /\ built' \subseteq SUBSET Swap
         /\ built \subseteq built'
         /\ (Grouped \cup Reported)' \subseteq Grouped \cup Reported
<1>1. TxOf[s] \in Tx
  BY SwapAssumption
<1>2. CASE group[TxOf[s]] = {}
  BY <1>2 DEF FinalizeTransaction, PlacesOK, Grouped, Reported
<1>3. CASE group[TxOf[s]] # {}
  BY <1>1, <1>3 DEF FinalizeTransaction, BuildMultiHopSwap, PlacesOK, Grouped, Reported
<1> QED
  BY <1>2, <1>3

-----------------------------------------------------------------------------
(* The steps *)

LEMMA ReceiveStep == ASSUME FInv, NEW s \in Swap, Receive(s) PROVE FInv'
<1>1. CASE TakeIfFree(s)
  <2>1. /\ EventOf(s) \notin RunningEvents /\ quiet[EventOf(s)] = 0
        /\ begun' = begun \cup {s} /\ joined' = joined /\ quiet' = quiet
        /\ group' = group /\ built' = built /\ abandoned' = abandoned
        /\ waiting' = waiting /\ sent' = sent
    BY <1>1 DEF TakeIfFree, Receive, Once!Begin, gvars, outbox
  <2>2. PlacesOK'
    BY <2>1 DEF FInv, PlacesOK
  <2>3. Protected'
    BY <2>1 DEF FInv, Protected, Grouped, Reported
  <2>4. Copies' = Copies \cup {s}
    BY <2>1 DEF Copies, Grouped, Reported
  <2>5. ASSUME NEW r \in Copies, EventOf(r) = EventOf(s)
        PROVE  EventOf(r) \in abandoned
    <3>1. r \notin begun \cup joined
      BY <2>1, <2>5 DEF RunningEvents
    <3>2. r \in Grouped \cup Reported
      BY <3>1 DEF Copies
    <3> QED
      BY <2>1, <2>5, <3>1, <3>2 DEF FInv, Protected
  <2>6. OneCopyEach'
    BY <2>1, <2>4, <2>5 DEF FInv, OneCopyEach
  <2> QED
    BY <2>2, <2>3, <2>6 DEF FInv
<1>2. CASE DropIfTaken(s)
  <2>1. PlacesOK' /\ Copies' = Copies /\ (Grouped \cup Reported)' = Grouped \cup Reported
    BY <1>2 DEF DropIfTaken, Receive, FInv, PlacesOK, Copies, Grouped, Reported,
                gvars, outbox
  <2> QED
    BY <1>2, <2>1, NothingNew DEF DropIfTaken, Receive
<1> QED
  BY <1>1, <1>2 DEF Receive

LEMMA JoinStep == ASSUME FInv, NEW s \in Swap, Join(s) PROVE FInv'
<1>1. /\ s \in begun /\ AddSwap(s) /\ PlacesOK
      /\ begun' = begun \ {s} /\ joined' = joined \cup {s}
      /\ quiet' = quiet /\ abandoned' = abandoned /\ sent' = sent
      /\ waiting' = waiting \cup (built' \ built)
  BY DEF Join, FInv, Queues
<1>2. PlacesOK'
  BY <1>1, AddSwapPlaces DEF PlacesOK
<1>3. Copies' \subseteq Copies
  BY <1>1, AddSwapPlaces DEF Copies
<1>4. OneCopyEach'
  BY <1>1, <1>3 DEF FInv, OneCopyEach
<1>5. Protected'
  BY <1>1, AddSwapPlaces DEF FInv, Protected
<1> QED
  BY <1>2, <1>4, <1>5 DEF FInv

LEMMA RecordStep == ASSUME FInv, NEW s \in Swap, Record(s) PROVE FInv'
<1>1. /\ s \in joined /\ joined' = joined \ {s} /\ begun' = begun
      /\ quiet' = [quiet EXCEPT ![EventOf(s)] = 1]
      /\ group' = group /\ built' = built /\ abandoned' = abandoned
      /\ waiting' = waiting /\ sent' = sent
  BY DEF Record, Once!Finish, gvars, outbox
<1>2. PlacesOK'
  BY <1>1, EventType DEF FInv, PlacesOK
<1>3. Copies' \subseteq Copies
  BY <1>1 DEF Copies, Grouped, Reported
<1>4. OneCopyEach'
  BY <1>1, <1>3 DEF FInv, OneCopyEach
<1>5. ASSUME NEW r \in Grouped \cup Reported
      PROVE  r \in joined' \/ quiet'[EventOf(r)] = 1 \/ EventOf(r) \in abandoned
  <2>1. r \in Swap
    BY DEF FInv, PlacesOK, Grouped, Reported
  <2>2. CASE EventOf(r) = EventOf(s)
    BY <1>1, <2>1, <2>2, EventType DEF FInv, PlacesOK
  <2>3. CASE EventOf(r) # EventOf(s)
    BY <1>1, <2>1, <2>3, EventType DEF FInv, PlacesOK, Protected
  <2> QED
    BY <2>2, <2>3
<1>6. Protected'
  BY <1>1, <1>5 DEF Protected, Grouped, Reported
<1> QED
  BY <1>2, <1>4, <1>6 DEF FInv

LEMMA CallbackStep == ASSUME FInv, NEW s \in Swap, CallbackFinalizes(s) PROVE FInv'
<1>1. /\ FinalizeTransaction(s) /\ PlacesOK
      /\ begun' = begun /\ joined' = joined
      /\ quiet' = quiet /\ abandoned' = abandoned /\ sent' = sent
      /\ waiting' = waiting \cup (built' \ built)
  BY DEF CallbackFinalizes, FInv, Queues, claims
<1>2. PlacesOK'
  BY <1>1, FinalizePlaces DEF PlacesOK
<1>3. Copies' \subseteq Copies
  BY <1>1, FinalizePlaces DEF Copies
<1> QED
  BY <1>1, <1>2, <1>3, FinalizePlaces, NothingNew

LEMMA CrashStep == ASSUME FInv, NEW i \in Instance, Crash(i) PROVE FInv'
<1> DEFINE mine == {s \in begun \cup joined : InstanceOf(s) = i}
<1>1. /\ GrouperGone(i)
      /\ begun' = begun \ mine /\ joined' = joined \ mine
      /\ quiet' = quiet /\ built' = built
      /\ abandoned' = abandoned \cup {EventOf(s) : s \in mine}
      /\ waiting' \subseteq waiting /\ sent' = sent
  BY DEF Crash, Once!Abandon, GrouperGone
<1>2. group' = [t \in Tx |-> IF InstanceOf(t) = i THEN {} ELSE group[t]]
  BY <1>1 DEF GrouperGone
<1>3. PlacesOK'
  BY <1>1, <1>2 DEF FInv, PlacesOK
<1>4. Grouped' \subseteq Grouped /\ Reported' = Reported
  BY <1>1, <1>2 DEF Grouped, Reported
<1>5. Copies' \subseteq Copies
  BY <1>1, <1>4 DEF Copies
<1>6. \A s \in joined : s \in joined' \/ EventOf(s) \in abandoned'
  BY <1>1
<1> QED
  BY <1>1, <1>3, <1>4, <1>5, <1>6, NothingNew

LEMMA CleanupStep == ASSUME FInv, Cleanup, GrouperAlone PROVE FInv'
<1>1. group' = [t \in Tx |-> IF t \in Stale THEN {} ELSE group[t]] /\ built' = built
  BY DEF Cleanup
<1>2. PlacesOK'
  BY <1>1 DEF FInv, PlacesOK, GrouperAlone, claims, outbox
<1>3. Grouped' \subseteq Grouped /\ Reported' = Reported
  BY <1>1 DEF Grouped, Reported
<1> QED
  BY <1>2, <1>3, NothingNew DEF GrouperAlone, claims, Copies

(* Steps that leave every copy where it is. *)
LEMMA StillStep ==
  ASSUME FInv, UNCHANGED <<group, built, begun, joined, quiet, abandoned>>,
         waiting' \subseteq waiting, sent' \subseteq sent \cup waiting
  PROVE  FInv'
<1>1. PlacesOK'
  BY DEF FInv, PlacesOK
<1>2. Copies' = Copies /\ (Grouped \cup Reported)' = Grouped \cup Reported
  BY DEF Copies, Grouped, Reported
<1> QED
  BY <1>1, <1>2, NothingNew

LEMMA FInvStep == FInv /\ [FleetNext]_fleetvars => FInv'
<1> SUFFICES ASSUME FInv, [FleetNext]_fleetvars PROVE FInv'
  OBVIOUS
<1>1. ASSUME NEW s \in Swap, TimerFires(s), GrouperAlone PROVE FInv'
  BY <1>1, StillStep DEF TimerFires, GrouperAlone, claims, outbox
<1>2. ASSUME NEW b \in waiting, Send(b) PROVE FInv'
  BY <1>2, StillStep DEF Send, gvars, claims
<1>3. ASSUME NEW i \in Instance, Restart(i) PROVE FInv'
  BY <1>3, StillStep DEF Restart, gvars, claims, outbox
<1>4. ASSUME NEW e \in SwapEvent, LockExpires(e) PROVE FInv'
  BY <1>4, StillStep DEF LockExpires, gvars, outbox
<1>5. ASSUME GrouperTick, GrouperAlone PROVE FInv'
  BY <1>5, StillStep DEF GrouperTick, GrouperAlone, claims, outbox
<1>6. CASE UNCHANGED fleetvars
  BY <1>6, StillStep DEF fleetvars, gvars, claims, outbox
<1> QED
  BY <1>1, <1>2, <1>3, <1>4, <1>5, <1>6, ReceiveStep, JoinStep, RecordStep,
     CallbackStep, CrashStep, CleanupStep DEF FleetNext

LEMMA ReportsOne == FInv => ReportedOnce
<1> SUFFICES ASSUME FInv, NEW e \in SwapEvent, e \notin abandoned
             PROVE  Cardinality(Reports(e)) <= 1
  BY DEF ReportedOnce
<1>1. Reports(e) \subseteq Copies
  BY DEF FInv, PlacesOK, Reports, Copies, Reported
<1>2. \A r, s \in Reports(e) : r = s
  BY <1>1 DEF FInv, OneCopyEach, Reports
<1>3. CASE Reports(e) = {}
  BY <1>3, FS_EmptySet
<1>4. CASE Reports(e) # {}
  <2>1. PICK s \in Reports(e) : TRUE
    BY <1>4
  <2>2. Reports(e) = {s}
    BY <1>2, <2>1
  <2> QED
    BY <2>2, FS_Singleton
<1> QED
  BY <1>3, <1>4

(* "Only one Telegram notification is sent", end to end: whatever instances*)
(* the copies of a swap arrive at, whatever group each would join, and     *)
(* however workers, timers, Cleanup, crashes and restarts interleave, a    *)
(* swap is in at most one message, unless its instance crashed between the *)
(* grouper and the record.                                                 *)
THEOREM FleetReportsOnce == FleetSpec => []ReportedOnce
  BY FInvInit, FInvStep, ReportsOne, PTL DEF FleetSpec

-----------------------------------------------------------------------------
(* Types.  That a crash frees whatever the instance held, and only that,   *)
(* needs two facts more: groups hold the swaps of their own hash, hence of *)
(* one instance, and no two copies of a swap are in work at a time.        *)

OwnGroups == \A t \in Tx : group[t] \subseteq {s \in Swap : TxOf[s] = t}

WorkedOnce == \A r, s \in begun \cup joined : EventOf(r) = EventOf(s) => r = s

TInv == FleetTypeOK /\ OwnGroups /\ WorkedOnce

LEMMA TInvInit == FleetInit => TInv
<1> SUFFICES ASSUME FleetInit PROVE TInv
  OBVIOUS
<1>1. late \in BOOLEAN
  BY Zenon DEF FleetInit, GrouperInit
<1>2. GrouperTypeOK
  BY <1>1, LimitAssumption DEF FleetInit, GrouperInit, GrouperTypeOK, TimerState
<1>3. Grouped = {} /\ RunningEvents = {}
  BY DEF FleetInit, GrouperInit, Grouped, RunningEvents
<1>4. up \in [Instance -> BOOLEAN] /\ \A i \in Instance : up[i]
  BY DEF FleetInit
<1>5. /\ came \subseteq Swap /\ begun \subseteq came /\ joined \subseteq came
      /\ begun \cap joined = {} /\ quiet \in [SwapEvent -> 0..1]
      /\ orphan \subseteq SwapEvent \ RunningEvents
      /\ waiting \subseteq built /\ sent \subseteq built
      /\ crashes \in 0..MaxCrashes
      /\ abandoned \subseteq SwapEvent /\ wasted \subseteq Swap
  BY FleetAssumption DEF FleetInit
<1>6. FleetTypeOK
  BY <1>2, <1>4, <1>5 DEF FleetTypeOK
<1>7. OwnGroups /\ WorkedOnce
  BY DEF FleetInit, GrouperInit, OwnGroups, WorkedOnce
<1> QED
  BY <1>6, <1>7 DEF TInv

(* The grouper's own steps. *)
LEMMA GrouperTyped ==
  ASSUME GrouperTypeOK, OwnGroups, GrouperNext PROVE GrouperTypeOK' /\ OwnGroups'
<1>1. GrouperTypeOK'
  BY GrouperTypeStep
<1>2. group \in [Tx -> SUBSET Swap]
  BY DEF GrouperTypeOK
<1>3. ASSUME NEW s \in Swap, AddSwap(s) PROVE OwnGroups'
  <2> DEFINE t == TxOf[s]
  <2>1. \/ group' = [group EXCEPT ![t] = group[t] \cup {s}]
        \/ group' = [group EXCEPT ![t] = {}]
    BY <1>3 DEF AddSwap, BuildMultiHopSwap
  <2> QED
    BY <1>2, <2>1, SwapAssumption DEF OwnGroups
<1>4. ASSUME NEW s \in Swap, FinalizeTransaction(s) PROVE OwnGroups'
  <2>1. group' = group \/ group' = [group EXCEPT ![TxOf[s]] = {}]
    BY <1>4 DEF FinalizeTransaction, BuildMultiHopSwap
  <2> QED
    BY <1>2, <2>1 DEF OwnGroups
<1>5. ASSUME Cleanup PROVE OwnGroups'
  <2>1. \A t \in Tx : group'[t] \in {{}, group[t]}
    BY <1>5 DEF Cleanup
  <2> QED
    BY <2>1 DEF OwnGroups
<1>6. ASSUME GrouperTick \/ \E s \in Swap : TimerFires(s) PROVE OwnGroups'
  <2>1. group' = group
    BY <1>6 DEF GrouperTick, TimerFires
  <2> QED
    BY <2>1 DEF OwnGroups
<1> QED
  BY <1>1, <1>3, <1>4, <1>5, <1>6 DEF GrouperNext

LEMMA TInvStep == TInv /\ [FleetNext]_fleetvars => TInv'
<1> SUFFICES ASSUME TInv, [FleetNext]_fleetvars PROVE TInv'
  OBVIOUS
<1> USE DEF TInv
<1>1. ASSUME NEW s \in Swap, Receive(s) PROVE TInv'
  <2>1. /\ up[InstanceOf(s)] /\ s \notin came /\ came' = came \cup {s}
        /\ UNCHANGED <<gvars, up, orphan, waiting, sent, crashes, abandoned, wasted>>
    BY <1>1 DEF Receive, outbox
  <2>2. GrouperTypeOK' /\ OwnGroups' /\ Grouped' = Grouped /\ built' = built
    BY <2>1 DEF FleetTypeOK, GrouperTypeOK, gvars, OwnGroups, Grouped
  <2>3. CASE TakeIfFree(s)
    <3>1. /\ EventOf(s) \notin orphan \cup RunningEvents
          /\ begun' = begun \cup {s} /\ joined' = joined /\ quiet' = quiet
      BY <2>3 DEF TakeIfFree, Once!Begin
    <3>2. RunningEvents' = RunningEvents \cup {EventOf(s)}
      BY <3>1 DEF RunningEvents
    <3>3. FleetTypeOK'
      BY <2>1, <2>2, <3>1, <3>2, EventType DEF FleetTypeOK
    <3>4. WorkedOnce'
      BY <3>1 DEF WorkedOnce, RunningEvents
    <3> QED
      BY <2>2, <3>3, <3>4
  <2>4. CASE DropIfTaken(s)
    <3>1. begun' = begun /\ joined' = joined /\ quiet' = quiet
          /\ RunningEvents' = RunningEvents
      BY <2>4 DEF DropIfTaken, RunningEvents
    <3> QED
      BY <2>1, <2>2, <3>1 DEF FleetTypeOK, WorkedOnce
  <2> QED
    BY <1>1, <2>3, <2>4 DEF Receive
<1>2. ASSUME NEW s \in Swap, Join(s) PROVE TInv'
  <2>1. /\ s \in begun /\ AddSwap(s)
        /\ begun' = begun \ {s} /\ joined' = joined \cup {s}
        /\ waiting' = waiting \cup (built' \ built) /\ sent' = sent
        /\ UNCHANGED <<up, came, quiet, orphan, crashes, abandoned, wasted>>
    BY <1>2 DEF Join, Queues
  <2>2. GrouperTypeOK' /\ OwnGroups'
    BY <2>1, GrouperTyped DEF FleetTypeOK, GrouperNext
  <2>3. PlacesOK
    BY DEF FleetTypeOK, GrouperTypeOK, PlacesOK
  <2>4. built \subseteq built'
    BY <2>1, <2>3, AddSwapPlaces
  <2>5. RunningEvents' = RunningEvents
    BY <2>1 DEF RunningEvents
  <2>6. Grouped' \subseteq Grouped \cup {s}
    BY <2>1, SwapAssumption DEF AddSwap, BuildMultiHopSwap, Grouped, FleetTypeOK, GrouperTypeOK
  <2>7. FleetTypeOK'
    BY <2>1, <2>2, <2>4, <2>5, <2>6 DEF FleetTypeOK
  <2>8. WorkedOnce'
    BY <2>1 DEF WorkedOnce
  <2> QED
    BY <2>2, <2>7, <2>8
<1>3. ASSUME NEW s \in Swap, Record(s) PROVE TInv'
  <2>1. /\ s \in joined /\ joined' = joined \ {s} /\ begun' = begun
        /\ quiet' = [quiet EXCEPT ![EventOf(s)] = 1]
        /\ UNCHANGED <<gvars, up, came, orphan, waiting, sent, crashes, abandoned, wasted>>
    BY <1>3 DEF Record, Once!Finish, outbox
  <2>2. GrouperTypeOK' /\ OwnGroups' /\ Grouped' = Grouped /\ built' = built
    BY <2>1 DEF FleetTypeOK, GrouperTypeOK, gvars, OwnGroups, Grouped
  <2>3. RunningEvents' \subseteq RunningEvents
    BY <2>1 DEF RunningEvents
  <2>4. quiet' \in [SwapEvent -> 0..1]
    BY <2>1, EventType DEF FleetTypeOK
  <2>5. FleetTypeOK'
    BY <2>1, <2>2, <2>3, <2>4 DEF FleetTypeOK
  <2>6. WorkedOnce'
    BY <2>1 DEF WorkedOnce
  <2> QED
    BY <2>2, <2>5, <2>6
<1>4. ASSUME NEW s \in Swap, CallbackFinalizes(s) PROVE TInv'
  <2>1. /\ FinalizeTransaction(s)
        /\ waiting' = waiting \cup (built' \ built) /\ sent' = sent
        /\ UNCHANGED <<up, came, begun, joined, quiet, orphan, crashes, abandoned, wasted>>
    BY <1>4 DEF CallbackFinalizes, Queues, claims
  <2>2. GrouperTypeOK' /\ OwnGroups'
    BY <2>1, GrouperTyped DEF FleetTypeOK, GrouperNext
  <2>3. PlacesOK
    BY DEF FleetTypeOK, GrouperTypeOK, PlacesOK
  <2>4. built \subseteq built'
    BY <2>1, <2>3, FinalizePlaces
  <2>5. Grouped' \subseteq Grouped
    BY <2>1, SwapAssumption DEF FinalizeTransaction, BuildMultiHopSwap, Grouped,
                                FleetTypeOK, GrouperTypeOK
  <2>6. FleetTypeOK' /\ WorkedOnce'
    BY <2>1, <2>2, <2>4, <2>5 DEF FleetTypeOK, RunningEvents, WorkedOnce
  <2> QED
    BY <2>2, <2>6
<1>5. ASSUME (\E s \in Swap : TimerFires(s)) \/ Cleanup \/ GrouperTick, GrouperAlone
      PROVE  TInv'
  <2>1. UNCHANGED <<up, came, begun, joined, quiet, orphan, waiting, sent, crashes,
                    abandoned, wasted>>
    BY <1>5 DEF GrouperAlone, claims, outbox
  <2>2. GrouperTypeOK' /\ OwnGroups'
    BY <1>5, GrouperTyped DEF FleetTypeOK, GrouperNext
  <2>3. built' = built /\ Grouped' \subseteq Grouped
    BY <1>5 DEF TimerFires, Cleanup, GrouperTick, Grouped, FleetTypeOK, GrouperTypeOK
  <2>4. FleetTypeOK' /\ WorkedOnce'
    BY <2>1, <2>2, <2>3 DEF FleetTypeOK, RunningEvents, WorkedOnce
  <2> QED
    BY <2>2, <2>4
<1>6. ASSUME NEW b \in waiting, Send(b) PROVE TInv'
  BY <1>6 DEF Send, gvars, claims, FleetTypeOK, GrouperTypeOK, OwnGroups, WorkedOnce,
              RunningEvents, Grouped
<1>7. ASSUME NEW i \in Instance, Crash(i) PROVE TInv'
  <2> DEFINE mine == {s \in begun \cup joined : InstanceOf(s) = i}
  <2>1. /\ crashes < MaxCrashes /\ crashes' = crashes + 1
        /\ up' = [up EXCEPT ![i] = FALSE]
        /\ begun' = begun \ mine /\ joined' = joined \ mine
        /\ orphan' = orphan \cup {EventOf(s) : s \in mine}
        /\ abandoned' = abandoned \cup {EventOf(s) : s \in mine}
        /\ waiting' \subseteq waiting
        /\ wasted' \subseteq wasted \cup Grouped \cup (UNION waiting)
        /\ came' = came /\ sent' = sent /\ built' = built /\ quiet' = quiet
    BY <1>7 DEF Crash, GrouperGone, Once!Abandon
  <2> DEFINE grouped == {s \in Grouped : InstanceOf(s) = i}
  <2>2. /\ group' = [t \in Tx |-> IF InstanceOf(t) = i THEN {} ELSE group[t]]
        /\ GrouperTypeOK'
    <3>1. /\ group' = [t \in Tx |-> IF InstanceOf(t) = i THEN {} ELSE group[t]]
          /\ pendingTimer' = [t \in Tx |-> IF InstanceOf(t) = i THEN NoSwap ELSE pendingTimer[t]]
          /\ groupAge' = [t \in Tx |-> IF InstanceOf(t) = i THEN 0 ELSE groupAge[t]]
          /\ timer' = [s \in Swap |->
                         IF s \in grouped THEN "unset"
                         ELSE IF InstanceOf(s) = i /\ timer[s] # "unset" THEN "off"
                         ELSE timer[s]]
          /\ UNCHANGED <<left, built, removed, late>>
      BY <1>7 DEF Crash, GrouperGone
    <3>2. timer' \in [Swap -> TimerState]
      BY <3>1 DEF FleetTypeOK, GrouperTypeOK, TimerState
    <3>3. pendingTimer' \in [Tx -> Swap \cup {NoSwap}] /\ group' \in [Tx -> SUBSET Swap]
      BY <3>1 DEF FleetTypeOK, GrouperTypeOK
    <3>4. groupAge' \in [Tx -> 0..(MaxAge + 1)]
      BY <3>1, LimitAssumption DEF FleetTypeOK, GrouperTypeOK
    <3> QED
      BY <3>1, <3>2, <3>3, <3>4 DEF FleetTypeOK, GrouperTypeOK
  <2>3. OwnGroups'
    BY <2>2 DEF OwnGroups
  <2>4. WorkedOnce'
    BY <2>1 DEF WorkedOnce
  <2>5. orphan' \subseteq SwapEvent \ RunningEvents'
    <3>1. \A s \in mine : EventOf(s) \in SwapEvent
      BY EventType DEF FleetTypeOK
    <3>2. \A s \in mine : EventOf(s) \notin RunningEvents'
      BY <2>1 DEF RunningEvents, WorkedOnce
    <3>3. RunningEvents' \subseteq RunningEvents
      BY <2>1 DEF RunningEvents
    <3> QED
      BY <2>1, <3>1, <3>2, <3>3 DEF FleetTypeOK
  <2>6. \A t \in Tx : \A s \in group'[t] : InstanceOf(s) # i /\ s \in Grouped
    BY <2>2, FleetAssumption DEF OwnGroups, Grouped
  <2>7. \A s \in (begun \cup joined \cup Grouped)' :
          InstanceOf(s) # i /\ s \in begun \cup joined \cup Grouped
    BY <2>1, <2>6 DEF Grouped
  <2>8. up' \in [Instance -> BOOLEAN] /\ \A j \in Instance : j # i => up'[j] = up[j]
    BY <2>1 DEF FleetTypeOK
  <2>9. Grouped \cup (UNION waiting) \subseteq Swap
    BY DEF FleetTypeOK, GrouperTypeOK, Grouped
  <2>10. /\ crashes' \in 0..MaxCrashes
         /\ abandoned' \subseteq SwapEvent
    BY <2>1, FleetAssumption, EventType DEF FleetTypeOK
  <2>11. FleetTypeOK'
    BY <2>1, <2>2, <2>5, <2>7, <2>8, <2>9, <2>10 DEF FleetTypeOK
  <2> QED
    BY <2>3, <2>4, <2>11
<1>8. ASSUME NEW i \in Instance, Restart(i) PROVE TInv'
  <2>1. up' \in [Instance -> BOOLEAN] /\ \A j \in Instance : up[j] => up'[j]
    BY <1>8 DEF Restart, FleetTypeOK
  <2> QED
    BY <1>8, <2>1 DEF Restart, gvars, claims, outbox, FleetTypeOK, GrouperTypeOK, OwnGroups,
                      WorkedOnce, RunningEvents, Grouped
<1>9. ASSUME NEW e \in SwapEvent, LockExpires(e) PROVE TInv'
  BY <1>9 DEF LockExpires, gvars, outbox, FleetTypeOK, GrouperTypeOK, OwnGroups,
              WorkedOnce, RunningEvents, Grouped
<1>10. CASE UNCHANGED fleetvars
  BY <1>10 DEF fleetvars, gvars, claims, outbox, FleetTypeOK, GrouperTypeOK, OwnGroups,
               WorkedOnce, RunningEvents, Grouped
<1> QED
  BY <1>1, <1>2, <1>3, <1>4, <1>5, <1>6, <1>7, <1>8, <1>9, <1>10 DEF FleetNext

(* A crash leaves locks only behind runs it ended, and nothing of its own  *)
(* in a group: the state of the fleet keeps its types.                     *)
THEOREM FleetTyped == FleetSpec => []FleetTypeOK
  BY TInvInit, TInvStep, PTL DEF FleetSpec, TInv

-----------------------------------------------------------------------------
(* Nothing is forgotten.  A copy whose event is locked or recorded is      *)
(* dropped for good, so the lock and the record must stand for a copy that *)
(* is still somewhere: the safety that ReceivedIsReported rests on.        *)

(* Where a copy can be after its worker has grouped it. *)
Kept == Grouped \cup (UNION waiting) \cup (UNION sent) \cup removed \cup wasted

KeptEvents == {EventOf(s) : s \in Kept}

(* Every swap that came to some instance is with a worker, in a group, on  *)
(* its way to a message or in one, removed by Cleanup, or a crash had it.  *)
NothingForgotten ==
  \A s \in came : EventOf(s) \in RunningEvents \cup KeptEvents \cup abandoned

(* What the lock and the record stand for, and what becomes of a group     *)
(* that is complete: a set of swaps that was built before is not queued    *)
(* again.                                                                  *)
KeptInv ==
  /\ \A b \in built : b \in waiting \cup sent \/ b \subseteq wasted
  /\ joined \subseteq Kept
  /\ \A e \in SwapEvent : quiet[e] > 0 => e \in KeptEvents
  /\ orphan \subseteq abandoned
  /\ NothingForgotten

LEMMA KeptInvInit == FleetInit => KeptInv
BY DEF FleetInit, GrouperInit, KeptInv, NothingForgotten, Kept

(* Only the swap that joins comes to the copies that are kept, and a copy  *)
(* that is kept stays so, through timers, Cleanup, sending and crashes.    *)
LEMMA BuildKeeps ==
  ASSUME PlacesOK, KeptInv, NEW t \in Tx, NEW swaps, group[t] \subseteq swaps,
         BuildMultiHopSwap(t, swaps), removed' = removed, wasted' = wasted, Queues
  PROVE  /\ Kept \subseteq Kept' /\ swaps \subseteq Kept'
         /\ \A b \in built' : b \in waiting' \cup sent' \/ b \subseteq wasted'
<1>1. /\ built' = built \cup {swaps} /\ group' = [group EXCEPT ![t] = {}]
      /\ waiting' = waiting \cup (built' \ built) /\ sent' = sent
  BY DEF BuildMultiHopSwap, Queues
<1>2. \A b \in built' : b \in waiting' \cup sent' \/ b \subseteq wasted'
  BY <1>1 DEF KeptInv
<1>3. swaps \subseteq (UNION waiting') \cup (UNION sent') \cup wasted'
  BY <1>1, <1>2
<1>4. ASSUME NEW s \in Grouped PROVE s \in Kept'
  <2>1. PICK u \in Tx : s \in group[u]
    BY DEF Grouped
  <2>2. CASE u = t
    BY <1>3, <2>1, <2>2 DEF Kept
  <2>3. CASE u # t
    <3>1. group'[u] = group[u]
      BY <1>1, <2>3 DEF PlacesOK
    <3> QED
      BY <2>1, <3>1 DEF Kept, Grouped
  <2> QED
    BY <2>2, <2>3
<1>5. (UNION waiting) \subseteq (UNION waiting') /\ (UNION sent) \subseteq (UNION sent')
  BY <1>1
<1> QED
  BY <1>2, <1>3, <1>4, <1>5 DEF Kept

(* A step after which all copies are still kept forgets none, if it marks  *)
(* and drops only what is kept, running or given up.                       *)
LEMMA KeptStep ==
  ASSUME KeptInv, Kept \subseteq Kept', joined' \subseteq Kept',
         \A b \in built' : b \in waiting' \cup sent' \/ b \subseteq wasted',
         \A e \in SwapEvent : quiet'[e] > 0 => quiet[e] > 0 \/ e \in KeptEvents,
         orphan' \subseteq abandoned', abandoned \subseteq abandoned',
         RunningEvents \subseteq RunningEvents' \cup KeptEvents' \cup abandoned',
         \A s \in came' : s \in came \/
           EventOf(s) \in RunningEvents \cup RunningEvents' \cup abandoned \cup KeptEvents
  PROVE  KeptInv'
<1>1. KeptEvents \subseteq KeptEvents'
  BY DEF KeptEvents
<1>2. NothingForgotten'
  BY <1>1 DEF KeptInv, NothingForgotten
<1>3. \A e \in SwapEvent : quiet'[e] > 0 => e \in KeptEvents'
  BY <1>1 DEF KeptInv
<1> QED
  BY <1>2, <1>3 DEF KeptInv

(* Steps that only move what is kept.                                      *)
LEMMA KeptStill ==
  ASSUME KeptInv, Kept \subseteq Kept',
         \A b \in built' : b \in waiting' \cup sent' \/ b \subseteq wasted',
         UNCHANGED <<came, begun, joined, quiet, abandoned>>, orphan' \subseteq orphan
  PROVE  KeptInv'
<1>1. RunningEvents' = RunningEvents
  BY DEF RunningEvents
<1> QED
  BY <1>1, KeptStep DEF KeptInv

LEMMA ReceiveKept == ASSUME KeptInv, NEW s \in Swap, Receive(s) PROVE KeptInv'
<1>1. /\ came' = came \cup {s} /\ orphan' = orphan /\ abandoned' = abandoned
      /\ joined' = joined /\ quiet' = quiet
      /\ built' = built /\ waiting' = waiting /\ sent' = sent /\ wasted' = wasted
      /\ Kept' = Kept
  BY DEF Receive, TakeIfFree, DropIfTaken, Once!Begin, gvars, outbox, Kept, Grouped
<1>2. /\ RunningEvents \subseteq RunningEvents'
      /\ EventOf(s) \in RunningEvents \cup RunningEvents' \cup abandoned \cup KeptEvents
  <2>1. CASE TakeIfFree(s)
    BY <2>1 DEF TakeIfFree, RunningEvents
  <2>2. CASE DropIfTaken(s)
    <3>1. RunningEvents' = RunningEvents
      BY <2>2 DEF DropIfTaken, RunningEvents
    <3>2. EventOf(s) \in RunningEvents \/ EventOf(s) \in orphan \/ quiet[EventOf(s)] > 0
      BY <2>2 DEF DropIfTaken, Locked
    <3> QED
      BY <3>1, <3>2, EventType DEF KeptInv
  <2> QED
    BY <2>1, <2>2 DEF Receive
<1> QED
  BY <1>1, <1>2, KeptStep DEF KeptInv

LEMMA JoinKept == ASSUME PlacesOK, KeptInv, NEW s \in Swap, Join(s) PROVE KeptInv'
<1>1. /\ s \in begun /\ begun' = begun \ {s} /\ joined' = joined \cup {s}
      /\ AddSwap(s) /\ Queues /\ removed' = removed
      /\ UNCHANGED <<came, quiet, orphan, abandoned, wasted>>
  BY DEF Join, AddSwap
<1> DEFINE t == TxOf[s]
           swaps == group[t] \cup {s}
<1>2. t \in Tx
  BY SwapAssumption
<1>3. /\ Kept \subseteq Kept' /\ s \in Kept'
      /\ \A b \in built' : b \in waiting' \cup sent' \/ b \subseteq wasted'
  <2>1. CASE Full(swaps)
    <3>1. BuildMultiHopSwap(t, swaps)
      BY <1>1, <2>1 DEF AddSwap
    <3>2. group[t] \subseteq swaps /\ s \in swaps
      OBVIOUS
    <3> HIDE DEF t, swaps
    <3> QED
      BY <1>1, <1>2, <3>1, <3>2, BuildKeeps
  <2>2. CASE ~Full(swaps)
    <3>1. group' = [group EXCEPT ![t] = swaps] /\ built' = built
      BY <1>1, <2>2 DEF AddSwap
    <3>2. waiting' = waiting /\ sent' = sent
      BY <1>1, <3>1 DEF Queues
    <3>3. Grouped \subseteq Grouped' /\ s \in Grouped'
      BY <1>2, <3>1 DEF PlacesOK, Grouped
    <3> QED
      BY <1>1, <3>1, <3>2, <3>3 DEF Kept, KeptInv
  <2> QED
    BY <2>1, <2>2
<1>4. RunningEvents' = RunningEvents
  BY <1>1 DEF RunningEvents
<1>5. joined' \subseteq Kept'
  BY <1>1, <1>3 DEF KeptInv
<1> HIDE DEF t, swaps
<1> QED
  BY <1>1, <1>3, <1>4, <1>5, KeptStep DEF KeptInv

LEMMA RecordKept == ASSUME PlacesOK, KeptInv, NEW s \in Swap, Record(s) PROVE KeptInv'
<1>1. /\ s \in joined /\ joined' = joined \ {s} /\ begun' = begun
      /\ quiet' = [quiet EXCEPT ![EventOf(s)] = 1]
      /\ UNCHANGED <<gvars, came, orphan, waiting, sent, abandoned, wasted>>
  BY DEF Record, Once!Finish, outbox
<1>2. Kept' = Kept /\ built' = built
  BY <1>1 DEF Kept, Grouped, gvars
<1>3. EventOf(s) \in KeptEvents
  BY <1>1 DEF KeptInv, KeptEvents
<1>4. \A e \in SwapEvent : quiet'[e] > 0 => quiet[e] > 0 \/ e \in KeptEvents
  BY <1>1, <1>3 DEF PlacesOK
<1>5. RunningEvents \subseteq RunningEvents' \cup KeptEvents'
  BY <1>1, <1>2, <1>3 DEF RunningEvents, KeptEvents
<1> QED
  BY <1>1, <1>2, <1>4, <1>5, KeptStep DEF KeptInv

LEMMA CallbackKept ==
  ASSUME PlacesOK, KeptInv, NEW s \in Swap, CallbackFinalizes(s) PROVE KeptInv'
<1> DEFINE t == TxOf[s]
<1>1. /\ FinalizeTransaction(s) /\ Queues /\ removed' = removed /\ wasted' = wasted
      /\ UNCHANGED <<came, begun, joined, quiet, orphan, abandoned>>
  BY DEF CallbackFinalizes, FinalizeTransaction, claims
<1>2. t \in Tx
  BY SwapAssumption
<1>3. /\ Kept \subseteq Kept'
      /\ \A b \in built' : b \in waiting' \cup sent' \/ b \subseteq wasted'
  <2>1. CASE group[t] = {}
    <3>1. group' = group /\ built' = built
      BY <1>1, <2>1 DEF FinalizeTransaction
    <3> QED
      BY <1>1, <3>1 DEF Queues, Kept, Grouped, KeptInv
  <2>2. CASE group[t] # {}
    <3>1. BuildMultiHopSwap(t, group[t])
      BY <1>1, <2>2 DEF FinalizeTransaction
    <3> HIDE DEF t
    <3> QED
      BY <1>1, <1>2, <3>1, BuildKeeps
  <2> QED
    BY <2>1, <2>2
<1> QED
  BY <1>1, <1>3, KeptStill

LEMMA CleanupKept == ASSUME PlacesOK, KeptInv, Cleanup, GrouperAlone PROVE KeptInv'
<1>1. /\ removed' = removed \cup (UNION {group[t] : t \in Stale})
      /\ group' = [t \in Tx |-> IF t \in Stale THEN {} ELSE group[t]]
      /\ built' = built
      /\ UNCHANGED <<came, begun, joined, quiet, orphan, waiting, sent, abandoned, wasted>>
  BY DEF Cleanup, GrouperAlone, claims, outbox
<1>2. Grouped \subseteq Grouped' \cup removed'
  BY <1>1 DEF Grouped
<1> QED
  BY <1>1, <1>2, KeptStill DEF Kept, KeptInv

LEMMA CrashKept == ASSUME TInv, KeptInv, NEW i \in Instance, Crash(i) PROVE KeptInv'
<1> DEFINE mine == {s \in begun \cup joined : InstanceOf(s) = i}
<1>1. /\ begun' = begun \ mine /\ joined' = joined \ mine
      /\ orphan' = orphan \cup {EventOf(s) : s \in mine}
      /\ abandoned' = abandoned \cup {EventOf(s) : s \in mine}
      /\ waiting' = {b \in waiting : ~Of(i, b)}
      /\ wasted' = wasted \cup {s \in Grouped : InstanceOf(s) = i}
                          \cup (UNION {b \in waiting : Of(i, b)})
      /\ came' = came /\ sent' = sent /\ built' = built /\ removed' = removed
      /\ quiet' = quiet
      /\ group' = [t \in Tx |-> IF InstanceOf(t) = i THEN {} ELSE group[t]]
  BY DEF Crash, GrouperGone, Once!Abandon
<1>2. Grouped \subseteq Grouped' \cup wasted'
  <2> SUFFICES ASSUME NEW t \in Tx, NEW s \in group[t] PROVE s \in Grouped' \cup wasted'
    BY DEF Grouped
  <2>1. CASE InstanceOf(t) = i
    <3>1. s \in Swap /\ TxOf[s] = t /\ s \in Grouped
      BY DEF TInv, OwnGroups, Grouped
    <3> QED
      BY <1>1, <2>1, <3>1, FleetAssumption
  <2>2. CASE InstanceOf(t) # i
    BY <1>1, <2>2 DEF Grouped
  <2> QED
    BY <2>1, <2>2
<1>3. \A b \in waiting : b \in waiting' \/ b \subseteq wasted'
  BY <1>1
<1>4. Kept \subseteq Kept'
  BY <1>1, <1>2, <1>3 DEF Kept
<1>5. \A b \in built' : b \in waiting' \cup sent' \/ b \subseteq wasted'
  BY <1>1, <1>3 DEF KeptInv
<1>6. RunningEvents \subseteq RunningEvents' \cup abandoned'
  BY <1>1 DEF RunningEvents
<1>7. joined' \subseteq Kept' /\ orphan' \subseteq abandoned' /\ abandoned \subseteq abandoned'
  BY <1>1, <1>4 DEF KeptInv
<1> HIDE DEF mine
<1> QED
  BY <1>1, <1>4, <1>5, <1>6, <1>7, KeptStep DEF KeptInv

LEMMA KeptInvStep == FInv /\ TInv /\ KeptInv /\ [FleetNext]_fleetvars => KeptInv'
<1> SUFFICES ASSUME FInv, TInv, KeptInv, [FleetNext]_fleetvars PROVE KeptInv'
  OBVIOUS
<1>0. PlacesOK
  BY DEF FInv
<1>1. ASSUME NEW s \in Swap, TimerFires(s), GrouperAlone PROVE KeptInv'
  BY <1>1, KeptStill DEF TimerFires, GrouperAlone, claims, outbox, Kept, Grouped, KeptInv
<1>2. ASSUME NEW b \in waiting, Send(b) PROVE KeptInv'
  BY <1>2, KeptStill DEF Send, gvars, claims, Kept, Grouped, KeptInv
<1>3. ASSUME NEW i \in Instance, Restart(i) PROVE KeptInv'
  BY <1>3, KeptStill DEF Restart, gvars, claims, outbox, Kept, Grouped, KeptInv
<1>4. ASSUME NEW e \in SwapEvent, LockExpires(e) PROVE KeptInv'
  BY <1>4, KeptStill DEF LockExpires, gvars, outbox, Kept, Grouped, KeptInv
<1>5. ASSUME GrouperTick, GrouperAlone PROVE KeptInv'
  BY <1>5, KeptStill DEF GrouperTick, GrouperAlone, claims, outbox, Kept, Grouped, KeptInv
<1>6. CASE UNCHANGED fleetvars
  BY <1>6, KeptStill DEF fleetvars, gvars, claims, outbox, Kept, Grouped, KeptInv
<1> QED
  BY <1>0, <1>1, <1>2, <1>3, <1>4, <1>5, <1>6, ReceiveKept, JoinKept, RecordKept,
     CallbackKept, CrashKept, CleanupKept DEF FleetNext

(* A swap that reached any instance is never forgotten, although all other *)
(* copies of it are dropped for good: it is being processed, in a group,   *)
(* queued, in a message or removed by Cleanup, unless a crash had it.      *)
THEOREM FleetForgetsNothing == FleetSpec => []NothingForgotten
<1>1. KeptInv => NothingForgotten
  BY DEF KeptInv
<1> QED
  BY <1>1, FInvInit, FInvStep, TInvInit, TInvStep, KeptInvInit, KeptInvStep, PTL DEF FleetSpec
=============================================================================

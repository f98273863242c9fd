-------------------------------- MODULE Fleet --------------------------------
(***************************************************************************)
(* Several instances of the program on the same feed.  Each gets a copy of *)
(* every swap from its own connection; the deduplicator, here by its       *)
(* contract NotifyOnce, lets one instance process it, which means to put   *)
(* it into THAT instance's grouper (handleTransaction of                   *)
(* internal/handler/handler.go).  A swap is recorded as processed as soon  *)
(* as it is in the grouper, the message about it is sent later, and both   *)
(* the grouper and the queue behind it die with their process.             *)
(*                                                                         *)
(* The groupers of all instances are one TxGrouper: its swaps are the      *)
(* copies, its transactions the pairs of an instance and a hash.  Records  *)
(* live for hours and do not expire here; queues are unbounded here and    *)
(* Redis answers (modules EventPipeline and Dedup are about the rest).     *)
(***************************************************************************)
EXTENDS TxGrouper

CONSTANTS Instance,
          SwapEvent,   \* the swaps of the feed
          MaxCrashes   \* bound: crashes in a run

EventOf(s) == s[2]
InstanceOf(t) == t[1]    \* of a copy, and of a transaction

ASSUME FleetAssumption ==
  /\ Swap = Instance \X SwapEvent
  /\ \A s \in Swap : InstanceOf(TxOf[s]) = InstanceOf(s)
  /\ MaxCrashes \in Nat

VARIABLES up,         \* [Instance -> BOOLEAN]
          came,       \* the copies that have arrived
          begun,      \* copies whose processor has started
          joined,     \* copies in the grouper, not recorded yet
          quiet,      \* [SwapEvent -> 0..1], 1: recorded as processed
          orphan,     \* events whose lock outlives the instance that took it
          waiting,    \* MultiHopSwaps on their way through multiHopQueue
          sent,       \* MultiHopSwaps a message was sent about
          crashes,
          abandoned,  \* history: events whose processing ended without a record
          wasted      \* history: copies a crash has taken out of a grouper or
                      \* its queue

claims == <<came, begun, joined, quiet, orphan>>
outbox == <<waiting, sent>>
fleetvars == <<gvars, up, claims, outbox, crashes, abandoned, wasted>>

RunningEvents == {EventOf(s) : s \in begun \cup joined}
SettledEvents == {EventOf(s) : s \in (UNION sent) \cup removed}

(* The contract of the deduplicator. *)
Once == INSTANCE NotifyOnce
          WITH Event <- SwapEvent, ProcessedTTL <- 1, running <- RunningEvents, lapsed <- {}

FleetTypeOK ==
  /\ GrouperTypeOK
  /\ up \in [Instance -> BOOLEAN]
  /\ came \subseteq Swap
  /\ begun \subseteq came /\ joined \subseteq came /\ begun \cap joined = {}
  /\ quiet \in [SwapEvent -> 0..1]
  /\ orphan \subseteq SwapEvent \ RunningEvents
  /\ waiting \subseteq built /\ sent \subseteq built
  /\ crashes \in 0..MaxCrashes
  /\ abandoned \subseteq SwapEvent /\ wasted \subseteq Swap
  /\ \A i \in Instance : ~up[i] =>
       \A s \in begun \cup joined \cup Grouped : InstanceOf(s) # i

FleetInit ==
  /\ GrouperInit
  /\ up = [i \in Instance |-> TRUE]
  /\ came = {} /\ begun = {} /\ joined = {} /\ orphan = {}
  /\ quiet = [e \in SwapEvent |-> 0]
  /\ waiting = {} /\ sent = {}
  /\ crashes = 0 /\ abandoned = {} /\ wasted = {}

-----------------------------------------------------------------------------
Locked(e) == e \in RunningEvents \cup orphan

(* Mutant: every instance processes its own copy. *)
TakeAlways(s) ==
  /\ begun' = begun \cup {s}
  /\ UNCHANGED <<joined, quiet>>

(* ProcessWithDedup starts the processor, if the contract allows it, ... *)
TakeIfFree(s) ==
  /\ EventOf(s) \notin orphan
  /\ begun' = begun \cup {s} /\ UNCHANGED joined
  /\ Once!Begin(EventOf(s))

(* ... and drops the copy for good if the event is locked or recorded. *)
DropIfTaken(s) ==
  /\ Locked(EventOf(s)) \/ quiet[EventOf(s)] > 0
  /\ UNCHANGED <<begun, joined, quiet>>

Receive(s) ==
  /\ up[InstanceOf(s)] /\ s \notin came
  /\ came' = came \cup {s}
  /\ TakeIfFree(s) \/ DropIfTaken(s)
  /\ UNCHANGED <<gvars, up, orphan, outbox, crashes, abandoned, wasted>>

(* Mutant: what does not fit into a queue of capacity one is dropped. *)
QueueOne ==
  /\ waiting' = IF waiting = {} THEN built' \ built ELSE waiting
  /\ UNCHANGED sent

(* A MultiHopSwap that is complete goes into multiHopQueue. *)
Queues == waiting' = waiting \cup (built' \ built) /\ UNCHANGED sent

(* handleTransaction: the swap joins its group. *)
Join(s) ==
  /\ s \in begun
  /\ AddSwap(s)
  /\ begun' = begun \ {s} /\ joined' = joined \cup {s}
  /\ Queues
  /\ UNCHANGED <<up, came, quiet, orphan, crashes, abandoned, wasted>>

(* Mutant: the lock is released without a record. *)
ReleaseOnly(s) ==
  /\ s \in joined
  /\ joined' = joined \ {s}
  /\ UNCHANGED <<gvars, up, came, begun, quiet, orphan, outbox, crashes, abandoned, wasted>>

(* MarkAsProcessed and ReleaseLock. *)
Record(s) ==
  /\ s \in joined
  /\ joined' = joined \ {s} /\ UNCHANGED begun
  /\ Once!Finish(EventOf(s))
  /\ UNCHANGED <<gvars, up, came, orphan, outbox, crashes, abandoned, wasted>>

(* The callback of a timer. *)
CallbackFinalizes(s) ==
  /\ FinalizeTransaction(s)
  /\ Queues
  /\ UNCHANGED <<up, claims, crashes, abandoned, wasted>>

Of(i, b) == \A s \in b : InstanceOf(s) = i

(* multiHopWorker sends the message. *)
Send(b) ==
  /\ b \in waiting
  /\ waiting' = waiting \ {b} /\ sent' = sent \cup {b}
  /\ UNCHANGED <<gvars, up, claims, crashes, abandoned, wasted>>

(* The process of i ends: the grouper it is started with again is empty.   *)
(* No copy comes twice, so a swap that was in a group is unknown again and *)
(* stays so.                                                               *)
GrouperGone(i) ==
  LET grouped == {s \in Grouped : InstanceOf(s) = i} IN
  /\ group' = [t \in Tx |-> IF InstanceOf(t) = i THEN {} ELSE group[t]]
  /\ pendingTimer' = [t \in Tx |-> IF InstanceOf(t) = i THEN NoSwap ELSE pendingTimer[t]]
  /\ groupAge' = [t \in Tx |-> IF InstanceOf(t) = i THEN 0 ELSE groupAge[t]]
  /\ timer' = [s \in Swap |-> IF s \in grouped THEN "unset"
                             ELSE IF InstanceOf(s) = i /\ timer[s] # "unset" THEN "off"
                             ELSE timer[s]]
  /\ UNCHANGED <<left, built, removed, late>>

(* A crash: locks stay behind for their TTL, runs end without a record. *)
Crash(i) ==
  LET mine == {s \in begun \cup joined : InstanceOf(s) = i} IN
  /\ up[i] /\ crashes < MaxCrashes
  /\ crashes' = crashes + 1
  /\ up' = [up EXCEPT ![i] = FALSE]
  /\ GrouperGone(i)
  /\ begun' = begun \ mine /\ joined' = joined \ mine
  /\ Once!Abandon({EventOf(s) : s \in mine})
  /\ orphan' = orphan \cup {EventOf(s) : s \in mine}
  /\ abandoned' = abandoned \cup {EventOf(s) : s \in mine}
  /\ waiting' = {b \in waiting : ~Of(i, b)}
  /\ wasted' = wasted \cup {s \in Grouped : InstanceOf(s) = i}
                      \cup (UNION {b \in waiting : Of(i, b)})
  /\ UNCHANGED <<came, sent>>

Restart(i) ==
  /\ ~up[i]
  /\ up' = [up EXCEPT ![i] = TRUE]
  /\ UNCHANGED <<gvars, claims, outbox, crashes, abandoned, wasted>>

LockExpires(e) ==
  /\ e \in orphan
  /\ orphan' = orphan \ {e}
  /\ UNCHANGED <<gvars, up, came, begun, joined, quiet, outbox, crashes, abandoned, wasted>>

GrouperAlone == UNCHANGED <<up, claims, outbox, crashes, abandoned, wasted>>

FleetNext ==
  \/ \E s \in Swap : \/ Receive(s) \/ Join(s) \/ Record(s) \/ CallbackFinalizes(s)
                     \/ TimerFires(s) /\ GrouperAlone
  \/ \E b \in waiting : Send(b)
  \/ \E i \in Instance : Crash(i) \/ Restart(i)
  \/ \E e \in SwapEvent : LockExpires(e)
  \/ (Cleanup \/ GrouperTick) /\ GrouperAlone

FleetSpec == FleetInit /\ [][FleetNext]_fleetvars

(* Workers, timers and queues go on; nothing makes copies come, instances  *)
(* crash or start again.                                                   *)
FleetFairSpec ==
  /\ FleetSpec
  /\ WF_fleetvars(GrouperTick /\ GrouperAlone)
  /\ WF_fleetvars(\E b \in waiting : Send(b))
  /\ \A s \in Swap : /\ WF_fleetvars(Join(s)) /\ WF_fleetvars(Record(s))
                     /\ WF_fleetvars(CallbackFinalizes(s))
                     /\ WF_fleetvars(TimerFires(s) /\ GrouperAlone)

-----------------------------------------------------------------------------
(* Properties *)

Reports(e) == {s \in UNION sent : EventOf(s) = e}

(* "Notify Once: Only one Telegram notification is sent", end to end: the  *)
(* fleet reports a swap at most once, in whatever instances its copies     *)
(* arrive and whichever groups they would join.  The exception is a swap   *)
(* whose instance crashed between the grouper and the record.              *)
ReportedOnce ==
  \A e \in SwapEvent : e \notin abandoned => Cardinality(Reports(e)) <= 1

(* A swap that reached any instance is reported (or was in a group that    *)
(* Cleanup removed), although all other copies were dropped for good,      *)
(* unless an instance crashed with it.                                     *)
ReceivedIsReported ==
  <>[](\A s \in came :
         EventOf(s) \in SettledEvents \cup abandoned \cup {EventOf(r) : r \in wasted})

(* handler.go: "show the FULL context of how our subscribed token is used":*)
(* the swaps of one transaction are in one message when they came within   *)
(* the window.                                                             *)
HashOf(s) == TxOf[s][2]
NotSplit ==
  \A a, b \in sent : \A r \in a, s \in b :
    HashOf(r) = HashOf(s) /\ InstanceOf(r) # InstanceOf(s) => a = b

(* "MarkAsProcessed marks an event as processed": what is recorded so was  *)
(* reported or will be, also if an instance crashes.                       *)
RecordedIsNotLost ==
  \A s \in wasted : quiet[EventOf(s)] > 0 => EventOf(s) \in SettledEvents
=============================================================================

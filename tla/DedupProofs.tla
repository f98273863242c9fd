----------------------------- MODULE DedupProofs -----------------------------
(***************************************************************************)
(* Proofs about module Dedup, for any number of instances, workers and     *)
(* events, any TTLs and any HoldBound, below the lock's TTL or beyond it,  *)
(* under no assumption but those of the module.                            *)
(***************************************************************************)
EXTENDS Dedup, TLAPS

(* A worker between its SETNX and its release owns the lock key of its     *)
(* event, alone, and the key's remaining life is what the worker's hold    *)
(* leaves of the TTL -- as long as the event is not overrun.  This is what *)
(* makes the exclusion inductive: such a key has one worker behind it.     *)
Claim(w) ==
  /\ lockOwner[ev[w]] = InstanceOf(w)
  /\ taker[ev[w]] = w
  /\ age[w] < LockTTL
  /\ lockLeft[ev[w]] = LockTTL - age[w]

InTime(w) == Held(w) /\ ev[w] \notin overran

HoldInv == \A w \in Worker : InTime(w) => Claim(w)

IInv == TypeOK /\ HoldInv

-----------------------------------------------------------------------------
LEMMA WorkerInstance == \A w \in Worker : InstanceOf(w) \in Instance /\ w # NoWorker
  BY DEF Worker, InstanceOf, NoWorker

(* The state's type is kept by every step. *)
LEMMA TypeStep == TypeOK /\ [Next]_vars => TypeOK'
<1> SUFFICES ASSUME TypeOK, [Next]_vars PROVE TypeOK'
  OBVIOUS
<1> USE DurationAssumption
<1> USE DEF TypeOK, PC
<1>1. ASSUME NEW w \in Worker, NEW e \in Event, Take(w, e) PROVE TypeOK'
  BY <1>1 DEF Take, Goto, redis
<1>2. ASSUME NEW w \in Worker, Check(w) PROVE TypeOK'
  BY <1>2 DEF Check, Goto, Return, redis
<1>3. ASSUME NEW w \in Worker, TryAcquireLock(w) PROVE TypeOK'
  BY <1>3, WorkerInstance DEF TryAcquireLock, Goto, Return
<1>4. ASSUME NEW w \in Worker, Recheck(w) PROVE TypeOK'
  BY <1>4 DEF Recheck, Goto, redis
<1>5. ASSUME NEW w \in Worker, Process(w) PROVE TypeOK'
  BY <1>5 DEF Process, Goto, redis
<1>6. ASSUME NEW w \in Worker, MarkAsProcessed(w) PROVE TypeOK'
  BY <1>6 DEF MarkAsProcessed, Goto
<1>7. ASSUME NEW w \in Worker, ReleaseLock(w) PROVE TypeOK'
  BY <1>7 DEF ReleaseLock, DeleteIfOwner, Return
<1>8. ASSUME NEW i \in Instance, Stop(i) \/ Die(i) \/ Restart(i) PROVE TypeOK'
  BY <1>8 DEF Stop, Die, Restart, workers, redis
<1>9. ASSUME Tick PROVE TypeOK'
  <2>1. overran' \subseteq Event
    BY <1>9 DEF Tick, Held
  <2> QED
    BY <1>9, <2>1 DEF Tick, Countdown
<1>10. CASE UNCHANGED vars
  BY <1>10 DEF vars, workers, redis
<1> QED
  BY <1>1, <1>2, <1>3, <1>4, <1>5, <1>6, <1>7, <1>8, <1>9, <1>10 DEF Next, Step

(* TypeOK is an invariant: in particular no key outlives its TTL and a     *)
(* worker inside ProcessWithDedup always has an event in hand.             *)
THEOREM TypeCorrect == Spec => []TypeOK
<1>1. Init => TypeOK
  BY DurationAssumption DEF Init, TypeOK, PC
<1> QED
  BY <1>1, TypeStep, PTL DEF Spec

-----------------------------------------------------------------------------
(* While a worker holds the lock of an event that is not overrun, the key  *)
(* exists and nobody else holds it.                                        *)
LEMMA HoldsAlone ==
  ASSUME IInv, NEW w \in Worker, InTime(w)
  PROVE  /\ ev[w] \in Event /\ age[w] \in Nat
         /\ Claim(w) /\ LockExists(ev[w])
         /\ \A v \in Worker \ {w} : Held(v) => ev[v] # ev[w]
<1>1. ev[w] \in Event /\ age[w] \in 0..HoldBound
  BY DEF IInv, TypeOK, InTime, Held
<1>2. Claim(w)
  BY DEF IInv, HoldInv
<1>3. LockExists(ev[w])
  BY <1>1, <1>2, DurationAssumption DEF LockExists, Claim
<1>4. \A v \in Worker \ {w} : Held(v) => ev[v] # ev[w]
  BY DEF IInv, HoldInv, Claim, InTime
<1> QED
  BY <1>1, <1>2, <1>3, <1>4, DurationAssumption

(* A step that touches neither the keys of the lock nor the worker's own   *)
(* record keeps the worker's claim.                                        *)
LEMMA HoldStep ==
  ASSUME IInv, [Next]_vars
  PROVE  HoldInv'
<1> SUFFICES ASSUME NEW v \in Worker, InTime(v)' PROVE Claim(v)'
  BY DEF HoldInv
<1> USE DurationAssumption DEF Claim, InTime
<1>0. InTime(v) => /\ ev[v] \in Event /\ LockExists(ev[v])
                   /\ Claim(v)
                   /\ age[v] \in Nat
                   /\ \A u \in Worker \ {v} : Held(u) => ev[u] # ev[v]
  BY HoldsAlone
<1>1. ASSUME NEW w \in Worker, NEW e \in Event, Take(w, e) PROVE Claim(v)'
  BY <1>0, <1>1 DEF Take, Goto, redis, Held, IInv, TypeOK
<1>2. ASSUME NEW w \in Worker, Check(w) PROVE Claim(v)'
  BY <1>0, <1>2 DEF Check, Goto, Return, redis, Held, IInv, TypeOK
<1>3. ASSUME NEW w \in Worker, TryAcquireLock(w) PROVE Claim(v)'
  <2>1. CASE v = w
    BY <1>3, <2>1 DEF TryAcquireLock, Goto, Return, Held, IInv, TypeOK
  <2>2. CASE v # w
    <3>1. InTime(v) /\ ev'[v] = ev[v] /\ age'[v] = age[v]
      BY <1>3, <2>2 DEF TryAcquireLock, Goto, Return, Held, IInv, TypeOK
    <3>2. LockExists(ev[w]) => UNCHANGED <<lockOwner, lockLeft, taker>>
      BY <1>3 DEF TryAcquireLock
    <3> QED
      BY <1>0, <1>3, <3>1, <3>2 DEF TryAcquireLock, IInv, TypeOK
  <2> QED BY <2>1, <2>2
<1>4. ASSUME NEW w \in Worker, Recheck(w) PROVE Claim(v)'
  BY <1>0, <1>4 DEF Recheck, Goto, redis, Held, IInv, TypeOK
<1>5. ASSUME NEW w \in Worker, Process(w) PROVE Claim(v)'
  BY <1>0, <1>5 DEF Process, Goto, redis, Held, IInv, TypeOK
<1>6. ASSUME NEW w \in Worker, MarkAsProcessed(w) PROVE Claim(v)'
  BY <1>0, <1>6 DEF MarkAsProcessed, Goto, Held, IInv, TypeOK
<1>7. ASSUME NEW w \in Worker, ReleaseLock(w) PROVE Claim(v)'
  <2>1. v # w /\ InTime(v) /\ Held(w) /\ ev'[v] = ev[v] /\ age'[v] = age[v]
    BY <1>7 DEF ReleaseLock, Return, Held, IInv, TypeOK
  <2>2. ev[w] # ev[v]
    BY <1>0, <2>1
  <2> QED
    BY <1>0, <1>7, <2>1, <2>2 DEF ReleaseLock, DeleteIfOwner, IInv, TypeOK
<1>8. ASSUME NEW i \in Instance, Stop(i) \/ Die(i) \/ Restart(i) PROVE Claim(v)'
  BY <1>0, <1>8 DEF Stop, Die, Restart, workers, redis, Held, IInv, TypeOK
<1>9. ASSUME Tick PROVE Claim(v)'
  <2>1. Held(v) /\ ev'[v] = ev[v] /\ age'[v] = age[v] + 1 /\ age[v] \in Nat
    BY <1>9 DEF Tick, Held, IInv, TypeOK
  <2>2. ev[v] \notin overran /\ age[v] + 1 < LockTTL
    BY <1>9, <2>1 DEF Tick
  <2>3. lockLeft[ev[v]] > 1 /\ lockLeft[ev[v]] \in Nat
    BY <1>0, <2>1, <2>2 DEF IInv, TypeOK
  <2> QED
    BY <1>0, <1>9, <2>1, <2>2, <2>3 DEF Tick, Countdown
<1>10. CASE UNCHANGED vars
  BY <1>0, <1>10 DEF vars, workers, redis, Held
<1> QED
  BY <1>1, <1>2, <1>3, <1>4, <1>5, <1>6, <1>7, <1>8, <1>9, <1>10 DEF Next, Step

LEMMA Inductive == Spec => []IInv
<1>1. Init => IInv
  <2>1. Init => TypeOK
    BY DurationAssumption DEF Init, TypeOK, PC
  <2>2. Init => HoldInv
    BY DEF Init, HoldInv, InTime, Held
  <2> QED
    BY <2>1, <2>2 DEF IInv
<1>2. IInv /\ [Next]_vars => IInv'
  BY TypeStep, HoldStep DEF IInv
<1> QED
  BY <1>1, <1>2, PTL DEF Spec

(* Two workers never run the processor of one event at the same time,      *)
(* whatever fails, unless a lock of it has been kept for its whole TTL.    *)
THEOREM Exclusion == Spec => []OverlapNeedsOverrun
<1>1. IInv => OverlapNeedsOverrun
  BY HoldsAlone DEF OverlapNeedsOverrun, Running, InTime, Held
<1> QED
  BY <1>1, Inductive, PTL

-----------------------------------------------------------------------------
(* What a step does to the events being run when it touches one worker     *)
(* only.                                                                   *)
LEMMA RunningUnchanged ==
  ASSUME TypeOK, NEW w \in Worker,
         \A v \in Worker \ {w} : pc'[v] = pc[v] /\ ev'[v] = ev[v],
         pc'[w] \in {"process", "mark"} <=> Running(w),
         Running(w) => ev'[w] = ev[w]
  PROVE  RunningEvents' = RunningEvents
  BY DEF RunningEvents, Running

LEMMA StepSimulation ==
  ASSUME IInv, [Next]_vars
  PROVE  [Once!NNext]_(Once!nvars)
<1> USE DEF IInv, TypeOK
<1> DEFINE Stutter == RunningEvents' = RunningEvents /\ doneLeft' = doneLeft /\ overran' = overran
<1>a. Stutter => [Once!NNext]_(Once!nvars)
  BY DEF RunningEvents, Once!nvars
<1>1. ASSUME NEW w \in Worker, NEW e \in Event, Take(w, e) PROVE Stutter
  BY <1>1, RunningUnchanged DEF Take, Goto, redis, Running
<1>2. ASSUME NEW w \in Worker, Check(w) PROVE Stutter
  BY <1>2, RunningUnchanged DEF Check, Goto, Return, redis, Running
<1>3. ASSUME NEW w \in Worker, TryAcquireLock(w) PROVE Stutter
  BY <1>3, RunningUnchanged DEF TryAcquireLock, Goto, Return, Running
<1>4. ASSUME NEW w \in Worker, Recheck(w) PROVE [Once!NNext]_(Once!nvars)
  <2>0. UNCHANGED <<doneLeft, overran>> /\ Held(w)
    BY <1>4 DEF Recheck, redis, Held
  <2>1. CASE pc'[w] = "undo"
    <3> Stutter
      BY <1>4, <2>1, RunningUnchanged DEF Recheck, Goto, redis, Running
    <3> QED BY <1>a
  <2>2. CASE pc'[w] = "process"
    <3>1. ~Processed(ev[w]) /\ ev[w] \in Event
      BY <1>4, <2>2 DEF Recheck, Goto
    <3>2. RunningEvents' = RunningEvents \cup {ev[w]}
      BY <1>4, <2>2 DEF Recheck, Goto, redis, RunningEvents, Running
    <3>3. CASE ev[w] \in RunningEvents
      <4> Stutter
        BY <2>0, <3>2, <3>3
      <4> QED BY <1>a
    <3>4. CASE ev[w] \notin RunningEvents
      <4>1. doneLeft[ev[w]] = 0
        BY <3>1, DurationAssumption DEF Processed
      <4>2. Once!Begin(ev[w])
        BY <2>0, <3>2, <3>4, <4>1 DEF Once!Begin, RunningEvents
      <4> QED
        BY <3>1, <4>2 DEF Once!NNext
    <3> QED
      BY <3>3, <3>4
  <2> QED
    BY <1>4, <2>1, <2>2 DEF Recheck, Goto
<1>5. ASSUME NEW w \in Worker, Process(w) PROVE Stutter
  BY <1>5, RunningUnchanged DEF Process, Goto, redis, Running
<1>6. ASSUME NEW w \in Worker, MarkAsProcessed(w) PROVE [Once!NNext]_(Once!nvars)
  <2>0. overran' = overran /\ Held(w) /\ Running(w)
    BY <1>6 DEF MarkAsProcessed, Held, Running
  <2>1. ev[w] \in RunningEvents /\ ev[w] \in Event
    BY <1>6 DEF MarkAsProcessed, RunningEvents, Running
  <2>2. \/ RunningEvents' = RunningEvents \ {ev[w]}
        \/ RunningEvents' = RunningEvents /\ ev[w] \in overran
    <3>1. CASE \A v \in Worker \ {w} : Running(v) => ev[v] # ev[w]
      BY <1>6, <3>1 DEF MarkAsProcessed, Goto, RunningEvents, Running
    <3>2. CASE \E v \in Worker \ {w} : Running(v) /\ ev[v] = ev[w]
      <4>1. ev[w] \in overran
        BY <2>0, <3>2, HoldsAlone DEF InTime, Running, Held
      <4>2. RunningEvents' = RunningEvents
        BY <1>6, <3>2 DEF MarkAsProcessed, Goto, RunningEvents, Running
      <4> QED
        BY <4>1, <4>2
    <3> QED
      BY <3>1, <3>2
  <2>3. CASE doneLeft' = doneLeft
    <3>1. CASE RunningEvents' = RunningEvents \ {ev[w]}
      <4>1. Once!Abandon({ev[w]})
        BY <2>0, <2>3, <3>1 DEF Once!Abandon, RunningEvents
      <4>2. {ev[w]} \in SUBSET RunningEvents
        BY <2>1
      <4> QED
        BY <4>1, <4>2 DEF Once!NNext
    <3>2. CASE RunningEvents' = RunningEvents
      <4> Stutter
        BY <2>0, <2>3, <3>2
      <4> QED BY <1>a
    <3> QED
      BY <2>2, <3>1, <3>2
  <2>4. CASE doneLeft' = [doneLeft EXCEPT ![ev[w]] = ProcessedTTL]
    <3>1. Once!Finish(ev[w])
      BY <2>0, <2>1, <2>2, <2>4 DEF Once!Finish, RunningEvents
    <3> QED
      BY <2>1, <3>1 DEF Once!NNext
  <2> QED
    BY <1>6, <2>3, <2>4 DEF MarkAsProcessed
<1>7. ASSUME NEW w \in Worker, ReleaseLock(w) PROVE Stutter
  BY <1>7, RunningUnchanged DEF ReleaseLock, Return, Running
<1>8. ASSUME NEW i \in Instance, Stop(i) \/ Restart(i) PROVE Stutter
  BY <1>8 DEF Stop, Restart, workers, redis, RunningEvents, Running
<1>9. ASSUME NEW i \in Instance, Die(i) PROVE [Once!NNext]_(Once!nvars)
  <2>1. RunningEvents' \subseteq RunningEvents /\ doneLeft' = doneLeft /\ overran' = overran
    BY <1>9 DEF Die, redis, RunningEvents, Running
  <2>2. Once!Abandon(RunningEvents \ RunningEvents')
    BY <2>1 DEF Once!Abandon
  <2> QED
    BY <2>2 DEF Once!NNext
<1>10. ASSUME Tick PROVE [Once!NNext]_(Once!nvars)
  <2>1. RunningEvents' = RunningEvents
    BY <1>10 DEF Tick, RunningEvents, Running
  <2>2. overran' \in SUBSET Event
    BY <1>10 DEF Tick, Held
  <2>3. overran \cap RunningEvents \subseteq overran'
    BY <1>10 DEF Tick, Held, RunningEvents
  <2>4. doneLeft' = [e \in Event |-> IF doneLeft[e] = 0 THEN 0 ELSE doneLeft[e] - 1]
    BY <1>10 DEF Tick, Countdown
  <2>5. Once!Elapse
    BY <2>1, <2>2, <2>3, <2>4 DEF Once!Elapse, RunningEvents
  <2> QED
    BY <2>5 DEF Once!NNext
<1>11. CASE UNCHANGED vars
  <2> Stutter
    BY <1>11 DEF vars, workers, redis, RunningEvents, Running
  <2> QED BY <1>a
<1> QED
  BY <1>a, <1>1, <1>2, <1>3, <1>4, <1>5, <1>6, <1>7, <1>8, <1>9, <1>10, <1>11
     DEF Next, Step

(* The deduplicator implements the promise of NotifyOnce: every run begins *)
(* outside all other runs of its event and outside the life of any earlier *)
(* record, except while a lock of the event is overrun.                    *)
THEOREM ImplementsNotifyOnce == Spec => NotifiesOnce
<1>1. Init => Once!NInit
  BY DEF Init, Once!NInit, RunningEvents
<1>2. IInv /\ [Next]_vars => [Once!NNext]_(Once!nvars)
  BY StepSimulation
<1> QED
  BY <1>1, <1>2, Inductive, PTL DEF Spec, NotifiesOnce, Once!NSpec

-----------------------------------------------------------------------------
(* A lock key carries the id of the instance whose worker created it, even *)
(* after that worker has lost interest in it.                              *)
OwnerInv ==
  \A e \in Event : LockExists(e) =>
    taker[e] \in Worker /\ InstanceOf(taker[e]) = lockOwner[e]

LEMMA OwnerStep == TypeOK /\ OwnerInv /\ [Next]_vars => OwnerInv'
<1> SUFFICES ASSUME TypeOK, OwnerInv, [Next]_vars PROVE OwnerInv'
  OBVIOUS
<1> USE DEF TypeOK, OwnerInv, LockExists
<1>1. CASE UNCHANGED <<lockOwner, lockLeft, taker>>
  BY <1>1
<1>2. ASSUME NEW w \in Worker, TryAcquireLock(w) PROVE OwnerInv'
  BY <1>2 DEF TryAcquireLock
<1>3. ASSUME NEW w \in Worker, ReleaseLock(w) PROVE OwnerInv'
  BY <1>3 DEF ReleaseLock, DeleteIfOwner
<1>4. ASSUME Tick PROVE OwnerInv'
  BY <1>4, DurationAssumption DEF Tick, Countdown
<1> QED
  BY <1>1, <1>2, <1>3, <1>4
     DEF Next, Step, Take, Check, Recheck, Process, MarkAsProcessed,
         Stop, Die, Restart, vars, redis

(* The release script deletes no lock but the worker's own, or that of a   *)
(* sibling once a lock of the event was overrun, for any number of workers *)
(* and however long they hold their locks.                                 *)
THEOREM ReleasesNoForeignLock == Spec => ReleasesOwnOrSiblings
<1>1. Init => OwnerInv
  BY DEF Init, OwnerInv, LockExists
<1>2. ASSUME IInv, OwnerInv, NEW w \in Worker, ReleaseLock(w), NEW e \in Event,
             LockExists(e), ~LockExists(e)'
      PROVE  taker[e] = w \/ (e \in overran /\ taker[e] \in {InstanceOf(w)} \X Slot)
  <2>1. e = ev[w] /\ lockOwner[e] = InstanceOf(w) /\ Held(w)
    BY <1>2 DEF ReleaseLock, DeleteIfOwner, LockExists, IInv, TypeOK, Held
  <2>2. taker[e] \in Worker /\ InstanceOf(taker[e]) = InstanceOf(w)
    BY <1>2, <2>1 DEF OwnerInv
  <2>3. taker[e] \in {InstanceOf(w)} \X Slot
    BY <2>2 DEF Worker, InstanceOf
  <2>4. e \notin overran => taker[e] = w
    BY <1>2, <2>1 DEF IInv, HoldInv, InTime, Claim
  <2> QED
    BY <2>3, <2>4
<1>3. IInv /\ OwnerInv /\ [Next]_vars =>
        [\A w \in Worker : ReleaseLock(w) =>
           \A e \in Event : LockExists(e) /\ ~LockExists(e)' =>
             \/ taker[e] = w
             \/ e \in overran /\ taker[e] \in {InstanceOf(w)} \X Slot]_vars
  BY <1>2
<1>4. IInv /\ OwnerInv /\ [Next]_vars => OwnerInv'
  BY OwnerStep DEF IInv
<1> QED
  BY <1>1, <1>3, <1>4, Inductive, PTL DEF Spec, ReleasesOwnOrSiblings

=============================================================================

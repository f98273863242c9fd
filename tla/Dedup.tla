-------------------------------- MODULE Dedup --------------------------------
(***************************************************************************)
(* The distributed deduplication of internal/redis/deduplicator.go as the  *)
(* workers of internal/handler/handler.go drive it.  Several instances of  *)
(* the program receive the same WebSocket events; in each, several worker  *)
(* goroutines call ProcessWithDedup, and all of them meet in one Redis     *)
(* server that holds two keys per event:                                   *)
(*                                                                         *)
(*   event:lock:<key>       SETNX by the worker, value = id of its INSTANCE*)
(*   event:processed:<key>  SET after the processor has returned           *)
(*                                                                         *)
(* Each Redis command is one atomic step; everything may happen between    *)
(* two of them.  Both keys carry a TTL, modelled by the ticks they have    *)
(* left (0: the key does not exist), so that no clock grows without bound. *)
(* HoldBound is the longest time a worker keeps the lock, from its SETNX   *)
(* to its release (and the longest it takes to get to its SETNX): the code *)
(* does not bound it, it is what the lock TTL has to be compared with.     *)
(***************************************************************************)
EXTENDS Integers

CONSTANTS Instance,      \* running copies of the program, one uuid each
          Slot,          \* worker goroutines of one instance
          Event,         \* event keys
          LockTTL,       \* defaultLockTTL, in ticks
          ProcessedTTL,  \* defaultProcessedTTL, in ticks
          HoldBound,     \* longest hold of a lock, in ticks
          Faults,        \* what may go wrong, a subset of FaultKinds
          NoInstance,    \* value of a lock key that does not exist
          NoEvent        \* what an idle worker works on

Worker == Instance \X Slot
InstanceOf(w) == w[1]    \* d.instanceID is shared by the workers of a process
NoWorker == <<>>         \* what created a lock key that does not exist
FaultKinds == {"redis", "stop", "crash"}

ASSUME NullAssumption == NoInstance \notin Instance /\ NoEvent \notin Event
ASSUME DurationAssumption ==
  /\ LockTTL \in Nat \ {0}
  /\ ProcessedTTL \in Nat \ {0}
  /\ HoldBound \in Nat
ASSUME FaultAssumption == Faults \subseteq FaultKinds

VARIABLES status,      \* [Instance -> "up", "stopping" or "down"]
          pc,          \* [Worker -> PC], next step of ProcessWithDedup
          ev,          \* [Worker -> Event], the event in hand
          age,         \* [Worker -> ticks since it took its event or, once
                       \*            its SETNX succeeded, since then]
          lockOwner,   \* [Event -> Instance], value of event:lock:<key>
          lockLeft,    \* [Event -> ticks], remaining life of that key
          taker,       \* ghost: the worker whose SETNX created that key
          doneLeft,    \* [Event -> ticks], life of event:processed:<key>
          overran      \* ghost: the events a worker has kept the lock of for
                       \*        its whole TTL, until all have let go of it

redis == <<lockOwner, lockLeft, taker, doneLeft>>
workers == <<pc, ev, age>>
vars == <<status, workers, redis, overran>>

PC == {"idle", "check", "lock", "recheck", "undo", "process", "mark", "release"}

(* The steps between a successful SETNX and the reply to the release. *)
Held(w) == pc[w] \in {"recheck", "undo", "process", "mark", "release"}
(* The processor has been started and its outcome is not recorded yet. *)
Running(w) == pc[w] \in {"process", "mark"}
RunningEvents == {ev[w] : w \in {v \in Worker : pc[v] \in {"process", "mark"}}}

LockExists(e) == lockLeft[e] > 0
Processed(e) == doneLeft[e] > 0

TypeOK ==
  /\ status \in [Instance -> {"up", "stopping", "down"}]
  /\ pc \in [Worker -> PC]
  /\ ev \in [Worker -> Event \cup {NoEvent}]
  /\ age \in [Worker -> 0..HoldBound]
  /\ lockOwner \in [Event -> Instance \cup {NoInstance}]
  /\ lockLeft \in [Event -> 0..LockTTL]
  /\ taker \in [Event -> Worker \cup {NoWorker}]
  /\ doneLeft \in [Event -> 0..ProcessedTTL]
  /\ overran \subseteq Event
  /\ \A w \in Worker : pc[w] # "idle" => ev[w] \in Event

Init ==
  /\ status = [i \in Instance |-> "up"]
  /\ pc = [w \in Worker |-> "idle"]
  /\ ev = [w \in Worker |-> NoEvent]
  /\ age = [w \in Worker |-> 0]
  /\ lockOwner = [e \in Event |-> NoInstance]
  /\ lockLeft = [e \in Event |-> 0]
  /\ taker = [e \in Event |-> NoWorker]
  /\ doneLeft = [e \in Event |-> 0]
  /\ overran = {}

-----------------------------------------------------------------------------
(* How a Redis command of w can end: "ok" it was applied and answered,     *)
(* "lost" it was applied and the answer timed out, "err" it was not        *)
(* applied.  Once the context of the instance is cancelled the client      *)
(* refuses every command.                                                  *)
Outcomes(w) ==
  CASE status[InstanceOf(w)] # "up" -> {"err"}
    [] "redis" \in Faults           -> {"ok", "lost", "err"}
    [] OTHER                        -> {"ok"}

Goto(w, step) == pc' = [pc EXCEPT ![w] = step]

(* ProcessWithDedup returns: the event is out of the worker's hands. *)
Return(w) ==
  /\ pc' = [pc EXCEPT ![w] = "idle"]
  /\ ev' = [ev EXCEPT ![w] = NoEvent]
  /\ age' = [age EXCEPT ![w] = 0]

(* The worker reads an event from its instance's queue and processEvent    *)
(* hands it to ProcessWithDedup.  A worker of a stopping instance may do   *)
(* so too: its select chooses between ctx.Done and the queue.              *)
Take(w, e) ==
  /\ pc[w] = "idle"
  /\ status[InstanceOf(w)] # "down"
  /\ Goto(w, "check")
  /\ ev' = [ev EXCEPT ![w] = e]
  /\ UNCHANGED <<status, age, redis, overran>>

(* ShouldProcess, first IsProcessed: EXISTS event:processed:<key>. *)
Check(w) ==
  /\ pc[w] = "check"
  /\ \E out \in Outcomes(w) :
       IF out = "ok" /\ ~Processed(ev[w])
         THEN Goto(w, "lock") /\ UNCHANGED <<ev, age>>
         ELSE Return(w)
  /\ UNCHANGED <<status, redis, overran>>

(* Mutant: SET instead of SETNX, the key is taken over. *)
TakeOverLock(w) ==
  /\ pc[w] = "lock"
  /\ lockOwner' = [lockOwner EXCEPT ![ev[w]] = InstanceOf(w)]
  /\ lockLeft' = [lockLeft EXCEPT ![ev[w]] = LockTTL]
  /\ taker' = [taker EXCEPT ![ev[w]] = w]
  /\ Goto(w, "recheck")
  /\ age' = [age EXCEPT ![w] = 0]
  /\ UNCHANGED <<status, ev, doneLeft, overran>>

(* Mutant: the lock is given the life of the record. *)
LockWithRecordTTL(w) ==
  /\ pc[w] = "lock"
  /\ ~LockExists(ev[w])
  /\ lockOwner' = [lockOwner EXCEPT ![ev[w]] = InstanceOf(w)]
  /\ lockLeft' = [lockLeft EXCEPT ![ev[w]] = ProcessedTTL]
  /\ taker' = [taker EXCEPT ![ev[w]] = w]
  /\ Goto(w, "recheck")
  /\ age' = [age EXCEPT ![w] = 0]
  /\ UNCHANGED <<status, ev, doneLeft, overran>>

(* TryAcquireLock: SETNX event:lock:<key> instanceID EX lockTTL.  When the *)
(* key exists or the command fails the event is dropped, never retried.    *)
TryAcquireLock(w) ==
  /\ pc[w] = "lock"
  /\ \E out \in Outcomes(w) :
       /\ IF out # "err" /\ ~LockExists(ev[w])
            THEN /\ lockOwner' = [lockOwner EXCEPT ![ev[w]] = InstanceOf(w)]
                 /\ lockLeft' = [lockLeft EXCEPT ![ev[w]] = LockTTL]
                 /\ taker' = [taker EXCEPT ![ev[w]] = w]
            ELSE UNCHANGED <<lockOwner, lockLeft, taker>>
       /\ IF out = "ok" /\ ~LockExists(ev[w])
            THEN Goto(w, "recheck") /\ age' = [age EXCEPT ![w] = 0] /\ UNCHANGED ev
            ELSE Return(w)
  /\ UNCHANGED <<status, doneLeft, overran>>

(* Mutant: the lock alone decides, without the double check. *)
SkipRecheck(w) ==
  /\ pc[w] = "recheck"
  /\ Goto(w, "process")
  /\ UNCHANGED <<status, ev, age, redis, overran>>

(* ShouldProcess, second IsProcessed: another worker may have finished     *)
(* between the first check and the lock.                                   *)
Recheck(w) ==
  /\ pc[w] = "recheck"
  /\ \E out \in Outcomes(w) :
       IF out = "ok" /\ ~Processed(ev[w])
         THEN Goto(w, "process")
         ELSE Goto(w, "undo")
  /\ UNCHANGED <<status, ev, age, redis, overran>>

(* Mutant: a processor that fails skips the record. *)
RecordOnlySuccess(w) ==
  /\ pc[w] = "process"
  /\ \E step \in {"mark", "release"} : Goto(w, step)
  /\ UNCHANGED <<status, ev, age, redis, overran>>

(* The processor (doProcessEvent) returns, with or without an error. *)
Process(w) ==
  /\ pc[w] = "process"
  /\ Goto(w, "mark")
  /\ UNCHANGED <<status, ev, age, redis, overran>>

(* MarkAsProcessed: SET event:processed:<key>; a failure is only logged. *)
MarkAsProcessed(w) ==
  /\ pc[w] = "mark"
  /\ \E out \in Outcomes(w) :
       doneLeft' = IF out = "err" THEN doneLeft
                   ELSE [doneLeft EXCEPT ![ev[w]] = ProcessedTTL]
  /\ Goto(w, "release")
  /\ UNCHANGED <<status, ev, age, lockOwner, lockLeft, taker, overran>>

(* Mutant: DEL without comparing the owner. *)
DeleteAny(w) ==
  /\ lockOwner' = [lockOwner EXCEPT ![ev[w]] = NoInstance]
  /\ lockLeft' = [lockLeft EXCEPT ![ev[w]] = 0]
  /\ taker' = [taker EXCEPT ![ev[w]] = NoWorker]

(* The Lua script: delete the lock if its value is this instance's id. *)
DeleteIfOwner(w) ==
  IF LockExists(ev[w]) /\ lockOwner[ev[w]] = InstanceOf(w)
    THEN /\ lockOwner' = [lockOwner EXCEPT ![ev[w]] = NoInstance]
         /\ lockLeft' = [lockLeft EXCEPT ![ev[w]] = 0]
         /\ taker' = [taker EXCEPT ![ev[w]] = NoWorker]
    ELSE UNCHANGED <<lockOwner, lockLeft, taker>>

(* ReleaseLock, called at the end and after a negative double check; its   *)
(* error is ignored, the lock then lives until its TTL.                    *)
ReleaseLock(w) ==
  /\ pc[w] \in {"undo", "release"}
  /\ \E out \in Outcomes(w) :
       IF out = "err" THEN UNCHANGED <<lockOwner, lockLeft, taker>>
       ELSE DeleteIfOwner(w)
  /\ Return(w)
  /\ UNCHANGED <<status, doneLeft, overran>>

-----------------------------------------------------------------------------
Countdown(n) == IF n = 0 THEN 0 ELSE n - 1

(* A tick of the Redis clock; keys whose TTL ends disappear.  No worker    *)
(* spends more than HoldBound ticks before its SETNX, nor after it.        *)
Tick ==
  /\ \A w \in Worker : pc[w] # "idle" => age[w] < HoldBound
  /\ age' = [w \in Worker |-> IF pc[w] = "idle" THEN 0 ELSE age[w] + 1]
  /\ lockLeft' = [e \in Event |-> Countdown(lockLeft[e])]
  /\ lockOwner' = [e \in Event |->
                     IF lockLeft[e] <= 1 THEN NoInstance ELSE lockOwner[e]]
  /\ taker' = [e \in Event |-> IF lockLeft[e] <= 1 THEN NoWorker ELSE taker[e]]
  /\ doneLeft' = [e \in Event |-> Countdown(doneLeft[e])]
  /\ overran' = {ev[w] : w \in {v \in Worker : Held(v) /\ (ev[v] \in overran \/ age[v] + 1 >= LockTTL)}}
  /\ UNCHANGED <<status, pc, ev>>

(* shutdown() cancels the context the workers run under. *)
Stop(i) ==
  /\ "stop" \in Faults
  /\ status[i] = "up"
  /\ status' = [status EXCEPT ![i] = "stopping"]
  /\ UNCHANGED <<workers, redis, overran>>

(* The process ends with its workers wherever they are: a crash, or the    *)
(* end of shutdown, which waits at most a few seconds for them.            *)
Die(i) ==
  /\ \/ status[i] = "up" /\ "crash" \in Faults
     \/ status[i] = "stopping"
  /\ status' = [status EXCEPT ![i] = "down"]
  /\ pc' = [w \in Worker |-> IF InstanceOf(w) = i THEN "idle" ELSE pc[w]]
  /\ ev' = [w \in Worker |-> IF InstanceOf(w) = i THEN NoEvent ELSE ev[w]]
  /\ age' = [w \in Worker |-> IF InstanceOf(w) = i THEN 0 ELSE age[w]]
  /\ UNCHANGED <<redis, overran>>

(* The process is started again.  NewDeduplicator draws a fresh uuid: the  *)
(* name i is reused once no key carries it any more.                       *)
Restart(i) ==
  /\ status[i] = "down"
  /\ \A e \in Event : lockOwner[e] # i
  /\ status' = [status EXCEPT ![i] = "up"]
  /\ UNCHANGED <<workers, redis, overran>>

-----------------------------------------------------------------------------
Step(w) ==
  \/ Check(w) \/ TryAcquireLock(w) \/ Recheck(w) \/ Process(w)
  \/ MarkAsProcessed(w) \/ ReleaseLock(w)

Next ==
  \/ \E w \in Worker : Step(w) \/ \E e \in Event : Take(w, e)
  \/ \E i \in Instance : Stop(i) \/ Die(i) \/ Restart(i)
  \/ Tick

Spec == Init /\ [][Next]_vars

(* A goroutine that can run is eventually run; time passes.  Nothing makes *)
(* an instance take an event, stop or die.                                 *)
FairSpec == Spec /\ WF_vars(Tick) /\ \A w \in Worker : WF_vars(Step(w))

-----------------------------------------------------------------------------
(* Properties *)

(* Two workers, of one instance or of two, never run the processor of the  *)
(* same event at the same time (ProcessWithDedup's lock is exclusive).     *)
OneProcessor ==
  \A v, w \in Worker : v # w /\ Running(v) /\ Running(w) => ev[v] # ev[w]

(* The same, unless some worker has kept the event's lock for its whole    *)
(* TTL: nothing else, no lost answer, failed command, crash, restart or    *)
(* late release, lets two workers run the same event.                      *)
OverlapNeedsOverrun ==
  \A v, w \in Worker :
    v # w /\ Running(v) /\ Running(w) /\ ev[v] = ev[w] => ev[v] \in overran

(* The deduplicator as a whole is the promise of module NotifyOnce: a      *)
(* processor starts only while no other one of its event runs and no       *)
(* record of an earlier run is alive, in whatever order the Redis commands *)
(* of the workers interleave, fail, lose their answer or are cut off; it   *)
(* lapses for an event while its lock is overrun.                          *)
Once == INSTANCE NotifyOnce
          WITH running <- RunningEvents, quiet <- doneLeft, lapsed <- overran
NotifiesOnce == Once!NSpec

(* ReleaseLock deletes the lock of a worker only on behalf of that worker  *)
(* ("Only release if we own the lock").                                    *)
ReleasesOwnLock ==
  [][\A w \in Worker : ReleaseLock(w) =>
       \A e \in Event : LockExists(e) /\ ~LockExists(e)' => taker[e] = w]_vars

(* What the comparison with the instance's id does ensure: the lock that   *)
(* is deleted is the worker's own or, only once a lock of the event was    *)
(* overrun, that of another worker of the same instance.                   *)
ReleasesOwnOrSiblings ==
  [][\A w \in Worker : ReleaseLock(w) =>
       \A e \in Event : LockExists(e) /\ ~LockExists(e)' =>
         \/ taker[e] = w
         \/ e \in overran /\ taker[e] \in {InstanceOf(w)} \X Slot]_vars

(* Without faults, an event that some worker took is recorded as processed *)
(* (or was already): dropping a copy because the lock is held or the       *)
(* record exists never loses the event.                                    *)
TakenIsProcessed ==
  \A e \in Event, w \in Worker :
    (pc[w] = "check" /\ ev[w] = e) ~> Processed(e)
=============================================================================

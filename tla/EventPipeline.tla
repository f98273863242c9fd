---------------------------- MODULE EventPipeline ----------------------------
(***************************************************************************)
(* One instance of the program from the socket to the notification, and    *)
(* its shutdown: internal/handler/handler.go around the grouper of module  *)
(* TxGrouper, driven by the read loop of internal/websocket/client.go and  *)
(* taken down by shutdown() of cmd/app/main.go.                            *)
(*                                                                         *)
(*   readLoop --Handle--> eventQueue --worker--> sendNotification          *)
(*                                          \--> TxGrouper                 *)
(*   worker or timer callback --> multiHopQueue --> multiHopWorker         *)
(*                                                                         *)
(* Both queues are bounded channels written with select/default: a full    *)
(* queue drops.  Writing to a closed channel panics, select or not, and a  *)
(* panic in any goroutine ends the process.                                *)
(***************************************************************************)
EXTENDS TxGrouper, Sequences

CONSTANTS Plain,        \* events that are not swaps: notified by the worker itself
          Worker,       \* worker goroutines
          QueueSize,    \* capacity of each channel (cfg.QueueSize)
          MayShutDown   \* does a signal arrive?

Event == Swap \cup Plain

ASSUME PlainAssumption == Plain \cap Swap = {} /\ NoSwap \notin Plain
ASSUME QueueAssumption == QueueSize \in Nat \ {0} /\ MayShutDown \in BOOLEAN

VARIABLES
  seen,       \* events read from the socket so far
  incoming,   \* the event readLoop is about to pass to Handle, or NoSwap
  eventQueue, \* Seq(Event)
  hand,       \* [Worker -> Event], the event a worker works on, or NoSwap
  stage,      \* [Worker -> "idle", "dedup", "offer" or "exited"]
  offering,   \* MultiHopSwaps built and about to be sent to multiHopQueue
  hopQueue,   \* multiHopQueue
  hopHand,    \* what multiHopWorker is sending; {}: nothing
  hopExited,  \* has multiHopWorker returned?
  sent,       \* events reported by a notification that was sent
  lost,       \* events dropped or given up on the way
  phase,      \* progress of shutdown()
  panicked

flow == <<seen, incoming, eventQueue, hand, stage, offering, hopQueue, hopHand,
          hopExited, sent, lost>>
pvars == <<gvars, flow, phase, panicked>>

(* "run", then shutdown: context cancelled, WebSocket closed, eventQueue   *)
(* closed, multiHopQueue closed, Stop returned.                            *)
Phases == <<"run", "cancelled", "wsClosed", "eventsClosed", "hopsClosed", "ended">>
Reached(p) == \E i, j \in 1..6 : i <= j /\ Phases[i] = p /\ Phases[j] = phase
Live == ~panicked /\ phase # "ended"

PipelineTypeOK ==
  /\ GrouperTypeOK
  /\ seen \subseteq Event /\ incoming \in Event \cup {NoSwap}
  /\ eventQueue \in Seq(Event) /\ Len(eventQueue) <= QueueSize
  /\ hand \in [Worker -> Event \cup {NoSwap}]
  /\ stage \in [Worker -> {"idle", "dedup", "offer", "exited"}]
  /\ offering \subseteq built
  /\ hopQueue \in Seq(built) /\ Len(hopQueue) <= QueueSize
  /\ hopHand \in built \cup {{}} /\ hopExited \in BOOLEAN
  /\ sent \subseteq Event /\ lost \subseteq Event
  /\ phase \in {Phases[i] : i \in 1..6} /\ panicked \in BOOLEAN

PipelineInit ==
  /\ GrouperInit
  /\ seen = {} /\ incoming = NoSwap /\ eventQueue = <<>>
  /\ hand = [w \in Worker |-> NoSwap] /\ stage = [w \in Worker |-> "idle"]
  /\ offering = {} /\ hopQueue = <<>> /\ hopHand = {} /\ hopExited = FALSE
  /\ sent = {} /\ lost = {}
  /\ phase = "run" /\ panicked = FALSE

-----------------------------------------------------------------------------
(* readLoop: a read that returned before the connection was closed yields  *)
(* an event even if the context is cancelled meanwhile.                    *)
ReadMessage(e) ==
  /\ Live /\ ~Reached("wsClosed")
  /\ incoming = NoSwap /\ e \notin seen
  /\ seen' = seen \cup {e} /\ incoming' = e
  /\ UNCHANGED <<gvars, eventQueue, hand, stage, offering, hopQueue, hopHand,
                 hopExited, sent, lost, phase, panicked>>

(* Mutant: the newest event is queued even if the queue is full. *)
QueueAnyway ==
  /\ eventQueue' = Append(eventQueue, incoming)
  /\ UNCHANGED <<lost, panicked>>

(* select { case eventQueue <- event: default: drop } *)
QueueOrDrop ==
  CASE Reached("eventsClosed") ->
         panicked' = TRUE /\ UNCHANGED <<eventQueue, lost>>
    [] ~Reached("eventsClosed") /\ Len(eventQueue) < QueueSize ->
         eventQueue' = Append(eventQueue, incoming) /\ UNCHANGED <<lost, panicked>>
    [] OTHER ->
         lost' = lost \cup {incoming} /\ UNCHANGED <<eventQueue, panicked>>

Handle ==
  /\ Live /\ incoming # NoSwap
  /\ QueueOrDrop
  /\ incoming' = NoSwap
  /\ UNCHANGED <<gvars, seen, hand, stage, offering, hopQueue, hopHand, hopExited,
                 sent, phase>>

(* worker: receive an event.  When the context is done as well, select     *)
(* picks either branch.                                                    *)
WorkerTakes(w) ==
  /\ Live /\ stage[w] = "idle" /\ eventQueue # <<>>
  /\ hand' = [hand EXCEPT ![w] = Head(eventQueue)]
  /\ stage' = [stage EXCEPT ![w] = "dedup"]
  /\ eventQueue' = Tail(eventQueue)
  /\ UNCHANGED <<gvars, seen, incoming, offering, hopQueue, hopHand, hopExited,
                 sent, lost, phase, panicked>>

WorkerExits(w) ==
  /\ Live /\ stage[w] = "idle"
  /\ phase # "run" \/ (Reached("eventsClosed") /\ eventQueue = <<>>)
  /\ stage' = [stage EXCEPT ![w] = "exited"]
  /\ UNCHANGED <<gvars, seen, incoming, eventQueue, hand, offering, hopQueue,
                 hopHand, hopExited, sent, lost, phase, panicked>>

BackToIdle(w) ==
  /\ hand' = [hand EXCEPT ![w] = NoSwap]
  /\ stage' = [stage EXCEPT ![w] = "idle"]

(* processEvent once the context is cancelled: every Redis command of the  *)
(* dedup check fails, the error is logged and the event is gone.           *)
WorkerGivesUp(w) ==
  /\ Live /\ stage[w] = "dedup" /\ phase # "run"
  /\ lost' = lost \cup {hand[w]}
  /\ BackToIdle(w)
  /\ UNCHANGED <<gvars, seen, incoming, eventQueue, offering, hopQueue, hopHand,
                 hopExited, sent, phase, panicked>>

(* doProcessEvent for an event that yields a message of its own. *)
WorkerNotifies(w) ==
  /\ Live /\ stage[w] = "dedup" /\ hand[w] \in Plain /\ phase = "run"
  /\ sent' = sent \cup {hand[w]}
  /\ BackToIdle(w)
  /\ UNCHANGED <<gvars, seen, incoming, eventQueue, offering, hopQueue, hopHand,
                 hopExited, lost, phase, panicked>>

(* Mutant: the worker forgets to queue what AddSwap returned. *)
GroupOnly(w) ==
  /\ Live /\ stage[w] = "dedup" /\ hand[w] \in Swap
  /\ AddSwap(hand[w])
  /\ BackToIdle(w)
  /\ UNCHANGED <<offering, seen, incoming, eventQueue, hopQueue, hopHand,
                 hopExited, sent, lost, phase, panicked>>

(* handleTransaction: the swap joins its group; if that completes it the   *)
(* worker goes on to queue the result.  The dedup check before it may have *)
(* passed just before the context was cancelled.                           *)
WorkerGroups(w) ==
  /\ Live /\ stage[w] = "dedup" /\ hand[w] \in Swap
  /\ AddSwap(hand[w])
  /\ offering' = offering \cup (built' \ built)
  /\ IF built' = built THEN BackToIdle(w)
     ELSE stage' = [stage EXCEPT ![w] = "offer"] /\ UNCHANGED hand
  /\ UNCHANGED <<seen, incoming, eventQueue, hopQueue, hopHand, hopExited,
                 sent, lost, phase, panicked>>

(* The callback of a due timer: finalizeTransaction up to onFinalize. *)
CallbackRuns(s) ==
  /\ Live
  /\ FinalizeTransaction(s)
  /\ offering' = offering \cup (built' \ built)
  /\ UNCHANGED <<seen, incoming, eventQueue, hand, stage, hopQueue, hopHand,
                 hopExited, sent, lost, phase, panicked>>

(* select { case multiHopQueue <- b: default: drop } *)
OfferHop(b) ==
  /\ offering' = offering \ {b}
  /\ CASE Reached("hopsClosed") ->
            panicked' = TRUE /\ UNCHANGED <<hopQueue, lost>>
       [] ~Reached("hopsClosed") /\ Len(hopQueue) < QueueSize ->
            hopQueue' = Append(hopQueue, b) /\ UNCHANGED <<lost, panicked>>
       [] OTHER ->
            lost' = lost \cup b /\ UNCHANGED <<hopQueue, panicked>>
  /\ UNCHANGED <<gvars, seen, incoming, eventQueue, hopHand, hopExited, sent, phase>>

Offers(w, b) == stage[w] = "offer" /\ hand[w] \in b

(* The worker that completed the group queues it. *)
WorkerOffers(w) ==
  /\ Live
  /\ \E b \in offering : Offers(w, b) /\ OfferHop(b)
  /\ BackToIdle(w)

(* onFinalize, in the goroutine of the timer. *)
CallbackOffers ==
  /\ Live
  /\ \E b \in offering : (\A w \in Worker : ~Offers(w, b)) /\ OfferHop(b)
  /\ UNCHANGED <<hand, stage>>

(* multiHopWorker *)
HopTakes ==
  /\ Live /\ ~hopExited /\ hopHand = {} /\ hopQueue # <<>>
  /\ hopHand' = Head(hopQueue) /\ hopQueue' = Tail(hopQueue)
  /\ UNCHANGED <<gvars, seen, incoming, eventQueue, hand, stage, offering,
                 hopExited, sent, lost, phase, panicked>>

(* processMultiHopSwap; a cancelled context makes the HTTP request fail. *)
HopNotifies ==
  /\ Live /\ hopHand # {}
  /\ IF phase = "run" THEN sent' = sent \cup hopHand /\ UNCHANGED lost
                      ELSE lost' = lost \cup hopHand /\ UNCHANGED sent
  /\ hopHand' = {}
  /\ UNCHANGED <<gvars, seen, incoming, eventQueue, hand, stage, offering, hopQueue,
                 hopExited, phase, panicked>>

HopExits ==
  /\ Live /\ ~hopExited /\ hopHand = {}
  /\ phase # "run" \/ (Reached("hopsClosed") /\ hopQueue = <<>>)
  /\ hopExited' = TRUE
  /\ UNCHANGED <<gvars, seen, incoming, eventQueue, hand, stage, offering, hopQueue,
                 hopHand, sent, lost, phase, panicked>>

(* The grouper's own steps. *)
GrouperRuns ==
  /\ Live
  /\ (\E s \in Swap : TimerFires(s)) \/ Cleanup \/ GrouperTick
  /\ UNCHANGED <<flow, phase, panicked>>

(* shutdown(): the steps follow each other; the last one, Stop's wait for  *)
(* the workers, also ends by its timeout.                                  *)
ShutdownStep ==
  /\ Live
  /\ phase = "run" => MayShutDown
  /\ \E i \in 1..5 : phase = Phases[i] /\ phase' = Phases[i + 1]
  /\ UNCHANGED <<gvars, flow, panicked>>

-----------------------------------------------------------------------------
WorkerStep(w) ==
  \/ WorkerTakes(w) \/ WorkerExits(w) \/ WorkerGivesUp(w) \/ WorkerNotifies(w)
  \/ WorkerGroups(w) \/ WorkerOffers(w)

PipelineNext ==
  \/ \E e \in Event : ReadMessage(e)
  \/ Handle
  \/ \E w \in Worker : WorkerStep(w)
  \/ \E s \in Swap : CallbackRuns(s)
  \/ CallbackOffers
  \/ HopTakes \/ HopNotifies \/ HopExits
  \/ GrouperRuns
  \/ ShutdownStep

PipelineSpec == PipelineInit /\ [][PipelineNext]_pvars

(* Every goroutine that can run does, timers included, and a shutdown that *)
(* began goes on; nothing makes events or the signal come.                 *)
PipelineFairSpec ==
  /\ PipelineSpec
  /\ WF_pvars(Handle) /\ WF_pvars(CallbackOffers)
  /\ WF_pvars(HopTakes) /\ WF_pvars(HopNotifies)
  /\ WF_pvars(Live /\ GrouperTick /\ UNCHANGED <<flow, phase, panicked>>)
  /\ \A s \in Swap : /\ WF_pvars(CallbackRuns(s))
                     /\ WF_pvars(Live /\ TimerFires(s) /\ UNCHANGED <<flow, phase, panicked>>)
  /\ \A w \in Worker : WF_pvars(WorkerStep(w))

-----------------------------------------------------------------------------
(* Properties *)

Queued == {eventQueue[i] : i \in DOMAIN eventQueue}
InHands == {hand[w] : w \in {v \in Worker : stage[v] = "dedup"}}
HopQueued == UNION {hopQueue[i] : i \in DOMAIN hopQueue}

(* The places an event can be in between its arrival and its end. *)
Places == <<{incoming} \ {NoSwap}, Queued, InHands, Grouped, UNION offering,
            HopQueued, hopHand, sent, lost \cup removed>>

(* Every event that was read is in exactly one place as long as the        *)
(* process lives: handed over between read loop, workers, timer callbacks, *)
(* grouper and multi-hop worker it is neither duplicated nor forgotten.    *)
OnePlaceEach ==
  ~panicked =>
    \A e \in seen : Cardinality({i \in DOMAIN Places : e \in Places[i]}) = 1

(* Unless a shutdown begins, an event in the queue is reported, or its     *)
(* built swap met a full multi-hop queue.                                  *)
QueuedIsReported ==
  \A e \in Event :
    (e \in Queued) ~> (e \in sent \cup lost \cup removed \/ phase # "run")

(* "Close WebSocket first (stops incoming events)": nothing is sent to the *)
(* handler's channels once Stop has closed them.                           *)
NoSendAfterClose == ~panicked

(* "Stop event handler (drain queue)": when Stop has closed the queue and  *)
(* every worker has returned, none of the accepted events is left in it.   *)
StopDrains ==
  Reached("eventsClosed") /\ ~panicked /\ (\A w \in Worker : stage[w] = "exited")
    => Queued = {}
=============================================================================

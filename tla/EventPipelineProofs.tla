-------------------------- MODULE EventPipelineProofs --------------------------
(***************************************************************************)
(* Proofs about module EventPipeline, for any events, workers, queue size, *)
(* window and limits: nothing is duplicated or forgotten on the way from   *)
(* the socket to the notification.  The grouper's part is what module      *)
(* TxGrouperProofs has shown.                                              *)
(***************************************************************************)
EXTENDS EventPipeline, TxGrouperProofs

(* A worker in the middle of an event has one. *)
HandInv == \A w \in Worker : stage[w] = "dedup" => hand[w] \in Event

(* An event is read once, and is then in one place. *)
One == \A e \in seen : \E i \in 1..9 : \A j \in 1..9 : e \in Places[j] <=> j = i

Inside == \A i \in 1..9 : Places[i] \subseteq seen

(* No event is twice in a queue or in two hands: it leaves a place when it *)
(* is taken from there once.                                               *)
EventsOnce == \A i, j \in 1..Len(eventQueue) : eventQueue[i] = eventQueue[j] => i = j
BatchesOnce == \A i, j \in 1..Len(hopQueue) : hopQueue[i] = hopQueue[j] => i = j
HandsOnce ==
  \A v, w \in Worker : stage[v] = "dedup" /\ stage[w] = "dedup" /\ hand[v] = hand[w] => v = w

FlowInv == One /\ Inside /\ EventsOnce /\ BatchesOnce /\ HandsOnce

PInv == PipelineTypeOK /\ GInv /\ HandInv /\ (~panicked => FlowInv)

LEMMA NoSwapIsNone == NoSwap \notin Event
  BY SwapAssumption, PlainAssumption DEF Event

-----------------------------------------------------------------------------
(* The nine places, by name. *)
LEMMA PlaceValues ==
  /\ DOMAIN Places = 1..9
  /\ Places[1] = {incoming} \ {NoSwap} /\ Places[2] = Queued /\ Places[3] = InHands
  /\ Places[4] = Grouped /\ Places[5] = UNION offering /\ Places[6] = HopQueued
  /\ Places[7] = hopHand /\ Places[8] = sent /\ Places[9] = lost \cup removed
  BY DEF Places

LEMMA NextPlaceValues ==
  /\ Places'[1] = {incoming'} \ {NoSwap} /\ Places'[2] = Queued'
  /\ Places'[3] = InHands' /\ Places'[4] = Grouped'
  /\ Places'[5] = (UNION offering)' /\ Places'[6] = HopQueued'
  /\ Places'[7] = hopHand' /\ Places'[8] = sent' /\ Places'[9] = (lost \cup removed)'
  BY DEF Places

LEMMA Nine ==
  \A j \in 1..9 : j = 1 \/ j = 2 \/ j = 3 \/ j = 4 \/ j = 5 \/ j = 6 \/ j = 7 \/ j = 8 \/ j = 9
  OBVIOUS

(* A step that gathers the events X in place k, wherever they were. *)
LEMMA Gathered ==
  ASSUME One, Inside, seen' = seen, NEW k \in 1..9, NEW X, X \subseteq seen,
         Places'[k] = Places[k] \cup X,
         \A j \in 1..9 : j # k => Places'[j] = Places[j] \ X
  PROVE  One' /\ Inside'
<1>1. ASSUME NEW e \in seen PROVE \E n \in 1..9 : \A j \in 1..9 : e \in Places'[j] <=> j = n
  <2>1. PICK n \in 1..9 : \A j \in 1..9 : e \in Places[j] <=> j = n
    BY DEF One
  <2>2. CASE e \in X
    <3>1. \A j \in 1..9 : e \in Places'[j] <=> j = k
      BY <2>2
    <3> QED
      BY <3>1
  <2>3. CASE e \notin X
    <3>1. \A j \in 1..9 : e \in Places'[j] <=> e \in Places[j]
      BY <2>3
    <3> QED
      BY <2>1, <3>1
  <2> QED
    BY <2>2, <2>3
<1>2. \A j \in 1..9 : Places'[j] \subseteq seen
  BY DEF Inside
<1> QED
  BY <1>1, <1>2 DEF One, Inside

(* A step that moves nothing. *)
LEMMA NotMoved ==
  ASSUME One, Inside, seen' = seen, \A j \in 1..9 : Places'[j] = Places[j]
  PROVE  One' /\ Inside'
  BY DEF One, Inside

(* Two places have nothing in common. *)
LEMMA Apart ==
  ASSUME One, Inside, NEW i \in 1..9, NEW k \in 1..9, i # k
  PROVE  Places[i] \cap Places[k] = {}
<1> SUFFICES ASSUME NEW e \in Places[i], e \in Places[k] PROVE FALSE
  OBVIOUS
<1>1. e \in seen
  BY DEF Inside
<1>2. PICK n \in 1..9 : \A j \in 1..9 : e \in Places[j] <=> j = n
  BY <1>1 DEF One
<1> QED
  BY <1>2

(* A step that moves the events X from place i to place k. *)
LEMMA Moved ==
  ASSUME One, Inside, seen' = seen,
         NEW i \in 1..9, NEW k \in 1..9, i # k, NEW X, X \subseteq Places[i],
         Places'[i] = Places[i] \ X, Places'[k] = Places[k] \cup X,
         \A j \in 1..9 : j # i /\ j # k => Places'[j] = Places[j]
  PROVE  One' /\ Inside'
<1>1. X \subseteq seen
  BY DEF Inside
<1>2. \A j \in 1..9 : j # k => Places'[j] = Places[j] \ X
  <2>1. \A j \in 1..9 : j # i => Places[i] \cap Places[j] = {}
    BY Apart
  <2> QED
    BY <2>1
<1> QED
  BY <1>1, <1>2, Gathered

-----------------------------------------------------------------------------
(* What the grouper's sections move.                                       *)
LEMMA AddSwapMoves ==
  ASSUME GInv, NEW s \in Swap, AddSwap(s)
  PROVE  /\ s \notin Added /\ removed' = removed
         /\ \/ built' = built /\ Grouped' = Grouped \cup {s}
            \/ \E g \in SUBSET Grouped :
                 /\ built' = built \cup {g \cup {s}} /\ g \cup {s} \notin built
                 /\ Grouped' = Grouped \ g
<1> DEFINE t == TxOf[s]
<1>1. t \in Tx /\ s \notin Added /\ removed' = removed
  BY SwapAssumption DEF AddSwap, Added
<1>2. CASE Full(group[t] \cup {s})
  <2>1. /\ group' = [group EXCEPT ![t] = {}] /\ built' = built \cup {group[t] \cup {s}}
    BY <1>2 DEF AddSwap, BuildMultiHopSwap
  <2>2. \A u \in Tx : group'[u] = IF u = t THEN {} ELSE group[u]
    BY <2>1 DEF GInv, GrouperTypeOK
  <2>3. \A u \in Tx \ {t} : group[u] \cap group[t] = {}
    BY <1>1 DEF GInv, EntryInv
  <2>4. Grouped' = Grouped \ group[t] /\ group[t] \subseteq Grouped
    BY <1>1, <2>2, <2>3 DEF Grouped
  <2>5. group[t] \cup {s} \notin built
    BY <1>1 DEF GInv, EachSwapOnce, Reported
  <2> QED
    BY <1>1, <2>1, <2>4, <2>5
<1>3. CASE ~Full(group[t] \cup {s})
  <2>1. group' = [group EXCEPT ![t] = group[t] \cup {s}] /\ built' = built
    BY <1>3 DEF AddSwap
  <2>2. \A u \in Tx : group'[u] = IF u = t THEN group[t] \cup {s} ELSE group[u]
    BY <2>1 DEF GInv, GrouperTypeOK
  <2>3. Grouped' = Grouped \cup {s}
    BY <1>1, <2>2 DEF Grouped
  <2> QED
    BY <1>1, <2>1, <2>3
<1> QED
  BY <1>2, <1>3

LEMMA FinalizeMoves ==
  ASSUME GInv, NEW s \in Swap, FinalizeTransaction(s)
  PROVE  /\ removed' = removed
         /\ \/ built' = built /\ Grouped' = Grouped
            \/ \E g \in SUBSET Grouped :
                 /\ built' = built \cup {g} /\ g \notin built
                 /\ Grouped' = Grouped \ g
<1> DEFINE t == TxOf[s]
<1>1. t \in Tx /\ removed' = removed
  BY SwapAssumption DEF FinalizeTransaction
<1>2. CASE group[t] = {}
  BY <1>1, <1>2 DEF FinalizeTransaction, Grouped
<1>3. CASE group[t] # {}
  <2>1. /\ group' = [group EXCEPT ![t] = {}] /\ built' = built \cup {group[t]}
    BY <1>3 DEF FinalizeTransaction, BuildMultiHopSwap
  <2>2. \A u \in Tx : group'[u] = IF u = t THEN {} ELSE group[u]
    BY <2>1 DEF GInv, GrouperTypeOK
  <2>3. \A u \in Tx \ {t} : group[u] \cap group[t] = {}
    BY <1>1 DEF GInv, EntryInv
  <2>4. Grouped' = Grouped \ group[t] /\ group[t] \subseteq Grouped
    BY <1>1, <2>2, <2>3 DEF Grouped
  <2>5. group[t] \notin built
    BY <1>1, <1>3 DEF GInv, EachSwapOnce, Reported
  <2> QED
    BY <1>1, <2>1, <2>4, <2>5
<1> QED
  BY <1>2, <1>3

LEMMA CleanupMoves ==
  ASSUME GInv, Cleanup
  PROVE  /\ built' = built
         /\ \E g \in SUBSET Grouped : Grouped' = Grouped \ g /\ removed' = removed \cup g
<1> DEFINE Gone == UNION {group[t] : t \in Stale}
<1>1. Stale \subseteq Tx
  BY DEF Stale
<1>2. \A t \in Tx : group'[t] = IF t \in Stale THEN {} ELSE group[t]
  BY DEF Cleanup
<1>3. \A t \in Tx \ Stale : group[t] \cap Gone = {}
  BY <1>1 DEF GInv, EntryInv
<1>4. Grouped' = Grouped \ Gone /\ Gone \subseteq Grouped
  BY <1>1, <1>2, <1>3 DEF Grouped
<1> QED
  BY <1>4 DEF Cleanup

(* Batches built are not empty and have no swap in common. *)
LEMMA Batches ==
  ASSUME GInv
  PROVE  (\A b \in built : b # {}) /\ (\A a, b \in built : a # b => a \cap b = {})
  BY DEF GInv, BuiltWellFormed, EachSwapOnce

-----------------------------------------------------------------------------
(* Queues *)

LEMMA Appended ==
  ASSUME NEW S, NEW q \in Seq(S), NEW x \in S
  PROVE  /\ Append(q, x) \in Seq(S) /\ Len(Append(q, x)) = Len(q) + 1
         /\ {Append(q, x)[i] : i \in DOMAIN Append(q, x)} = {q[i] : i \in DOMAIN q} \cup {x}
         /\ (\A i, j \in 1..Len(q) : q[i] = q[j] => i = j) /\ x \notin {q[i] : i \in DOMAIN q}
              => \A i, j \in 1..Len(Append(q, x)) : Append(q, x)[i] = Append(q, x)[j] => i = j
<1>1. /\ Append(q, x) \in Seq(S) /\ Len(Append(q, x)) = Len(q) + 1 /\ Len(q) \in Nat
      /\ DOMAIN q = 1..Len(q) /\ DOMAIN Append(q, x) = 1..(Len(q) + 1)
      /\ \A i \in 1..Len(q) : Append(q, x)[i] = q[i]
      /\ Append(q, x)[Len(q) + 1] = x
  OBVIOUS
<1>2. {Append(q, x)[i] : i \in DOMAIN Append(q, x)} = {q[i] : i \in DOMAIN q} \cup {x}
  <2>1. \A i \in 1..(Len(q) + 1) : i \in 1..Len(q) \/ i = Len(q) + 1
    BY <1>1
  <2>2. Len(q) + 1 \in 1..(Len(q) + 1) /\ \A i \in 1..Len(q) : i \in 1..(Len(q) + 1)
    BY <1>1
  <2> HIDE <1>1
  <2>3. /\ DOMAIN q = 1..Len(q) /\ DOMAIN Append(q, x) = 1..(Len(q) + 1)
        /\ \A i \in 1..Len(q) : Append(q, x)[i] = q[i]
        /\ Append(q, x)[Len(q) + 1] = x
    BY <1>1
  <2> QED
    BY <2>1, <2>2, <2>3
<1>3. ASSUME \A i, j \in 1..Len(q) : q[i] = q[j] => i = j, x \notin {q[i] : i \in DOMAIN q},
             NEW i \in 1..(Len(q) + 1), NEW j \in 1..(Len(q) + 1),
             Append(q, x)[i] = Append(q, x)[j]
      PROVE  i = j
  BY <1>1, <1>3
<1> QED
  BY <1>1, <1>2, <1>3

LEMMA Taken ==
  ASSUME NEW S, NEW q \in Seq(S), q # <<>>,
         \A i, j \in 1..Len(q) : q[i] = q[j] => i = j
  PROVE  /\ Head(q) \in S /\ Tail(q) \in Seq(S) /\ Len(Tail(q)) = Len(q) - 1 /\ Len(q) \in Nat \ {0}
         /\ Head(q) \in {q[i] : i \in DOMAIN q}
         /\ {Tail(q)[i] : i \in DOMAIN Tail(q)} = {q[i] : i \in DOMAIN q} \ {Head(q)}
         /\ \A i, j \in 1..Len(Tail(q)) : Tail(q)[i] = Tail(q)[j] => i = j
<1>1. /\ Head(q) \in S /\ Tail(q) \in Seq(S) /\ Len(Tail(q)) = Len(q) - 1
      /\ Len(q) \in Nat \ {0} /\ Head(q) = q[1]
      /\ DOMAIN q = 1..Len(q) /\ DOMAIN Tail(q) = 1..(Len(q) - 1)
      /\ \A i \in 1..(Len(q) - 1) : Tail(q)[i] = q[i + 1]
  OBVIOUS
<1>2. ASSUME NEW i \in 1..(Len(q) - 1)
      PROVE  i + 1 \in 1..Len(q) /\ Tail(q)[i] = q[i + 1] /\ q[i + 1] # Head(q)
  BY <1>1
<1>3. ASSUME NEW i \in 1..Len(q), q[i] # Head(q)
      PROVE  \E j \in 1..(Len(q) - 1) : Tail(q)[j] = q[i]
  <2>1. i # 1 /\ i - 1 \in 1..(Len(q) - 1) /\ (i - 1) + 1 = i
    BY <1>1, <1>3
  <2> QED
    BY <1>1, <2>1
<1>4. {Tail(q)[i] : i \in 1..(Len(q) - 1)} = {q[i] : i \in 1..Len(q)} \ {Head(q)}
  <2>1. ASSUME NEW i \in 1..(Len(q) - 1)
        PROVE  Tail(q)[i] \in {q[j] : j \in 1..Len(q)} \ {Head(q)}
    BY <1>2
  <2>2. ASSUME NEW i \in 1..Len(q), q[i] # Head(q)
        PROVE  q[i] \in {Tail(q)[j] : j \in 1..(Len(q) - 1)}
    BY <1>3, <2>2
  <2> QED
    <3>1. \A x : x \in {Tail(q)[i] : i \in 1..(Len(q) - 1)}
                 => x \in {q[i] : i \in 1..Len(q)} \ {Head(q)}
      BY <2>1, Zenon
    <3>2. ASSUME NEW x \in {q[i] : i \in 1..Len(q)} \ {Head(q)}
          PROVE  x \in {Tail(q)[i] : i \in 1..(Len(q) - 1)}
      <4>1. PICK i \in 1..Len(q) : x = q[i]
        BY Zenon
      <4>2. q[i] # Head(q)
        BY <4>1
      <4> QED
        BY <2>2, <4>1, <4>2
    <3> QED
      BY <3>1, <3>2, Zenon
<1>5. Head(q) \in {q[i] : i \in 1..Len(q)}
  <2>1. 1 \in 1..Len(q) /\ Head(q) = q[1]
    BY <1>1
  <2> QED
    BY <2>1
<1>6. \A i, j \in 1..Len(Tail(q)) : Tail(q)[i] = Tail(q)[j] => i = j
  BY <1>1
<1> QED
  <2>1. {Tail(q)[i] : i \in DOMAIN Tail(q)} = {q[i] : i \in DOMAIN q} \ {Head(q)}
    BY <1>1, <1>4, Zenon
  <2>2. Head(q) \in {q[i] : i \in DOMAIN q}
    BY <1>1, <1>5, Zenon
  <2> QED
    BY <1>1, <1>6, <2>1, <2>2

-----------------------------------------------------------------------------
(* Types *)

(* A bounded queue, after what may be an element more. *)
LEMMA QueueTyped ==
  ASSUME NEW S, NEW q \in Seq(S), NEW x \in S, Len(q) <= QueueSize, NEW r,
         r = q \/ (Len(q) < QueueSize /\ r = Append(q, x))
  PROVE  r \in Seq(S) /\ Len(r) <= QueueSize
<1>1. /\ Append(q, x) \in Seq(S) /\ Len(Append(q, x)) = Len(q) + 1
      /\ Len(q) \in Nat
  OBVIOUS
<1>2. CASE r = q
  BY <1>2
<1>3. CASE Len(q) < QueueSize /\ r = Append(q, x)
  BY <1>1, <1>3, QueueAssumption
<1> QED
  BY <1>2, <1>3

LEMMA MoreBatches ==
  ASSUME NEW S, NEW T, S \subseteq T, NEW q \in Seq(S)
  PROVE  q \in Seq(T)
  OBVIOUS

(* What a step of the grouper leaves to the other parts. *)
LEMMA BuiltGrows ==
  ASSUME PipelineTypeOK, [GrouperNext]_gvars
  PROVE  GrouperTypeOK' /\ built \subseteq built'
<1>1. GrouperTypeOK'
  BY GrouperTypeStep DEF PipelineTypeOK
<1>2. built \subseteq built'
  BY DEF GrouperNext, AddSwap, TimerFires, FinalizeTransaction, Cleanup, GrouperTick,
         BuildMultiHopSwap, gvars
<1> QED
  BY <1>1, <1>2

LEMMA GrouperSteps ==
  /\ \A s \in Swap : AddSwap(s) \/ TimerFires(s) \/ FinalizeTransaction(s) => GrouperNext
  /\ Cleanup \/ GrouperTick => GrouperNext
  /\ UNCHANGED gvars => [GrouperNext]_gvars
  BY DEF GrouperNext

(* The outcomes of a send with select/default. *)
LEMMA QueueOutcomes ==
  QueueOrDrop =>
    \/ panicked' = TRUE /\ UNCHANGED <<eventQueue, lost>>
    \/ /\ Len(eventQueue) < QueueSize
       /\ eventQueue' = Append(eventQueue, incoming) /\ UNCHANGED <<lost, panicked>>
    \/ lost' = lost \cup {incoming} /\ UNCHANGED <<eventQueue, panicked>>
<1> SUFFICES ASSUME QueueOrDrop
             PROVE  \/ panicked' = TRUE /\ UNCHANGED <<eventQueue, lost>>
                    \/ /\ Len(eventQueue) < QueueSize
                       /\ eventQueue' = Append(eventQueue, incoming) /\ UNCHANGED <<lost, panicked>>
                    \/ lost' = lost \cup {incoming} /\ UNCHANGED <<eventQueue, panicked>>
  OBVIOUS
<1>1. CASE Reached("eventsClosed")
  BY <1>1, Zenon DEF QueueOrDrop
<1>2. CASE ~Reached("eventsClosed") /\ Len(eventQueue) < QueueSize
  BY <1>2, Zenon DEF QueueOrDrop
<1>3. CASE ~Reached("eventsClosed") /\ ~(Len(eventQueue) < QueueSize)
  BY <1>3, Zenon DEF QueueOrDrop
<1> QED
  BY <1>1, <1>2, <1>3, Zenon

LEMMA OfferOutcomes ==
  ASSUME NEW b, OfferHop(b)
  PROVE  /\ offering' = offering \ {b}
         /\ UNCHANGED <<gvars, seen, incoming, eventQueue, hopHand, hopExited, sent, phase>>
         /\ \/ panicked' = TRUE /\ UNCHANGED <<hopQueue, lost>>
            \/ /\ Len(hopQueue) < QueueSize
               /\ hopQueue' = Append(hopQueue, b) /\ UNCHANGED <<lost, panicked>>
            \/ lost' = lost \cup b /\ UNCHANGED <<hopQueue, panicked>>
<1>1. CASE Reached("hopsClosed")
  BY <1>1, Zenon DEF OfferHop
<1>2. CASE ~Reached("hopsClosed") /\ Len(hopQueue) < QueueSize
  BY <1>2, Zenon DEF OfferHop
<1>3. CASE ~Reached("hopsClosed") /\ ~(Len(hopQueue) < QueueSize)
  BY <1>3, Zenon DEF OfferHop
<1> QED
  BY <1>1, <1>2, <1>3, Zenon

(* The rest of the type invariant, where the grouper is what it was. *)
LEMMA TypeWithGrouperSame ==
  ASSUME PipelineTypeOK, HandInv, UNCHANGED gvars,
         \/ \E e \in Event : ReadMessage(e)
         \/ Handle
         \/ \E w \in Worker : WorkerTakes(w) \/ WorkerExits(w) \/ WorkerGivesUp(w)
                             \/ WorkerNotifies(w)
         \/ HopTakes \/ HopNotifies \/ HopExits
  PROVE  PipelineTypeOK' /\ HandInv'
<1> USE NoSwapIsNone, QueueAssumption
<1> USE DEF PipelineTypeOK, HandInv
<1>0. GrouperTypeOK' /\ built' = built
  BY BuiltGrows, GrouperSteps DEF gvars
<1>1. ASSUME NEW e \in Event, ReadMessage(e) PROVE PipelineTypeOK' /\ HandInv'
  BY <1>0, <1>1 DEF ReadMessage
<1>2. ASSUME Handle PROVE PipelineTypeOK' /\ HandInv'
  <2>1. incoming \in Event
    BY <1>2 DEF Handle
  <2>2. eventQueue' \in Seq(Event) /\ Len(eventQueue') <= QueueSize
    <3>1. \/ eventQueue' = eventQueue
          \/ Len(eventQueue) < QueueSize /\ eventQueue' = Append(eventQueue, incoming)
      BY <1>2, QueueOutcomes DEF Handle
    <3> QED
      BY <2>1, <3>1, QueueTyped
  <2>3. panicked' \in BOOLEAN
    BY <1>2, QueueOutcomes, Zenon DEF Handle
  <2>4. lost' \subseteq Event
    BY <1>2, <2>1, QueueOutcomes DEF Handle
  <2> QED
    BY <1>0, <1>2, <2>2, <2>3, <2>4 DEF Handle
<1>3. ASSUME NEW w \in Worker, WorkerTakes(w) PROVE PipelineTypeOK' /\ HandInv'
  <2>1. /\ Head(eventQueue) \in Event /\ eventQueue' \in Seq(Event) /\ Len(eventQueue') <= QueueSize
    BY <1>3 DEF WorkerTakes
  <2> QED
    BY <1>0, <1>3, <2>1 DEF WorkerTakes
<1>4. ASSUME NEW w \in Worker, WorkerExits(w) PROVE PipelineTypeOK' /\ HandInv'
  BY <1>0, <1>4 DEF WorkerExits
<1>5. ASSUME NEW w \in Worker, WorkerGivesUp(w) PROVE PipelineTypeOK' /\ HandInv'
  BY <1>0, <1>5 DEF WorkerGivesUp, BackToIdle
<1>6. ASSUME NEW w \in Worker, WorkerNotifies(w) PROVE PipelineTypeOK' /\ HandInv'
  BY <1>0, <1>6 DEF WorkerNotifies, BackToIdle
<1>7. ASSUME HopTakes PROVE PipelineTypeOK' /\ HandInv'
  <2>1. /\ Head(hopQueue) \in built /\ hopQueue' \in Seq(built) /\ Len(hopQueue') <= QueueSize
    BY <1>7 DEF HopTakes
  <2> QED
    BY <1>0, <1>7, <2>1 DEF HopTakes
<1>8. ASSUME HopNotifies PROVE PipelineTypeOK' /\ HandInv'
  <2>1. hopHand \subseteq Event
    BY DEF Event, GrouperTypeOK
  <2> QED
    BY <1>0, <1>8, <2>1 DEF HopNotifies
<1>9. ASSUME HopExits PROVE PipelineTypeOK' /\ HandInv'
  BY <1>0, <1>9 DEF HopExits
<1> QED
  BY <1>1, <1>2, <1>3, <1>4, <1>5, <1>6, <1>7, <1>8, <1>9

(* Where the grouper moves, or a batch is queued. *)
LEMMA TypeWithGrouper ==
  ASSUME PipelineTypeOK, HandInv,
         \/ \E w \in Worker : WorkerGroups(w) \/ WorkerOffers(w)
         \/ \E s \in Swap : CallbackRuns(s)
         \/ CallbackOffers \/ GrouperRuns \/ ShutdownStep \/ UNCHANGED pvars
  PROVE  PipelineTypeOK' /\ HandInv'
<1> USE NoSwapIsNone, QueueAssumption
<1> USE DEF HandInv
<1> DEFINE Kept == /\ GrouperTypeOK' /\ built \subseteq built'
                   /\ hopQueue \in Seq(built') /\ hopHand \in built' \cup {{}}
<1>0. [GrouperNext]_gvars => Kept
  <2> SUFFICES ASSUME [GrouperNext]_gvars PROVE Kept
    OBVIOUS
  <2>1. GrouperTypeOK' /\ built \subseteq built'
    BY BuiltGrows
  <2>2. hopQueue \in Seq(built')
    BY <2>1, MoreBatches DEF PipelineTypeOK
  <2> QED
    BY <2>1, <2>2 DEF PipelineTypeOK
<1>1. ASSUME NEW w \in Worker, WorkerGroups(w) PROVE PipelineTypeOK' /\ HandInv'
  <2>1. Kept
    BY <1>0, <1>1, GrouperSteps DEF WorkerGroups
  <2>2. stage' \in [Worker -> {"idle", "dedup", "offer", "exited"}]
        /\ hand' \in [Worker -> Event \cup {NoSwap}]
    BY <1>1 DEF WorkerGroups, BackToIdle, PipelineTypeOK
  <2>3. HandInv'
    BY <1>1 DEF WorkerGroups, BackToIdle, PipelineTypeOK
  <2> QED
    BY <1>1, <2>1, <2>2, <2>3 DEF WorkerGroups, PipelineTypeOK
<1>2. ASSUME NEW s \in Swap, CallbackRuns(s) PROVE PipelineTypeOK' /\ HandInv'
  <2>1. Kept
    BY <1>0, <1>2, GrouperSteps DEF CallbackRuns
  <2> QED
    BY <1>2, <2>1 DEF CallbackRuns, PipelineTypeOK
<1>3. ASSUME NEW b \in offering, OfferHop(b)
      PROVE  /\ GrouperTypeOK' /\ built' = built
             /\ hopQueue' \in Seq(built') /\ Len(hopQueue') <= QueueSize
             /\ lost' \subseteq Event /\ panicked' \in BOOLEAN
             /\ offering' \subseteq built'
  <2>1. /\ Kept /\ built' = built
    BY <1>0, <1>3, GrouperSteps DEF OfferHop, gvars
  <2>2. b \in built /\ b \subseteq Event
    BY <1>3 DEF PipelineTypeOK, GrouperTypeOK, Event
  <2>3. panicked' \in BOOLEAN
    BY <1>3, OfferOutcomes, Zenon DEF PipelineTypeOK
  <2>4. lost' \in {lost, lost \cup b}
    BY <1>3, OfferOutcomes, Zenon
  <2>a. lost' \subseteq Event
    BY <2>2, <2>4 DEF PipelineTypeOK
  <2>b. hopQueue' = hopQueue \/ (Len(hopQueue) < QueueSize /\ hopQueue' = Append(hopQueue, b))
    BY <1>3, OfferOutcomes, Zenon
  <2>5. hopQueue' \in Seq(built') /\ Len(hopQueue') <= QueueSize
    <3>1. hopQueue \in Seq(built') /\ Len(hopQueue) <= QueueSize /\ b \in built'
      BY <2>1, <2>2 DEF PipelineTypeOK
    <3> QED
      BY <2>b, <3>1, QueueTyped
  <2>6. offering' \subseteq built'
    BY <1>3, <2>1, OfferOutcomes DEF PipelineTypeOK
  <2> QED
    BY <2>1, <2>3, <2>a, <2>5, <2>6
<1>4. ASSUME NEW w \in Worker, WorkerOffers(w) PROVE PipelineTypeOK' /\ HandInv'
  <2>1. PICK b \in offering : OfferHop(b)
    BY <1>4 DEF WorkerOffers
  <2>2. HandInv'
    BY <1>4 DEF WorkerOffers, BackToIdle, PipelineTypeOK
  <2> QED
    BY <1>3, <1>4, <2>1, <2>2 DEF WorkerOffers, BackToIdle, OfferHop, PipelineTypeOK
<1>5. ASSUME CallbackOffers PROVE PipelineTypeOK' /\ HandInv'
  <2>1. PICK b \in offering : OfferHop(b)
    BY <1>5 DEF CallbackOffers
  <2> QED
    BY <1>3, <1>5, <2>1 DEF CallbackOffers, OfferHop, PipelineTypeOK
<1>6. ASSUME GrouperRuns PROVE PipelineTypeOK' /\ HandInv'
  <2>1. Kept
    BY <1>0, <1>6, GrouperSteps DEF GrouperRuns
  <2> QED
    BY <1>6, <2>1 DEF GrouperRuns, PipelineTypeOK, flow
<1>7. ASSUME ShutdownStep PROVE PipelineTypeOK' /\ HandInv'
  <2>1. Kept
    BY <1>0, <1>7, GrouperSteps DEF ShutdownStep
  <2>2. phase' \in {Phases[i] : i \in 1..6}
    BY <1>7 DEF ShutdownStep
  <2> QED
    BY <1>7, <2>1, <2>2 DEF ShutdownStep, PipelineTypeOK, flow
<1>8. ASSUME UNCHANGED pvars PROVE PipelineTypeOK' /\ HandInv'
  <2>1. Kept
    BY <1>0, <1>8, GrouperSteps DEF pvars
  <2> QED
    BY <1>8, <2>1 DEF pvars, PipelineTypeOK, flow
<1> QED
  BY <1>1, <1>2, <1>4, <1>5, <1>6, <1>7, <1>8

LEMMA PipelineTypeStep ==
  PipelineTypeOK /\ HandInv /\ [PipelineNext]_pvars => PipelineTypeOK' /\ HandInv'
<1> SUFFICES ASSUME PipelineTypeOK, HandInv, [PipelineNext]_pvars
             PROVE  PipelineTypeOK' /\ HandInv'
  OBVIOUS
<1>1. CASE \/ \E w \in Worker : WorkerGroups(w) \/ WorkerOffers(w)
           \/ \E s \in Swap : CallbackRuns(s)
           \/ CallbackOffers \/ GrouperRuns \/ ShutdownStep \/ UNCHANGED pvars
  BY <1>1, TypeWithGrouper
<1>2. CASE \/ \E e \in Event : ReadMessage(e)
           \/ Handle
           \/ \E w \in Worker : WorkerTakes(w) \/ WorkerExits(w) \/ WorkerGivesUp(w)
                               \/ WorkerNotifies(w)
           \/ HopTakes \/ HopNotifies \/ HopExits
  <2>1. UNCHANGED gvars
    BY <1>2 DEF ReadMessage, Handle, WorkerTakes, WorkerExits, WorkerGivesUp,
                WorkerNotifies, HopTakes, HopNotifies, HopExits
  <2> QED
    BY <1>2, <2>1, TypeWithGrouperSame
<1> QED
  BY <1>1, <1>2 DEF PipelineNext, WorkerStep

LEMMA PipelineTypeInit == PipelineInit => PipelineTypeOK /\ HandInv
<1> SUFFICES ASSUME PipelineInit PROVE PipelineTypeOK /\ HandInv
  OBVIOUS
<1>1. GrouperTypeOK /\ built = {}
  BY GrouperTypeInit DEF PipelineInit, GrouperInit
<1>2. hopExited \in BOOLEAN /\ panicked \in BOOLEAN
  BY Zenon DEF PipelineInit
<1>3. phase \in {Phases[i] : i \in 1..6}
  BY DEF PipelineInit, Phases
<1>4. /\ eventQueue \in Seq(Event) /\ Len(eventQueue) = 0
      /\ hopQueue \in Seq(built) /\ Len(hopQueue) = 0
  BY DEF PipelineInit
<1> QED
  BY <1>1, <1>2, <1>3, <1>4, QueueAssumption DEF PipelineInit, PipelineTypeOK, HandInv

(* Every value the pipeline keeps stays in its type, both queues within    *)
(* their capacity.                                                         *)
THEOREM PipelineTypeCorrect == PipelineSpec => []PipelineTypeOK
<1>1. PipelineSpec => [](PipelineTypeOK /\ HandInv)
  BY PipelineTypeInit, PipelineTypeStep, PTL DEF PipelineSpec
<1> QED
  BY <1>1, PTL

-----------------------------------------------------------------------------
(* The pipeline drives the grouper by its own actions only, so what is true*)
(* of the grouper alone is true of it here.                                *)
LEMMA GrouperRuled == [PipelineNext]_pvars => [GrouperNext]_gvars
<1> SUFFICES ASSUME [PipelineNext]_pvars PROVE [GrouperNext]_gvars
  OBVIOUS
<1>1. ASSUME NEW w \in Worker, WorkerStep(w) PROVE [GrouperNext]_gvars
  <2>1. CASE WorkerGroups(w)
    BY <2>1, GrouperSteps DEF WorkerGroups
  <2>2. CASE WorkerOffers(w)
    BY <2>2 DEF WorkerOffers, OfferHop
  <2> QED
    BY <1>1, <2>1, <2>2 DEF WorkerStep, WorkerTakes, WorkerExits, WorkerGivesUp, WorkerNotifies
<1>2. CASE CallbackOffers
  BY <1>2 DEF CallbackOffers, OfferHop
<1>3. ASSUME NEW s \in Swap, CallbackRuns(s) PROVE [GrouperNext]_gvars
  BY <1>3, GrouperSteps DEF CallbackRuns
<1>4. CASE GrouperRuns
  BY <1>4, GrouperSteps DEF GrouperRuns
<1>5. CASE UNCHANGED pvars
  BY <1>5 DEF pvars
<1> QED
  BY <1>1, <1>2, <1>3, <1>4, <1>5
     DEF PipelineNext, ReadMessage, Handle, HopTakes, HopNotifies, HopExits, ShutdownStep

(* Inside the pipeline the grouper behaves as specified. *)
THEOREM PipelineRunsGrouper == PipelineSpec => GrouperSpec
<1>1. PipelineInit => GrouperInit
  BY DEF PipelineInit
<1> QED
  BY <1>1, GrouperRuled, PTL DEF PipelineSpec, GrouperSpec

-----------------------------------------------------------------------------
(* The step that brings an event into the program. *)
LEMMA ReadKeeps ==
  ASSUME PipelineTypeOK, FlowInv, NEW e \in Event, ReadMessage(e)
  PROVE  FlowInv'
<1> USE PlaceValues, NextPlaceValues, Nine
<1>1. e # NoSwap /\ e \notin seen /\ seen' = seen \cup {e}
  BY NoSwapIsNone DEF ReadMessage
<1>2. Places[1] = {} /\ Places'[1] = {e}
  BY <1>1 DEF ReadMessage
<1>3. \A j \in 1..9 : j # 1 => Places'[j] = Places[j]
  <2>1. /\ Queued' = Queued /\ InHands' = InHands /\ Grouped' = Grouped
        /\ (UNION offering)' = UNION offering /\ HopQueued' = HopQueued
        /\ (lost \cup removed)' = lost \cup removed /\ hopHand' = hopHand /\ sent' = sent
    BY DEF ReadMessage, gvars, Queued, InHands, Grouped, HopQueued
  <2> QED
    BY <2>1
<1>4. \A j \in 1..9 : j # 1 => e \notin Places'[j]
  BY <1>1, <1>3 DEF FlowInv, Inside
<1>5. ASSUME NEW d \in seen' PROVE \E i \in 1..9 : \A j \in 1..9 : d \in Places'[j] <=> j = i
  <2>1. CASE d = e
    BY <1>2, <1>4, <2>1
  <2>2. CASE d # e
    <3>1. d \in seen
      BY <1>1, <2>2
    <3>2. PICK n \in 1..9 : \A j \in 1..9 : d \in Places[j] <=> j = n
      BY <3>1 DEF FlowInv, One
    <3>3. \A j \in 1..9 : d \in Places'[j] <=> d \in Places[j]
      BY <1>2, <1>3, <2>2
    <3> QED
      BY <3>2, <3>3
  <2> QED
    BY <2>1, <2>2
<1>6. One'
  BY <1>5 DEF One
<1>7. Inside'
  BY <1>1, <1>2, <1>3 DEF FlowInv, Inside
<1> QED
  BY <1>6, <1>7 DEF ReadMessage, FlowInv, EventsOnce, BatchesOnce, HandsOnce

(* A worker is done with its event. *)
LEMMA HandLeft ==
  ASSUME PipelineTypeOK, HandsOnce, NEW w \in Worker, stage[w] = "dedup",
         NEW x \in {"idle", "offer"}, stage' = [stage EXCEPT ![w] = x],
         NEW y, hand' = [hand EXCEPT ![w] = y]
  PROVE  HandsOnce' /\ hand[w] \in InHands /\ InHands' = InHands \ {hand[w]}
<1>1. /\ stage'[w] # "dedup"
      /\ \A v \in Worker \ {w} : stage'[v] = stage[v] /\ hand'[v] = hand[v]
  BY DEF PipelineTypeOK
<1>2. HandsOnce'
  BY <1>1 DEF HandsOnce
<1>3. \A v \in Worker \ {w} : stage[v] = "dedup" => hand[v] # hand[w]
  BY DEF HandsOnce
<1>4. hand[w] \in InHands
  BY DEF InHands
<1>5. InHands' = InHands \ {hand[w]}
  BY <1>1, <1>3 DEF InHands
<1> QED
  BY <1>2, <1>4, <1>5

(* A worker that is not at an event changes its stage. *)
LEMMA HandEmpty ==
  ASSUME PipelineTypeOK, HandsOnce, NEW w \in Worker, stage[w] # "dedup",
         NEW x \in {"idle", "exited"}, stage' = [stage EXCEPT ![w] = x],
         NEW y, hand' = [hand EXCEPT ![w] = y]
  PROVE  HandsOnce' /\ InHands' = InHands
<1>1. /\ stage'[w] # "dedup"
      /\ \A v \in Worker \ {w} : stage'[v] = stage[v] /\ hand'[v] = hand[v]
  BY DEF PipelineTypeOK
<1> QED
  BY <1>1 DEF HandsOnce, InHands

-----------------------------------------------------------------------------
(* The steps that hand a single event on. *)
LEMMA HandleKeeps ==
  ASSUME PipelineTypeOK, FlowInv, ~panicked, Handle, ~panicked'
  PROVE  FlowInv'
<1> USE PlaceValues, NextPlaceValues, Nine
<1>1. /\ incoming \in Event /\ Places[1] = {incoming} /\ Places'[1] = {}
      /\ seen' = seen
  BY NoSwapIsNone DEF Handle, PipelineTypeOK
<1>2. /\ InHands' = InHands /\ Grouped' = Grouped /\ (UNION offering)' = UNION offering
      /\ HopQueued' = HopQueued /\ hopHand' = hopHand /\ sent' = sent
      /\ removed' = removed /\ hopQueue' = hopQueue /\ hand' = hand /\ stage' = stage
  BY DEF Handle, gvars, InHands, Grouped, HopQueued
<1>3. \/ eventQueue' = Append(eventQueue, incoming) /\ lost' = lost
      \/ lost' = lost \cup {incoming} /\ eventQueue' = eventQueue
  <2>1. QueueOrDrop
    BY DEF Handle
  <2>2. panicked' # TRUE
    OBVIOUS
  <2> QED
    BY <2>1, <2>2, QueueOutcomes, Zenon
<1>4. CASE eventQueue' = Append(eventQueue, incoming) /\ lost' = lost
  <2>1. incoming \notin Queued
    BY <1>1, Apart DEF FlowInv
  <2>2. Queued' = Queued \cup {incoming} /\ EventsOnce'
    <3>1. eventQueue \in Seq(Event)
      BY DEF PipelineTypeOK
    <3>2. (\A i, j \in 1..Len(eventQueue) : eventQueue[i] = eventQueue[j] => i = j)
          /\ incoming \notin {eventQueue[i] : i \in DOMAIN eventQueue}
      BY <2>1 DEF Queued, FlowInv, EventsOnce
    <3> HIDE PlaceValues, NextPlaceValues, Nine
    <3>3. Queued' = Queued \cup {incoming}
      BY <1>1, <1>4, <3>1, Appended DEF Queued
    <3>4. EventsOnce'
      BY <1>1, <1>4, <3>1, <3>2, Appended DEF EventsOnce
    <3> QED
      BY <3>3, <3>4
  <2>3. /\ Places'[1] = Places[1] \ {incoming} /\ Places'[2] = Places[2] \cup {incoming}
        /\ \A j \in 1..9 : j # 1 /\ j # 2 => Places'[j] = Places[j]
    BY <1>1, <1>2, <1>4, <2>2
  <2>4. One' /\ Inside'
    <3>1. {incoming} \subseteq Places[1] /\ 1 \in 1..9 /\ 2 \in 1..9
      BY <1>1
    <3> HIDE PlaceValues, NextPlaceValues, Nine
    <3> QED
      BY <1>1, <2>3, <3>1, Moved DEF FlowInv
  <2> QED
    BY <1>2, <2>2, <2>4 DEF FlowInv, BatchesOnce, HandsOnce
<1>5. CASE lost' = lost \cup {incoming} /\ eventQueue' = eventQueue
  <2>1. /\ Places'[1] = Places[1] \ {incoming} /\ Places'[9] = Places[9] \cup {incoming}
        /\ \A j \in 1..9 : j # 1 /\ j # 9 => Places'[j] = Places[j]
    <3>1. Queued' = Queued /\ (lost \cup removed)' = (lost \cup removed) \cup {incoming}
      BY <1>2, <1>5 DEF Queued
    <3> QED
      BY <1>1, <1>2, <3>1
  <2>2. One' /\ Inside'
    <3>1. {incoming} \subseteq Places[1] /\ 1 \in 1..9 /\ 9 \in 1..9
      BY <1>1
    <3> HIDE PlaceValues, NextPlaceValues, Nine
    <3> QED
      BY <1>1, <2>1, <3>1, Moved DEF FlowInv
  <2> QED
    BY <1>2, <1>5, <2>2 DEF FlowInv, EventsOnce, BatchesOnce, HandsOnce
<1> QED
  BY <1>3, <1>4, <1>5

LEMMA TakeKeeps ==
  ASSUME PipelineTypeOK, FlowInv, NEW w \in Worker, WorkerTakes(w)
  PROVE  FlowInv'
<1> DEFINE e == Head(eventQueue)
<1>1. /\ eventQueue \in Seq(Event) /\ eventQueue # <<>>
      /\ \A i, j \in 1..Len(eventQueue) : eventQueue[i] = eventQueue[j] => i = j
  BY DEF PipelineTypeOK, WorkerTakes, FlowInv, EventsOnce
<1>2. eventQueue' = Tail(eventQueue)
  BY DEF WorkerTakes
<1>3. e \in Queued /\ Queued' = Queued \ {e}
  <2>1. /\ e \in {eventQueue[i] : i \in DOMAIN eventQueue}
        /\ {Tail(eventQueue)[i] : i \in DOMAIN Tail(eventQueue)}
             = {eventQueue[i] : i \in DOMAIN eventQueue} \ {e}
    BY <1>1, Taken
  <2> QED
    BY <1>2, <2>1, Zenon DEF Queued
<1>4. EventsOnce'
  BY <1>1, <1>2, Taken DEF EventsOnce
<1>5. e \notin InHands
  BY <1>3, Apart, PlaceValues DEF FlowInv
<1>6. /\ stage[w] # "dedup" /\ stage'[w] = "dedup" /\ hand'[w] = e
      /\ \A v \in Worker \ {w} : stage'[v] = stage[v] /\ hand'[v] = hand[v]
  BY DEF WorkerTakes, PipelineTypeOK
<1>7. InHands' = InHands \cup {e}
  BY <1>6 DEF InHands
<1>8. HandsOnce'
  <2>1. \A v \in Worker : stage[v] = "dedup" => hand[v] # e
    BY <1>5 DEF InHands
  <2> QED
    BY <1>6, <2>1 DEF FlowInv, HandsOnce
<1>9. /\ Places'[2] = Places[2] \ {e} /\ Places'[3] = Places[3] \cup {e}
      /\ \A j \in 1..9 : j # 2 /\ j # 3 => Places'[j] = Places[j]
  <2>1. /\ Grouped' = Grouped /\ (UNION offering)' = UNION offering
        /\ HopQueued' = HopQueued /\ hopHand' = hopHand /\ sent' = sent
        /\ (lost \cup removed)' = lost \cup removed /\ incoming' = incoming
    BY DEF WorkerTakes, gvars, Grouped, HopQueued
  <2> QED
    BY <1>3, <1>7, <2>1, PlaceValues, NextPlaceValues, Nine
<1>10. One' /\ Inside'
  <2>1. {e} \subseteq Places[2] /\ 2 \in 1..9 /\ 3 \in 1..9 /\ seen' = seen
    BY <1>3, PlaceValues DEF WorkerTakes
  <2> HIDE DEF e
  <2> QED
    BY <1>9, <2>1, Moved DEF FlowInv
<1> QED
  BY <1>4, <1>8, <1>10 DEF FlowInv, WorkerTakes, BatchesOnce

LEMMA WorkerEndKeeps ==
  ASSUME PipelineTypeOK, FlowInv, NEW w \in Worker, WorkerGivesUp(w) \/ WorkerNotifies(w)
  PROVE  FlowInv'
<1> DEFINE e == hand[w]
<1>1. /\ stage[w] = "dedup" /\ BackToIdle(w) /\ seen' = seen
  BY DEF WorkerGivesUp, WorkerNotifies
<1>2. HandsOnce' /\ e \in InHands /\ InHands' = InHands \ {e}
  BY <1>1, HandLeft DEF FlowInv, BackToIdle
<1>3. /\ Queued' = Queued /\ Grouped' = Grouped /\ (UNION offering)' = UNION offering
      /\ HopQueued' = HopQueued /\ hopHand' = hopHand /\ incoming' = incoming
      /\ removed' = removed
  BY DEF WorkerGivesUp, WorkerNotifies, gvars, Queued, Grouped, HopQueued
<1>4. \/ lost' = lost \cup {e} /\ sent' = sent
      \/ lost' = lost /\ sent' = sent \cup {e}
  BY DEF WorkerGivesUp, WorkerNotifies
<1>5. {e} \subseteq Places[3] /\ 3 \in 1..9 /\ 8 \in 1..9 /\ 9 \in 1..9
  BY <1>2, PlaceValues
<1>6. One' /\ Inside'
  <2> HIDE DEF e
  <2>1. CASE lost' = lost \cup {e} /\ sent' = sent
    <3>1. /\ Places'[3] = Places[3] \ {e} /\ Places'[9] = Places[9] \cup {e}
          /\ \A j \in 1..9 : j # 3 /\ j # 9 => Places'[j] = Places[j]
      BY <1>2, <1>3, <2>1, PlaceValues, NextPlaceValues, Nine
    <3> QED
      BY <1>1, <1>5, <3>1, Moved DEF FlowInv
  <2>2. CASE lost' = lost /\ sent' = sent \cup {e}
    <3>1. /\ Places'[3] = Places[3] \ {e} /\ Places'[8] = Places[8] \cup {e}
          /\ \A j \in 1..9 : j # 3 /\ j # 8 => Places'[j] = Places[j]
      BY <1>2, <1>3, <2>2, PlaceValues, NextPlaceValues, Nine
    <3> QED
      BY <1>1, <1>5, <3>1, Moved DEF FlowInv
  <2> QED
    BY <1>4, <2>1, <2>2
<1> QED
  BY <1>2, <1>6 DEF FlowInv, WorkerGivesUp, WorkerNotifies, EventsOnce, BatchesOnce

-----------------------------------------------------------------------------
(* The steps that join, complete and throw away groups. *)

(* What a batch that was just built adds to the offered ones. *)
LEMMA OfferedMore ==
  ASSUME PipelineTypeOK, NEW b, b \notin built, built' = built \cup {b},
         offering' = offering \cup (built' \ built)
  PROVE  (UNION offering)' = (UNION offering) \cup b
<1>1. built' \ built = {b}
  OBVIOUS
<1>2. offering' = offering \cup {b}
  BY <1>1
<1> QED
  BY <1>2

LEMMA GroupKeeps ==
  ASSUME PipelineTypeOK, GInv, FlowInv, NEW w \in Worker, WorkerGroups(w)
  PROVE  FlowInv'
<1> DEFINE s == hand[w]
<1>1. /\ stage[w] = "dedup" /\ s \in Swap /\ AddSwap(s) /\ seen' = seen
      /\ offering' = offering \cup (built' \ built)
  BY DEF WorkerGroups
<1>2. \/ stage' = [stage EXCEPT ![w] = "idle"] /\ hand' = [hand EXCEPT ![w] = NoSwap]
      \/ stage' = [stage EXCEPT ![w] = "offer"] /\ hand' = [hand EXCEPT ![w] = hand[w]]
  <2>1. CASE built' = built
    BY <2>1 DEF WorkerGroups, BackToIdle
  <2>2. CASE built' # built
    BY <2>2 DEF WorkerGroups, PipelineTypeOK
  <2> QED
    BY <2>1, <2>2
<1>3. HandsOnce' /\ s \in InHands /\ InHands' = InHands \ {s}
  BY <1>1, <1>2, HandLeft DEF FlowInv
<1>4. /\ Queued' = Queued /\ HopQueued' = HopQueued /\ hopHand' = hopHand
      /\ incoming' = incoming /\ sent' = sent /\ lost' = lost
  BY DEF WorkerGroups, Queued, HopQueued
<1>5. removed' = removed
  BY <1>1, AddSwapMoves
<1>6. One' /\ Inside'
  <2>1. CASE built' = built /\ Grouped' = Grouped \cup {s}
    <3>1. (UNION offering)' = UNION offering
      BY <1>1, <2>1
    <3> HIDE DEF s
    <3>2. /\ Places'[3] = Places[3] \ {s} /\ Places'[4] = Places[4] \cup {s}
          /\ \A j \in 1..9 : j # 3 /\ j # 4 => Places'[j] = Places[j]
      BY <1>3, <1>4, <1>5, <2>1, <3>1, PlaceValues, NextPlaceValues, Nine
    <3>3. {s} \subseteq Places[3] /\ 3 \in 1..9 /\ 4 \in 1..9
      BY <1>3, PlaceValues
    <3> QED
      BY <1>1, <3>2, <3>3, Moved DEF FlowInv
  <2>2. ASSUME NEW g \in SUBSET Grouped, built' = built \cup {g \cup {s}},
               g \cup {s} \notin built, Grouped' = Grouped \ g
        PROVE  One' /\ Inside'
    <3> DEFINE X == g \cup {s}
    <3>1. (UNION offering)' = (UNION offering) \cup X
      BY <1>1, <2>2, OfferedMore
    <3> HIDE DEF s
    <3>2. X \subseteq Places[3] \cup Places[4]
      BY <1>3, PlaceValues
    <3>3. g \cap Places[3] = {} /\ s \notin Places[4]
      <4>1. Places[3] \cap Places[4] = {}
        BY Apart DEF FlowInv
      <4> QED
        BY <1>3, <4>1, PlaceValues
    <3>4. \A j \in 1..9 : j # 3 /\ j # 4 => Places[j] \cap X = {}
      <4>1. \A j \in 1..9 : (j # 3 => Places[3] \cap Places[j] = {})
                           /\ (j # 4 => Places[4] \cap Places[j] = {})
        BY Apart DEF FlowInv
      <4> HIDE DEF X
      <4> QED
        BY <3>2, <4>1
    <3>5. /\ Places'[3] = Places[3] \ X /\ Places'[4] = Places[4] \ X
          /\ Places'[5] = Places[5] \cup X
      BY <1>3, <2>2, <3>1, <3>3, PlaceValues, NextPlaceValues
    <3> HIDE DEF X
    <3>6. \A j \in 1..9 : j # 3 /\ j # 4 /\ j # 5 => Places'[j] = Places[j]
      BY <1>4, <1>5, PlaceValues, NextPlaceValues, Nine
    <3>7. \A j \in 1..9 : j # 5 => Places'[j] = Places[j] \ X
      BY <3>4, <3>5, <3>6
    <3>8. X \subseteq seen /\ 5 \in 1..9
      BY <3>2 DEF FlowInv, Inside
    <3> QED
      BY <1>1, <3>5, <3>7, <3>8, Gathered DEF FlowInv
  <2> QED
    BY <1>1, <2>1, <2>2, AddSwapMoves
<1> QED
  BY <1>3, <1>6 DEF FlowInv, WorkerGroups, EventsOnce, BatchesOnce

LEMMA CallbackKeeps ==
  ASSUME PipelineTypeOK, GInv, FlowInv, NEW s \in Swap, CallbackRuns(s)
  PROVE  FlowInv'
<1>1. /\ FinalizeTransaction(s) /\ seen' = seen
      /\ offering' = offering \cup (built' \ built)
  BY DEF CallbackRuns
<1>2. /\ Queued' = Queued /\ InHands' = InHands /\ HopQueued' = HopQueued
      /\ hopHand' = hopHand /\ incoming' = incoming /\ sent' = sent /\ lost' = lost
  BY DEF CallbackRuns, Queued, InHands, HopQueued
<1>3. removed' = removed
  BY <1>1, FinalizeMoves
<1>4. One' /\ Inside'
  <2>1. CASE built' = built /\ Grouped' = Grouped
    <3>1. (UNION offering)' = UNION offering
      BY <1>1, <2>1
    <3>2. \A j \in 1..9 : Places'[j] = Places[j]
      BY <1>2, <1>3, <2>1, <3>1, PlaceValues, NextPlaceValues, Nine
    <3> QED
      BY <1>1, <3>2, NotMoved DEF FlowInv
  <2>2. ASSUME NEW g \in SUBSET Grouped, built' = built \cup {g},
               g \notin built, Grouped' = Grouped \ g
        PROVE  One' /\ Inside'
    <3>1. (UNION offering)' = (UNION offering) \cup g
      BY <1>1, <2>2, OfferedMore
    <3>2. /\ Places'[4] = Places[4] \ g /\ Places'[5] = Places[5] \cup g
          /\ \A j \in 1..9 : j # 4 /\ j # 5 => Places'[j] = Places[j]
      BY <1>2, <1>3, <2>2, <3>1, PlaceValues, NextPlaceValues, Nine
    <3>3. g \subseteq Places[4] /\ 4 \in 1..9 /\ 5 \in 1..9
      BY PlaceValues
    <3> QED
      BY <1>1, <3>2, <3>3, Moved DEF FlowInv
  <2> QED
    BY <1>1, <2>1, <2>2, FinalizeMoves
<1> QED
  BY <1>4 DEF FlowInv, CallbackRuns, EventsOnce, BatchesOnce, HandsOnce

LEMMA GrouperRunsKeeps ==
  ASSUME PipelineTypeOK, GInv, FlowInv, GrouperRuns
  PROVE  FlowInv'
<1>1. /\ seen' = seen /\ Queued' = Queued /\ InHands' = InHands /\ HopQueued' = HopQueued
      /\ hopHand' = hopHand /\ incoming' = incoming /\ sent' = sent /\ lost' = lost
      /\ (UNION offering)' = UNION offering
  BY DEF GrouperRuns, flow, Queued, InHands, HopQueued
<1>2. One' /\ Inside'
  <2>1. CASE (\E s \in Swap : TimerFires(s)) \/ GrouperTick
    <3>1. Grouped' = Grouped /\ removed' = removed
      BY <2>1 DEF TimerFires, GrouperTick, Grouped
    <3>2. \A j \in 1..9 : Places'[j] = Places[j]
      BY <1>1, <3>1, PlaceValues, NextPlaceValues, Nine
    <3> QED
      BY <1>1, <3>2, NotMoved DEF FlowInv
  <2>2. CASE Cleanup
    <3>1. PICK g \in SUBSET Grouped : Grouped' = Grouped \ g /\ removed' = removed \cup g
      BY <2>2, CleanupMoves
    <3>2. (lost \cup removed)' = (lost \cup removed) \cup g
      BY <1>1, <3>1
    <3>3. /\ Places'[4] = Places[4] \ g /\ Places'[9] = Places[9] \cup g
          /\ \A j \in 1..9 : j # 4 /\ j # 9 => Places'[j] = Places[j]
      BY <1>1, <3>1, <3>2, PlaceValues, NextPlaceValues, Nine
    <3>4. g \subseteq Places[4] /\ 4 \in 1..9 /\ 9 \in 1..9
      BY PlaceValues
    <3> QED
      BY <1>1, <3>3, <3>4, Moved DEF FlowInv
  <2> QED
    BY <2>1, <2>2 DEF GrouperRuns
<1> QED
  BY <1>2 DEF FlowInv, GrouperRuns, flow, EventsOnce, BatchesOnce, HandsOnce

-----------------------------------------------------------------------------
(* The steps of the multi-hop queue. *)
LEMMA OfferKeeps ==
  ASSUME PipelineTypeOK, GInv, FlowInv, ~panicked, NEW b \in offering, OfferHop(b),
         InHands' = InHands, ~panicked'
  PROVE  One' /\ Inside' /\ EventsOnce' /\ BatchesOnce'
<1>1. /\ seen' = seen /\ Queued' = Queued /\ Grouped' = Grouped /\ hopHand' = hopHand
      /\ incoming' = incoming /\ sent' = sent /\ removed' = removed
      /\ eventQueue' = eventQueue /\ offering' = offering \ {b}
  BY DEF OfferHop, gvars, Queued, Grouped
<1>2. b \in built /\ b # {} /\ offering \subseteq built
  BY Batches DEF PipelineTypeOK
<1>3. (UNION offering)' = (UNION offering) \ b
  <2>1. \A a \in offering : a # b => a \cap b = {}
    BY <1>2, Batches
  <2> QED
    BY <1>1, <2>1
<1>4. b \subseteq Places[5]
  BY PlaceValues
<1>5. \/ hopQueue' = Append(hopQueue, b) /\ lost' = lost
      \/ lost' = lost \cup b /\ hopQueue' = hopQueue
  <2>1. panicked' # TRUE
    OBVIOUS
  <2> QED
    BY <2>1, OfferOutcomes, Zenon
<1>6. CASE hopQueue' = Append(hopQueue, b) /\ lost' = lost
  <2>1. b \notin {hopQueue[i] : i \in DOMAIN hopQueue}
    <3>1. Places[5] \cap Places[6] = {}
      BY Apart DEF FlowInv
    <3>2. ~(b \subseteq HopQueued)
      BY <1>2, <1>4, <3>1, PlaceValues
    <3> QED
      BY <3>2 DEF HopQueued
  <2>2. /\ {hopQueue'[i] : i \in DOMAIN hopQueue'} = {hopQueue[i] : i \in DOMAIN hopQueue} \cup {b}
        /\ BatchesOnce'
    <3>1. hopQueue \in Seq(built) /\ b \in built
      BY <1>2 DEF PipelineTypeOK
    <3>2. \A i, j \in 1..Len(hopQueue) : hopQueue[i] = hopQueue[j] => i = j
      BY DEF FlowInv, BatchesOnce
    <3>3. /\ {Append(hopQueue, b)[i] : i \in DOMAIN Append(hopQueue, b)}
               = {hopQueue[i] : i \in DOMAIN hopQueue} \cup {b}
          /\ \A i, j \in 1..Len(Append(hopQueue, b)) :
               Append(hopQueue, b)[i] = Append(hopQueue, b)[j] => i = j
      BY <2>1, <3>1, <3>2, Appended
    <3>4. BatchesOnce'
      BY <1>6, <3>3 DEF BatchesOnce
    <3> QED
      BY <1>6, <3>3, <3>4, Zenon
  <2>3. HopQueued' = HopQueued \cup b
    BY <2>2 DEF HopQueued
  <2>4. /\ Places'[5] = Places[5] \ b /\ Places'[6] = Places[6] \cup b
        /\ \A j \in 1..9 : j # 5 /\ j # 6 => Places'[j] = Places[j]
    BY <1>1, <1>3, <1>6, <2>3, PlaceValues, NextPlaceValues, Nine
  <2>5. One' /\ Inside'
    <3>1. 5 \in 1..9 /\ 6 \in 1..9
      OBVIOUS
    <3> QED
      BY <1>1, <1>4, <2>4, <3>1, Moved DEF FlowInv
  <2> QED
    BY <1>1, <2>2, <2>5 DEF FlowInv, EventsOnce
<1>7. CASE lost' = lost \cup b /\ hopQueue' = hopQueue
  <2>1. HopQueued' = HopQueued /\ (lost \cup removed)' = (lost \cup removed) \cup b
    BY <1>1, <1>7 DEF HopQueued
  <2>2. /\ Places'[5] = Places[5] \ b /\ Places'[9] = Places[9] \cup b
        /\ \A j \in 1..9 : j # 5 /\ j # 9 => Places'[j] = Places[j]
    BY <1>1, <1>3, <2>1, PlaceValues, NextPlaceValues, Nine
  <2>3. One' /\ Inside'
    <3>1. 5 \in 1..9 /\ 9 \in 1..9
      OBVIOUS
    <3> QED
      BY <1>1, <1>4, <2>2, <3>1, Moved DEF FlowInv
  <2> QED
    BY <1>1, <1>7, <2>3 DEF FlowInv, EventsOnce, BatchesOnce
<1> QED
  BY <1>5, <1>6, <1>7

LEMMA HopTakeKeeps ==
  ASSUME PipelineTypeOK, GInv, FlowInv, HopTakes
  PROVE  FlowInv'
<1> DEFINE b == Head(hopQueue)
<1>1. /\ hopQueue \in Seq(built) /\ hopQueue # <<>>
      /\ \A i, j \in 1..Len(hopQueue) : hopQueue[i] = hopQueue[j] => i = j
  BY DEF PipelineTypeOK, HopTakes, FlowInv, BatchesOnce
<1>2. hopQueue' = Tail(hopQueue) /\ hopHand = {} /\ hopHand' = b
  BY DEF HopTakes
<1>3. /\ b \in {hopQueue[i] : i \in DOMAIN hopQueue}
      /\ {Tail(hopQueue)[i] : i \in DOMAIN Tail(hopQueue)}
           = {hopQueue[i] : i \in DOMAIN hopQueue} \ {b}
      /\ {hopQueue[i] : i \in DOMAIN hopQueue} \subseteq built
  <2>1. {hopQueue[i] : i \in DOMAIN hopQueue} \subseteq built
    BY <1>1
  <2> QED
    BY <1>1, <2>1, Taken
<1>4. BatchesOnce'
  BY <1>1, <1>2, Taken DEF BatchesOnce
<1>5. b \subseteq HopQueued /\ HopQueued' = HopQueued \ b
  <2> DEFINE Q == {hopQueue[i] : i \in DOMAIN hopQueue}
  <2>1. \A a \in Q : a # b => a \cap b = {}
    BY <1>3, Batches
  <2>2. UNION (Q \ {b}) = (UNION Q) \ b /\ b \in Q
    BY <1>3, <2>1
  <2>3. HopQueued = UNION Q /\ HopQueued' = UNION (Q \ {b})
    BY <1>2, <1>3, Zenon DEF HopQueued
  <2> QED
    BY <2>2, <2>3
<1>6. /\ Places'[6] = Places[6] \ b /\ Places'[7] = Places[7] \cup b
      /\ \A j \in 1..9 : j # 6 /\ j # 7 => Places'[j] = Places[j]
  <2>1. /\ Queued' = Queued /\ InHands' = InHands /\ Grouped' = Grouped
        /\ (UNION offering)' = UNION offering /\ sent' = sent
        /\ (lost \cup removed)' = lost \cup removed /\ incoming' = incoming
    BY DEF HopTakes, gvars, Queued, InHands, Grouped
  <2> QED
    BY <1>2, <1>5, <2>1, PlaceValues, NextPlaceValues, Nine
<1>7. One' /\ Inside'
  <2>1. b \subseteq Places[6] /\ 6 \in 1..9 /\ 7 \in 1..9 /\ seen' = seen
    BY <1>5, PlaceValues DEF HopTakes
  <2> HIDE DEF b
  <2> QED
    BY <1>6, <2>1, Moved DEF FlowInv
<1> QED
  BY <1>4, <1>7 DEF FlowInv, HopTakes, EventsOnce, HandsOnce

LEMMA HopEndKeeps ==
  ASSUME PipelineTypeOK, FlowInv, HopNotifies
  PROVE  FlowInv'
<1>1. /\ Queued' = Queued /\ InHands' = InHands /\ Grouped' = Grouped
      /\ (UNION offering)' = UNION offering /\ HopQueued' = HopQueued
      /\ removed' = removed /\ incoming' = incoming /\ hopHand' = {} /\ seen' = seen
  BY DEF HopNotifies, gvars, Queued, InHands, Grouped, HopQueued
<1>2. \/ sent' = sent \cup hopHand /\ lost' = lost
      \/ lost' = lost \cup hopHand /\ sent' = sent
  BY DEF HopNotifies
<1>3. hopHand \subseteq Places[7] /\ 7 \in 1..9 /\ 8 \in 1..9 /\ 9 \in 1..9
  BY PlaceValues
<1>4. One' /\ Inside'
  <2>1. CASE sent' = sent \cup hopHand /\ lost' = lost
    <3>1. /\ Places'[7] = Places[7] \ hopHand /\ Places'[8] = Places[8] \cup hopHand
          /\ \A j \in 1..9 : j # 7 /\ j # 8 => Places'[j] = Places[j]
      BY <1>1, <2>1, PlaceValues, NextPlaceValues, Nine
    <3> QED
      BY <1>1, <1>3, <3>1, Moved DEF FlowInv
  <2>2. CASE lost' = lost \cup hopHand /\ sent' = sent
    <3>1. /\ Places'[7] = Places[7] \ hopHand /\ Places'[9] = Places[9] \cup hopHand
          /\ \A j \in 1..9 : j # 7 /\ j # 9 => Places'[j] = Places[j]
      BY <1>1, <2>2, PlaceValues, NextPlaceValues, Nine
    <3> QED
      BY <1>1, <1>3, <3>1, Moved DEF FlowInv
  <2> QED
    BY <1>2, <2>1, <2>2
<1> QED
  BY <1>4 DEF FlowInv, HopNotifies, EventsOnce, BatchesOnce, HandsOnce

-----------------------------------------------------------------------------
(* Every step keeps every event in one place, unless the process panics. *)
LEMMA FlowStep ==
  PInv /\ [PipelineNext]_pvars /\ ~panicked' => FlowInv'
<1> SUFFICES ASSUME PInv, [PipelineNext]_pvars, ~panicked' PROVE FlowInv'
  OBVIOUS
<1>0. /\ PipelineTypeOK /\ GInv
      /\ ~panicked /\ FlowInv
  <2>1. ~panicked
    BY DEF PipelineNext, ReadMessage, Handle, WorkerStep, WorkerTakes, WorkerExits,
           WorkerGivesUp, WorkerNotifies, WorkerGroups, WorkerOffers, CallbackRuns,
           CallbackOffers, HopTakes, HopNotifies, HopExits, GrouperRuns, ShutdownStep,
           Live, pvars
  <2> QED
    BY <2>1 DEF PInv
<1>1. ASSUME NEW e \in Event, ReadMessage(e) PROVE FlowInv'
  BY <1>0, <1>1, ReadKeeps
<1>2. CASE Handle
  BY <1>0, <1>2, HandleKeeps
<1>3. ASSUME NEW w \in Worker, WorkerStep(w) PROVE FlowInv'
  <2>1. CASE WorkerTakes(w)
    BY <1>0, <2>1, TakeKeeps
  <2>2. CASE WorkerGivesUp(w) \/ WorkerNotifies(w)
    BY <1>0, <2>2, WorkerEndKeeps
  <2>3. CASE WorkerGroups(w)
    BY <1>0, <2>3, GroupKeeps
  <2>4. CASE WorkerOffers(w)
    <3>1. PICK b \in offering : Offers(w, b) /\ OfferHop(b)
      BY <2>4 DEF WorkerOffers
    <3>2. HandsOnce' /\ InHands' = InHands
      <4>1. /\ stage[w] # "dedup" /\ stage' = [stage EXCEPT ![w] = "idle"]
            /\ hand' = [hand EXCEPT ![w] = NoSwap]
        BY <2>4, <3>1 DEF WorkerOffers, Offers, BackToIdle
      <4> QED
        BY <1>0, <4>1, HandEmpty DEF FlowInv
    <3>3. One' /\ Inside' /\ EventsOnce' /\ BatchesOnce'
      BY <1>0, <3>1, <3>2, OfferKeeps
    <3> QED
      BY <3>2, <3>3 DEF FlowInv
  <2>5. CASE WorkerExits(w)
    <3>1. HandsOnce' /\ InHands' = InHands
      <4>1. /\ stage[w] # "dedup" /\ stage' = [stage EXCEPT ![w] = "exited"]
            /\ hand' = [hand EXCEPT ![w] = hand[w]]
        BY <1>0, <2>5 DEF WorkerExits, PipelineTypeOK
      <4> QED
        BY <1>0, <4>1, HandEmpty DEF FlowInv
    <3>2. /\ Queued' = Queued /\ Grouped' = Grouped /\ (UNION offering)' = UNION offering
          /\ HopQueued' = HopQueued /\ hopHand' = hopHand /\ incoming' = incoming
          /\ sent' = sent /\ (lost \cup removed)' = lost \cup removed /\ seen' = seen
      BY <2>5 DEF WorkerExits, gvars, Queued, Grouped, HopQueued
    <3>3. \A j \in 1..9 : Places'[j] = Places[j]
      BY <3>1, <3>2, PlaceValues, NextPlaceValues, Nine
    <3>4. One' /\ Inside'
      BY <1>0, <3>2, <3>3, NotMoved DEF FlowInv
    <3> QED
      BY <1>0, <2>5, <3>1, <3>4 DEF FlowInv, WorkerExits, EventsOnce, BatchesOnce
  <2> QED
    BY <1>3, <2>1, <2>2, <2>3, <2>4, <2>5 DEF WorkerStep
<1>4. ASSUME NEW s \in Swap, CallbackRuns(s) PROVE FlowInv'
  BY <1>0, <1>4, CallbackKeeps
<1>5. CASE CallbackOffers
  <2>1. PICK b \in offering : OfferHop(b)
    BY <1>5 DEF CallbackOffers
  <2>2. InHands' = InHands /\ HandsOnce'
    BY <1>0, <1>5 DEF CallbackOffers, InHands, FlowInv, HandsOnce
  <2>3. One' /\ Inside' /\ EventsOnce' /\ BatchesOnce'
    BY <1>0, <2>1, <2>2, OfferKeeps
  <2> QED
    BY <2>2, <2>3 DEF FlowInv
<1>6. CASE HopTakes
  BY <1>0, <1>6, HopTakeKeeps
<1>7. CASE HopNotifies
  BY <1>0, <1>7, HopEndKeeps
<1>8. CASE GrouperRuns
  BY <1>0, <1>8, GrouperRunsKeeps
<1>9. CASE HopExits \/ ShutdownStep \/ UNCHANGED pvars
  <2>1. /\ Queued' = Queued /\ InHands' = InHands /\ Grouped' = Grouped
        /\ (UNION offering)' = UNION offering /\ HopQueued' = HopQueued
        /\ hopHand' = hopHand /\ incoming' = incoming /\ sent' = sent
        /\ (lost \cup removed)' = lost \cup removed /\ seen' = seen
    BY <1>9 DEF HopExits, ShutdownStep, pvars, flow, gvars, Queued, InHands, Grouped, HopQueued
  <2>2. \A j \in 1..9 : Places'[j] = Places[j]
    BY <2>1, PlaceValues, NextPlaceValues, Nine
  <2>3. One' /\ Inside'
    BY <1>0, <2>1, <2>2, NotMoved DEF FlowInv
  <2> QED
    BY <1>0, <1>9, <2>3 DEF FlowInv, HopExits, ShutdownStep, pvars, flow,
                            EventsOnce, BatchesOnce, HandsOnce
<1> QED
  BY <1>1, <1>2, <1>3, <1>4, <1>5, <1>6, <1>7, <1>8, <1>9 DEF PipelineNext

LEMMA FlowInit == PipelineInit => FlowInv
<1> SUFFICES ASSUME PipelineInit PROVE FlowInv
  OBVIOUS
<1>1. /\ seen = {} /\ incoming = NoSwap /\ hopHand = {} /\ sent = {} /\ lost = {}
      /\ removed = {} /\ UNION offering = {}
  BY DEF PipelineInit, GrouperInit
<1>2. Queued = {} /\ HopQueued = {}
  BY DEF PipelineInit, Queued, HopQueued
<1>3. InHands = {} /\ Grouped = {}
  BY DEF PipelineInit, GrouperInit, InHands, Grouped
<1>4. Inside
  BY <1>1, <1>2, <1>3, PlaceValues, Nine DEF Inside
<1>5. One
  BY <1>1 DEF One
<1> QED
  BY <1>4, <1>5 DEF PipelineInit, FlowInv, EventsOnce, BatchesOnce, HandsOnce

(* The pipeline's invariant: the grouper's, what workers hold, and the     *)
(* whereabouts of every event.                                             *)
THEOREM PipelineInvariant == PipelineSpec => []PInv
<1>1. PipelineInit => PInv
  <2>1. PipelineInit => GrouperInit
    BY DEF PipelineInit
  <2> QED
    BY <2>1, GrouperInitial, PipelineTypeInit, FlowInit DEF PInv
<1>2. PInv /\ [PipelineNext]_pvars => PInv'
  BY FlowStep, PipelineTypeStep, GrouperRuled, GrouperStep DEF PInv
<1> QED
  BY <1>1, <1>2, PTL DEF PipelineSpec

(* From the socket to the notification no event is duplicated or forgotten,*)
(* whatever read loop, workers, timer callbacks, multi-hop worker and      *)
(* shutdown do in which order, as long as the process has not panicked.    *)
THEOREM EventsConserved == PipelineSpec => []OnePlaceEach
<1>1. PInv => OnePlaceEach
  <2> SUFFICES ASSUME FlowInv, NEW e \in seen
               PROVE  Cardinality({i \in DOMAIN Places : e \in Places[i]}) = 1
    BY DEF PInv, OnePlaceEach
  <2>1. PICK n \in 1..9 : \A j \in 1..9 : e \in Places[j] <=> j = n
    BY DEF FlowInv, One
  <2>2. {i \in DOMAIN Places : e \in Places[i]} = {n}
    BY <2>1, PlaceValues
  <2> QED
    BY <2>2, FS_Singleton
<1> QED
  BY <1>1, PipelineInvariant, PTL
=============================================================================

----------------------------- MODULE TickerCache -----------------------------
(***************************************************************************)
(* The last ticker of a token, in Redis (internal/redis/ticker_cache.go).  *)
(* Every instance receives each ticker event, and the worker whose         *)
(* instance won the event writes the cache (handleTicker24h); transaction  *)
(* messages show what GetValid finds.  A worker takes the event from its   *)
(* queue some time after it came, stamps the data with the time of its own *)
(* clock and writes the key, so two workers may write in either order, and *)
(* the stamp is neither the age of the data nor of the reader's clock.     *)
(***************************************************************************)
EXTENDS Integers

CONSTANTS Worker,       \* workers that handle a ticker event of the token
          CacheTTL,     \* tickerCacheTTL, in ticks
          CacheMaxAge,  \* tickerCacheMaxAge
          QueueTime,    \* bound: how long an event waits in the queue
          WriteTime,    \* bound: how long a SET is under way
          Skew,         \* bound: how far a worker's clock is off the reader's
          NoTicker

ASSUME CacheAssumption ==
  /\ CacheTTL \in Nat \ {0} /\ CacheMaxAge \in Nat
  /\ QueueTime \in Nat /\ WriteTime \in Nat /\ Skew \in Nat

VARIABLES coming,  \* [Worker -> ticker it is going to write, or NoTicker]
          cached   \* the ticker in the cache, or NoTicker

cachevars == <<coming, cached>>

(* A ticker: how long ago its event came, whether it has a stamp and how   *)
(* old that (UpdatedAt) looks to the reader, how old the key or the SET is.*)
MaxTicks == QueueTime + WriteTime + CacheTTL
Ticker == [age : 0..MaxTicks, stamped : BOOLEAN,
           stamp : (-Skew)..(MaxTicks + Skew), held : 0..(CacheTTL + WriteTime)]

CacheTypeOK ==
  /\ coming \in [Worker -> Ticker \cup {NoTicker}]
  /\ cached \in Ticker \cup {NoTicker}

CacheInit == coming = [w \in Worker |-> NoTicker] /\ cached = NoTicker

-----------------------------------------------------------------------------
TickerArrives(w) ==
  /\ coming[w] = NoTicker
  /\ coming' = [coming EXCEPT ![w] = [age |-> 0, stamped |-> FALSE, stamp |-> 0, held |-> 0]]
  /\ UNCHANGED cached

Stamped(w) == coming[w] # NoTicker /\ coming[w].stamped

(* Set: UpdatedAt = time.Now(). *)
Stamp(w) ==
  /\ coming[w] # NoTicker /\ ~Stamped(w)
  /\ \E d \in {-Skew, Skew} :
       coming' = [coming EXCEPT ![w].stamped = TRUE, ![w].stamp = d]
  /\ UNCHANGED cached

(* SET of the key with its TTL: it fails, or it is done (its reply may be  *)
(* lost); the worker goes on in either case.                               *)
WriteCache(w) ==
  /\ Stamped(w)
  /\ coming' = [coming EXCEPT ![w] = NoTicker]
  /\ cached' \in {cached, [coming[w] EXCEPT !.held = 0]}

Older(t) ==
  IF t.stamped THEN [t EXCEPT !.age = @ + 1, !.stamp = @ + 1, !.held = @ + 1]
               ELSE [t EXCEPT !.age = @ + 1]

(* A tick, by which the key may reach its TTL. *)
CacheTick ==
  /\ \A w \in Worker : coming[w] # NoTicker =>
       IF Stamped(w) THEN coming[w].held < WriteTime ELSE coming[w].age < QueueTime
  /\ coming' = [w \in Worker |-> IF coming[w] = NoTicker THEN NoTicker
                                 ELSE Older(coming[w])]
  /\ cached' = IF cached = NoTicker \/ cached.held + 1 >= CacheTTL
                 THEN NoTicker ELSE Older(cached)

CacheNext ==
  \/ \E w \in Worker : TickerArrives(w) \/ Stamp(w) \/ WriteCache(w)
  \/ CacheTick

(* Mutant: Get, which does not look at the age. *)
AnyCached == cached

(* GetValid. *)
Valid == IF cached # NoTicker /\ cached.stamp < CacheMaxAge THEN cached ELSE NoTicker

-----------------------------------------------------------------------------
(* Properties of the age of a ticker that is shown, or NoTicker *)

(* What is shown is as recent as the code can promise: it came no longer   *)
(* ago than tickerCacheMaxAge, the queue and the clocks allow, although    *)
(* the key lives longer and a slow SET may put older data over newer.      *)
Recent(age) == age # NoTicker => age < CacheMaxAge + QueueTime + Skew

(* "maximum age for cached data to be considered valid for display".       *)
WithinMaxAge(age) == age # NoTicker => age < CacheMaxAge
=============================================================================

# Formal model of go-alert-web3-bnb

The program watches tokens over a WebSocket feed (transactions, 24h tickers,
holder counts, candles) and sends Telegram messages. Several instances may run
side by side; they share one Redis server, which holds the settings, the
deduplication keys, the rate limits and a ticker cache. This directory models
its concurrent core in TLA+, checks the models with TLC and proves theorems
about them with TLAPS.

Commands: `tlc -config <X>.cfg <module>` for the runs listed below,
`tlapm <M>.tla` for the modules with proofs: `DedupProofs`, `TxGrouperProofs`,
`EventPipelineProofs`, `WsClientProofs`, `RateLimiterProofs`,
`NotificationProofs`, `FleetProofs`, `SubscriptionSyncProofs`.

## 1. The system

| component | source | state | operations |
|---|---|---|---|
| WebSocket client | `internal/websocket/client.go` | current connection, `isConnected`, `retryCount`, `done`, list of subscribed channels | Start, readLoop, reconnect, pingLoop, Send, Subscribe, Unsubscribe, Close |
| Subscription manager | `internal/websocket/subscription_manager.go` | a mutex; works on the client's list | SyncSubscriptions, (Un)SubscribeToken, (Un)SubscribeStream |
| Event handler | `internal/handler/handler.go` | two bounded queues, 3 workers, a multi-hop worker, a clean-up worker | Handle, processEvent, handlers per event kind, sendNotification, sendToMultipleBots, Start, Stop |
| Transaction grouper | `internal/handler/tx_grouper.go` | groups of swaps by transaction hash, a timer each | AddSwap, finalizeTransaction, Cleanup |
| Deduplicator | `internal/redis/deduplicator.go` | per event a lock key and a "processed" key in Redis | ProcessWithDedup: two EXISTS, SETNX, SET, release script |
| Rate limiter | `internal/redis/ratelimiter.go` | a sorted set per key in Redis | Allow (a script); the rest has no caller |
| Ticker cache | `internal/redis/ticker_cache.go` | last ticker per token in Redis | Set, Get, GetValid |
| Pub/sub | `internal/redis/pubsub.go` | subscription to two channels | publish, handlers (they only log) |
| Telegram notifier | `internal/telegram/notifier.go` | a per-minute counter | send with retries; `Formatter` is text |
| Settings | `internal/settings/*.go` | one value with all tokens and the Telegram settings, and a second key with a copy of the latter | add, update, delete, toggle, configure, Initialize, ClearAll; and what they decide: IsStreamNotifyEnabled, ShouldNotifyTx, GetTelegramBots |
| Web handlers | `internal/web/handlers/settings.go`, `internal/web/server.go` | none | one handler per settings operation, which then calls the subscription manager |
| Application | `cmd/app/main.go` | none of its own | start-up, heartbeat, shutdown |
| Others | `internal/config`, `internal/logger`, `pkg/models`, `internal/telegram/multi_notifier.go`, `cmd/wstest` | none that matters here | parsing, output, decoding, unused, a manual tool |

How they interact:

    server --frames--> readLoop --Handle--> eventQueue --> worker
      worker --ProcessWithDedup--> Redis (lock, record)
      worker --AddSwap--> grouper --(full | timer)--> multiHopQueue --> multiHopWorker
      worker --Set--> ticker cache --GetValid--> multiHopWorker
      worker / multiHopWorker --GetTokens, GetTelegram--> Redis (settings)
                              --Allow--> Redis --send--> one goroutine per bot --> Telegram
    browser --> web handler --GET/SET--> Redis (settings)
                       \--> subscription manager --> client.Subscribe/Unsubscribe
    signal --> shutdown: cancel context, Close client, Stop handler, close Redis

What is hard, and what must be right in spite of it:

* **Deduplication.** Commands of workers of several instances interleave; keys
  expire; replies get lost; instances die anywhere. An event must not be
  processed by two workers at once nor twice within the life of its record, and
  a copy may be dropped only because another one is taken care of.
* **Grouping.** A timer that went off cannot be stopped, so callbacks of
  replaced timers run late and race with swaps that fill the group and with
  Cleanup. No swap may be lost or reported twice; every group must close.
* **The fleet.** What is deduplicated is a swap, what is sent is a group, and a
  group lives in the memory of one instance. The record of a swap exists before
  its message. A swap must be reported by one instance at most and, unless one
  dies with it, by one at least.
* **Queues and shutdown.** Bounded channels drop; closing them while senders
  live is fatal. An event must be in one place at any time.
* **The connection.** Three kinds of goroutines share it with a reconnecting
  read loop and Close. The list of tracked channels must say what the server
  streams; the loops must go on while they should and end when they must.
* **Rate limits.** Clocks differ, scripts run late or twice, checks fail.
* **Who is told.** A message's recipients follow from two keys read one after
  the other while requests change them; reads fail. What is muted must stay
  muted, and no message may vanish without a reason.
* **Delivery.** Attempts fail in two indistinguishable ways; several bots are
  waited for.
* **The ticker cache.** Data wait in a queue before they are stamped, by one
  clock, and are judged by another; two writers may overtake each other.
* **Settings.** Every change is read-modify-write without a transaction, on two
  keys, followed by a separate change of the subscriptions. The web server
  serves requests concurrently, and nothing serialises them.

## 2. Modules

| module | models | state and actions against the code |
|---|---|---|
| `NotifyOnce` | what the deduplicator promises | abstract: `running` events, `quiet` ticks left of a record, and `lapsed`, the events of which nothing is promised for now |
| `Dedup`, `MCDedup` | `deduplicator.go` as driven by the workers of all instances | `pc` is the next Redis command of `ProcessWithDedup`; one action per command (`Check`, `TryAcquireLock`, `Recheck`, `MarkAsProcessed`, `ReleaseLock`), plus the processor, `Stop`, `Die`, `Restart` and the clock that expires keys. The ghost `overran` has the events whose lock some worker has kept for its whole TTL |
| `TxGrouper`, `MCTxGrouper` | `tx_grouper.go` | one action per critical section of `g.mu` (`AddSwap`, `FinalizeTransaction`, `Cleanup`) and `TimerFires` for the runtime starting a callback. A timer is named by the swap that armed it |
| `EventPipeline`, `MCEventPipeline` | `handler.go` from Handle to the notification, and `shutdown()` | EXTENDS `TxGrouper`: `WorkerGroups` contains `AddSwap`, `CallbackRuns` contains `FinalizeTransaction`; `phase` is the step `shutdown` has reached |
| `Fleet`, `MCFleet` | `handleTransaction` on several instances that receive the same feed | EXTENDS `TxGrouper`, whose swaps are copies `<<instance, swap>>`; INSTANCE of `NotifyOnce`: `Receive` is its `Begin` or a copy dropped, `Record` its `Finish`, `Crash` its `Abandon`. A copy goes from `begun` to `joined` (it is in the grouper) to recorded |
| `WsClient` | `client.go` after Start | `reader`, `pinger`, `job`, `closer` are the program counters of the four kinds of goroutines; a critical section or an operation that blocks is one action; a write takes two, so that writes can overlap |
| `RateLimiter`, `MCRateLimiter` | `Allow` and its use in `sendNotification` | `ReadClock` then `Eval`, `EvalRetried` (reply lost, run again) or `EvalFails`; the time read is both score and member |
| `Delivery` | `sendToMultipleBots`, `sendWithRetry`, `send` | `at[b]` is where the goroutine of bot `b` is; a POST begins and ends in two steps |
| `TickerCache` | `ticker_cache.go` under the workers that write it and the one that reads | a ticker carries its true age, its stamp as the reader's clock sees it, and the age of its key; `Stamp` and `WriteCache` are the two steps of `Set`, `Valid` is `GetValid` |
| `Notification`, `MCNotification` | `sendNotification`, `sendNotificationForMultiHop`, `sendWithGlobalConfig` and the decisions of `settings/models.go` and `repository.go` they use | EXTENDS `Delivery` and `TickerCache`: `step` goes from the text over the two reads (`ReadTokens`, `ReadTelegram`) and the limit (`CheckLimit`) to sending; `SettingsChange` is the web interface in between |
| `SettingsStore` | `repository.go`, `service.go` under the web handlers' requests, and the start-up (`initialize`; `reset`, which is `--reset` and ClearAll) | any number of requests `a` at once: `at[a]` is its next Redis command, `copy[a]` the token its handler has read, `mine[a]` the value it is about to write. Each command succeeds (`Peek`, `Load`, `Save`, ...), fails having been carried out or not (`RedisFails`, which goes on where the code does: a delete without the token, a start without settings), or is carried out once more because its reply was lost (`SentAgain`). Ghosts: `stale[a]`, the value was written by another request since `a` read it; `torn`, the last write of the two keys was cut in half or overtaken |
| `SubscriptionSync`, `MCSubscriptionSync` | one instance: its start, its requests, the subscription manager behind the web handlers, its death | EXTENDS `SettingsStore`; after a request is `"done"` its handler's `Call` follows, under the manager's mutex (`holder`). `Started` and `StartedFromConfig` are the two ways `startServer` subscribes. Ghosts: `alone`, the request in progress has been the only one; `astray`, the subscriptions may differ from the settings |
| `*Proofs` | theorems about the module of that name (`NotificationProofs` also about `Delivery`, `SubscriptionSyncProofs` about `SettingsStore`) | section 5 |

Abstractions. An event, a swap, a token or a channel is a value of a small set;
decoding, formatting and logging are left out. Time is discrete, and everything
that expires is a count of ticks left. What a Redis command, a POST or a write
to a socket may do is enumerated: done and answered, done but the answer is
lost, not done. Operators marked "Mutant" are deliberately wrong variants of
the definition that follows them; they show that a property can fail. Variables
called history or ghost are read by properties and by each other only.

Where one module leaves a matter to another:

* `EventPipeline` has one instance, in which the deduplication of an event it
  reads once succeeds. `Fleet` has several, takes the deduplicator by its
  contract `NotifyOnce` (which `Dedup` implements) and has unbounded queues, no
  shutdown and no failing commands.
* `Notification` takes the limiter's answer and that of the notifier's own
  per-minute counter as a choice; its `SettingsChange` replaces a key's value
  by another one, since how requests produce values is `SettingsStore`'s matter.
* `Delivery` alone starts when a message has passed the limit.
* `SubscriptionSync` takes the connection to be up; `WsClient` does not look at
  the events it reads.

## 3. What TLC checks

| run | configuration | instance | shows |
|---|---|---|---|
| `dedup_safe` | `MCDedup`, `DedupSafe` | 2 instances x 2 workers, 1 event, lock 2 ticks, record 3, holds of 2, so that a lock may be outlived; Redis failures, lost replies, shutdown, crash, restart | `OverlapNeedsOverrun`; the deduplicator implements `NotifyOnce` (`NotifiesOnce`); a release frees the releasing worker's lock or, after an overrun, a sibling's (`ReleasesOwnOrSiblings`) |
| `dedup_overrun` | `DedupOverrun` | 2 instances x 1 worker, 2 events, lock 1 tick, holds up to 3 | events taken are recorded (`TakenIsProcessed`) |
| `grouper` | `Grouper` | 4 swaps of one transaction and 1 of another, 3 swaps at most, window 1, age limit 2 | `EachSwapOnce`, `BuiltWellFormed`, `GroupHasTimer`, `CleanupRemovesNothing`, `GroupCloses` |
| `pipeline` | `Pipeline` | 2 swaps of a transaction, 1 other event, 2 workers, queues of 1, shutdown at any moment | `OnePlaceEach`, `QueuedIsReported` |
| `fleet` | `Fleet` | 2 instances, each receiving both swaps of one transaction, groups of 2, 1 crash with restart | `ReportedOnce`, `ReceivedIsReported` |
| `ws_faulty` | `WsFaulty` | 3 connections, 1 retry, 1 channel, 1 caller, all faults, shutdown at any moment | `ServedIsTracked`, `FirstConnServesTracked`, `ReadsUntilServerCloses`, `Reconnects`, `StopsInTheEnd` |
| `rate` | `Rate` | 2 instances with clocks up to 2 apart, limit 2, window 5, equal readings allowed, failing and repeated checks | `CheckedWithinLimit`, `DeniedOnlyWhenFull` |
| `notification` | `Notification` | 6 messages, 5 token lists, 3 default bots, 1 change of the settings, 2 bots, a default one and the program's own, 2 attempts, failing reads, refused and lost posts, cancellation; 2 cache writers | `OnlyAsConfigured`, `SilenceHasReason`, `ErrorHasReason`, `OkMeansDelivered`, `CopiesNeedLostAnswers`, `ShownIsRecent`, `AlwaysReturns` |
| `sync` | `MCSubscriptionSync`, `Sync` | starts and requests of every operation, 2 at once, 4 in all, 2 tokens, 2 addresses, 1 stream, 3 forms, 2 configuration files; Redis commands that fail, lose their reply or are sent again, crashes | `LostOnlyToStaleWrites`, `TelegramAgrees`, `DuplicatesHaveACause`, `WantedIsSubscribed`, `SubscribedIsConfigured` |
| `pipeline_panic` | `PipelinePanic` | as `pipeline` | `NoSendAfterClose` fails |
| `ws_resubscribe` | `WsResubscribe` | 2 connections, reads may fail | `TrackedIsServed` fails |
| `hop_subject` | `NotificationHop` | as `notification`, without faults | `HopAsSubscribed` fails |

Each run but `dedup_overrun` and the last three also checks its module's type
invariant.

What some of these mean for the code:

* `OverlapNeedsOverrun`: two workers of the whole fleet run the processor of one
  event at once only after a worker has kept the event's lock for its whole TTL,
  which the code allows (a processor that retries a slow Telegram API). Lost
  answers, failed commands, crashes, restarts and late releases do not lead
  there. `NotifiesOnce` says the same of starting anew after a record, with the
  same exception.
* `ReleasesOwnOrSiblings`: the release script compares the id of the instance,
  not of the worker. That never frees another instance's lock, and a sibling's
  only after an overrun.

* `ReportedOnce`: over all instances at most one copy of a swap is in a message
  that was sent, unless an instance crashed after the swap was in its grouper
  and before it was recorded (then another instance may take it, rightly).
  `ReceivedIsReported` is the other side: dropping every other copy for good is
  safe, because the one that was taken is reported, unless a crash took it.
* `OnlyAsConfigured`: a chat gets a message only if values of the two keys that
  were in effect since the message came ask for it. It is stated on what the
  settings mean (`Recipients`), not on the order in which the code looks at them.
  `SilenceHasReason` is the converse, and lists the reasons a message may go to
  nobody. Of several entries with the message's address the first decides, for
  whatever chain it is (`Governing`): that is what the code does
  (`ChainIsRespected`, in section 4, is what it does not).
* `LostOnlyToStaleWrites`: what a request is about to write is its change of what
  is stored at that moment, every other token as it is, and its operation would
  not be refused now either, unless another request has written since it
  read. So nothing but overlapping requests loses an update: no failed command,
  no repeated one, no crash. `TelegramAgrees` and `DuplicatesHaveACause` are, in
  the same way, about the copy of the Telegram settings and about addresses:
  doubled they are only by an update, a configuration or an overtaken request.
* `WantedIsSubscribed`, `SubscribedIsConfigured`: what `Call` of each handler does
  to the subscriptions is what its change of the settings needs. They hold from
  the start of the program on, through any sequence of requests that run alone
  and do not fail half way; once `astray`, they hold again after the next
  synchronisation that runs alone.
* `ShownIsRecent`: the age of the ticker a message shows is below `CacheMaxAge`
  plus the time the event waits in the queue plus the difference of the clocks,
  however slowly the key is written and whichever writer is last.

**Why the bounds are enough.** The hazards need few actors. Two workers of one
instance and two instances cover every pair of workers of the fleet; with holds
as long as the lock's TTL there are releases in time, at its last tick and too
late, and records outlive locks. Four swaps against a limit of three fill a group and start its
transaction's next one while callbacks of the first are pending, and with a
window of one tick every order of "due", "replaced" and "full" occurs. Queues of one
are full as soon as two events meet. Two instances with two swaps of one
transaction split it in every way, and one crash with a restart meets each
point between the lock, the group, the record and the message; records do not
expire in `Fleet` because `Dedup` is about that. Three connections allow a reconnection
after a reconnection; `MaxRetries = 1` distinguishes the first attempt, the last
and the one refused. Limit 2 with three calls is the first that must be denied,
and the run is longer than window and slack together, so entries do age out;
the script runs when its time was read (`Delay = 0`) in this run, the proof
has any delay. In `Notification` one change suffices, since a message reads each
key once at most and a change after the last read has no effect (it is left
out), and `RetryCount = 1` has a first and a last attempt. The lists are: no
token; one address on two chains, muted for the message's; a token without a configuration for one stream and a muted one for the
other; one with filters and bots of its own; one muted as a whole with a bot
switched off; two tokens. The TTL of the cache is longer than the maximum age and a SET
may take as long as that, so stale data do get written over newer. In `Sync` two
overlapping requests are what a lost update, an overtaken write of the two keys
and an overtaken call need; two tokens and two addresses are what a duplicate
and somebody else's update need; one configuration file lists an address twice;
the forms post all toggles, a toggle against the token's and one for a stream
that is not listed. Posted ids may exist already. `MaxRequests = 4` makes a
start followed by three requests, `MaxOverlapping = 3` lets the start and the
next two of them be begun at any time; the fourth waits for the others, which is
what the synchronisation that repairs the subscriptions needs: to run alone.
The proofs have neither bound.

**Fairness.** Only what the program's scheduling gives: a goroutine that can run
does (Go's scheduler), a Redis command, a POST, a dial or a write ends (all have
timeouts), a due timer fires and its goroutine gets the mutex, time passes, a
shutdown that began proceeds to Close. `NotificationFairSpec` makes the worker
go on with the message it has and each bot's goroutine with its attempts;
`FleetFairSpec` makes workers, timers and queues of each instance go on, one
copy at a time. Nothing is assumed to make events arrive, callers call,
administrators act, Cleanup run, instances crash or start again, or shutdowns
begin.

Deadlock is not checked (`CHECK_DEADLOCK FALSE`) where the model really may
stop: after a shutdown or a panic, a message delivered, the time bound of
`RateLimiter`, or the last request of a configuration without crashes.

**Conditions a reader should know.**
What the code does not ensure is an exception the property itself names, by a
ghost variable that says when it applies, and the property without it is kept
as a counterexample (section 4): `overran` in `OverlapNeedsOverrun`,
`ReleasesOwnOrSiblings` and (as `lapsed`) `NotifiesOnce`; `stale` in
`LostOnlyToStaleWrites` and `DuplicatesHaveACause`; `torn` in `TelegramAgrees`;
`astray` in `WantedIsSubscribed` and `SubscribedIsConfigured`. `astray` is set by a
request that begins while another one is served, a command that failed after
the settings may have been written or before a delete could see its token, a
synchronisation or a start that could not read the settings, `UpdateTokenStreams`,
and leaving channels that another token of the same address has; a start, or a
synchronisation that ran alone, clears it. `WantedIsSubscribed` is about streams
switched on by adding or toggling.
`CleanupRemovesNothing` speaks of Cleanup before any timer or callback was kept
waiting (`late`). `CheckedWithinLimit` is about the calls the script allowed, in
intervals shorter than the window by the clocks' and delays' slack, and it counts
members of the sorted set, that is, different milliseconds, not messages
(`RateSameMs`). `ServedIsTracked` and `FirstConnServesTracked` need one caller at
a time, which the mutex of the subscription manager ensures.

## 4. Promises the code does not keep

The three runs marked "fails" above are the findings recorded in `PROJECT.json`:

* `pipeline_panic`: main.go:469 "Close WebSocket first (stops incoming events)".
  Close does not wait for the read loop, nothing stops the grouper's timers, and
  both may send on a channel that Stop has closed.
* `ws_resubscribe`: after a reconnection nothing is subscribed, while the list
  of tracked channels, which the subscription manager relies on, is unchanged.
* `hop_subject`: handler.go:910 "Determine subscribed token by checking which
  token appears in all swaps". The code takes token 0 of the first swap
  (handler.go:916), so the settings that decide about a buy are those of the
  token it is paid with, or none.

The modules state further promises of comments and documents that the models
violate. Where a configuration is kept for it, it ends in a counterexample
within seconds; the others are reproduced by putting the property into the
configuration named, as its only invariant. The module is that of the run with
the same prefix (`MCSubscriptionSync` for `Store*` and `Sync*`), except `Dedup` for
`DedupSiblings` and `Delivery` for `Delivery*`.

| configuration | property | promise | what happens |
|---|---|---|---|
| `DedupSafe` with | `OneProcessor` | README.md:334 "Only the instance that acquires the lock processes the event" | the lock lives 30s and is not extended; a processor that retries a slow Telegram API takes longer |
| `DedupSiblings` | `ReleasesOwnLock` | deduplicator.go:125 "Only release if we own the lock" | the owner is the instance: a worker whose lock expired frees the one of a sibling |
| `Pipeline` with | `StopDrains` | main.go:476 "drain queue" | workers see the cancelled context first and leave accepted events behind |
| `Fleet` with | `NotSplit` | handler.go:589 "show the FULL context" | the swaps of one transaction are taken by two instances, each reports a part |
| `Fleet` with | `RecordedIsNotLost` | deduplicator.go:146 "marks an event as processed" | a swap is recorded when it is in the grouper; a crash before its message loses it for every instance |
| `WsPeerClose` | `ReadsUntilStopped` | README.md:7 "auto-reconnection" | a close frame of the server ends the read loop for good |
| `WsLeak` | `ClosedForGood` | client.go:566 "closes ... gracefully" | a connection dialled while Close runs is installed and stays open |
| `WsNil` | `NoNilConn` | the same | `setupPingPong` uses `c.conn` after Close set it to nil |
| `WsWriters` | `OneWriter` | client.go:443 "Send sends a message" | ping and Subscribe write at the same time, which panics |
| `RateSameMs` | `WithinLimit` | README.md:282 "Limit to 10 messages per minute" | checks of one millisecond are one member of the sorted set |
| `RateFailOpen` | `WithinLimit` | the same | an error of the check lets the message pass |
| `RateRetry` | `DeniedMeansSent` | ratelimiter.go:36 | a repeated script uses up a place without a message |
| `DeliveryTwice` | `OneCopy` | README.md:336 "Only one Telegram notification is sent" | a post whose answer is lost is repeated |
| `DeliveryCount` | `SentCountRight` | handler.go:1442 `sent_count` | the channel is drained before its length is taken: all bots are counted |
| `NotificationChains` | `ChainIsRespected` | repository.go:163 (one entry per address and chain) | the first entry with the address decides, also for the other chain |
| `Notification` with | `FailureIsReported` | the error results of `sendNotification` | a failed read of the default bot, or of the tokens without the program's own notifier, ends in success without a message |
| `Notification` with | `ShownWithinMaxAge` | ticker_cache.go:19 "maximum age for cached data to be considered valid for display" | the stamp is taken after the queue, by another clock |
| `StoreLost` | `WritesAreAtomic` | settings.go:438 "Token created" | of two overlapping requests the later SET discards the other's change |
| `StoreUnique` | `UniqueAddress` | repository.go:163 "Check for duplicate address" | UpdateToken does not check, nor does Initialize |
| `StoreWipe` | `ToggleKeepsConfig` | repository.go:299 "toggles notification" | the stream's bots and filters are dropped |
| `StoreTelegramRace` | `TelegramAlwaysAgrees` | repository.go:95 "for quick access" | two overlapping requests leave the two keys different |
| `SyncDisabled` | `DisabledIsUnsubscribed` | settings.go:594 (handlers) | the next synchronisation subscribes a disabled token again |
| `SyncStreams` | `WantedAlwaysSubscribed` | settings.go:478 (handlers) | changing a token's streams changes no subscription |
| `SyncOwn` | `OwnIsSubscribed` | the same | storing a configuration for a stream that was switched off re-enables it without a subscription |
| `SyncRace` | `WantedAlwaysSubscribed` | settings.go:602 (handlers) | the calls of two requests overtake each other after their writes |

A property of `TxGrouper`, `WindowRestarts` (the window is measured from the
last swap), has no configuration: a callback that was already waiting closes the
group although AddSwap has just restarted its window.

## 5. What is proved

For all values of the constants, from the named assumptions of the modules
(positive TTLs, windows, limits and queue sizes; the null values are not members
of the sets they complete; each swap has a hash; the settings' records are well
formed, and the program's own notifier, which is no record of the settings, is
none of their bots). Every invariant below is `Spec => []Inv` of its module.
Hypotheses beyond these are stated with the theorem. A set operator before an
infix one is parenthesised throughout, `(UNION S) \cup T`: TLC and tlapm read
the form without parentheses differently.

`DedupProofs`:

* `TypeCorrect`: `TypeOK`.
* `Exclusion`: `OverlapNeedsOverrun`, whatever the TTLs and the length of holds. It
  is not inductive: that a key exists says nothing of who is behind it. The
  inductive invariant `IInv` adds `Claim`: a worker between SETNX and release, of
  an event that is not overrun, is the creator of its event's key, and the key's
  remaining life is the TTL less the worker's hold. Two claims on one key
  contradict each other, and a claim cannot expire before it is overrun.
* `ImplementsNotifyOnce`: `Spec => NotifiesOnce`. A step to `"process"` is `Begin`,
  or a stutter if the event is run already; a record is `Finish`, which ends the
  run unless, in a lapsed event, another worker runs on (`Claim` excludes this
  otherwise); the death of an instance is `Abandon`, a tick `Elapse`.
* `ReleasesNoForeignLock`: `ReleasesOwnOrSiblings`, by `Claim` and by `OwnerInv`, an
  existing key was created by a worker of the instance it names.

`TxGrouperProofs`:

* `GrouperTypeCorrect`, `SwapsConserved` (`EachSwapOnce`), `NoGroupLeftBehind`
  (`GroupHasTimer`), `NotificationsWellFormed` (`BuiltWellFormed`), from one
  inductive invariant `GInv`. Beyond these four it needs `EntryInv`: an entry's
  swaps carry its hash, it is finite and below the limit, its timer is one of
  its own swaps, and a missing entry has no timer. That timers belong to swaps
  of the group is why a late callback of an earlier group cannot be the timer of
  the present one.
* `CleanupIsIdle`: if `(MaxSwaps - 1) * GroupWindow <= MaxAge` (9 x 500ms against
  10s), Cleanup removes nothing before a timer was late. The invariant `AgeInv`
  bounds a group's age plus its timer's rest by one window per swap it holds.

`EventPipelineProofs`, which builds on the lemmas of `TxGrouperProofs`:

* `PipelineRunsGrouper`: `PipelineSpec => GrouperSpec`. Every step of the
  pipeline, shutdown and panic included, is a step of the grouper or leaves it
  alone, so all of the above holds inside the pipeline.
* `PipelineTypeCorrect` (`PipelineTypeOK`) and `EventsConserved`
  (`OnePlaceEach`). Inductive is `PInv`: until a panic, each event read is in
  exactly one of nine places (`One`), nothing else is in them (`Inside`), and
  nothing is twice in a queue or in two hands (`EventsOnce`, `BatchesOnce`,
  `HandsOnce`), without which taking an event from a place would not remove it.
  A step then either gathers a set of events in one place or moves nothing.

`WsClientProofs`:

* `WsTypeCorrect` (`WsTypeOK`), and `ReadsOn` (`ReadsUntilServerCloses`) by
  `ExitInv`: a close frame that the read loop met stays on its connection unless
  Close is under way.
* `ServedTracked` (`ServedIsTracked`) and `TrackedServedAtFirst`
  (`FirstConnServesTracked`), for one caller at a time. `ConnInv` says what
  connections can be written to: one that is not open streams nothing, one that
  was dialled but not installed was never written to, and before the second one
  is installed nobody writes to another than the first. `CallInv` then relates
  the list, as the call in progress is about to leave it, with what the server
  streams.

`RateLimiterProofs`, for every skew, delay, fault set and number of callers:

* `RateTypeCorrect` (`RateTypeOK`; so the sorted set never exceeds the limit),
  `LimitHolds` (`CheckedWithinLimit`), `DenialsJustified` (`DeniedOnlyWhenFull`).
  The inductive invariant relates the set to the history: a reading is as old as
  `Delay` and as wrong as `Skew` at most (`StampInv`); what the script added
  stays in the set for the window less the slack, and the key's TTL does not end
  before (`SentInv`); nothing else is in the set (`ZsetInv`). The members of an
  interval are thus all in the set when its last one is added, and a full set
  consists of recent additions.

`NotificationProofs`, first about `Delivery` alone:

* `DeliveryInvariant`, and from it `DeliveryTyped`, `OkDelivered`,
  `ErrorExhausted` and `CopiesJustified`: which goroutines exist, what errors
  they left, and how attempts, copies and lost answers of a bot count up.

then about `Notification`:

* `NotificationTyped` (`NotificationTypeOK`). `ChoiceInv` says that what is asked
  for a message are bots of some settings or the program's own notifier,
  `CountsInv` and `AttemptsInv` bound what the goroutines count, `CacheInv` types
  the cache.
* `SentAsConfigured` (`OnlyAsConfigured`) and `SilenceExplained`
  (`SilenceHasReason`), for all lists of tokens, whatever they list twice.
  `ReadsInv` contains `Matched`, what the first read found in a value
  of the list that was in effect, and `DecidedInv`: the bots chosen are the
  `Recipients` of such a value and of one of the default bot. The loop of the
  code and the property's `Governing` entry meet in a lemma on the first entry.
* `NotifiedIsDelivered` (`OkMeansDelivered`), `ErrorExplained`
  (`ErrorHasReason`) and `CopiesExplained` (`CopiesNeedLostAnswers`): `ChatsInv` ties chats to the bots chosen, whichever they are, and
  `AttemptsInv` counts attempts.
* `ShownRecent` (`ShownIsRecent`) by `CacheInv`: from the moment it is stamped a
  ticker ages with its stamp, which is behind by the queue and the clocks at
  most.

`FleetProofs`, which also builds on `TxGrouperProofs`:

* `FleetReportsOnce` (`ReportedOnce`), from `FInv`: of each swap at most one copy
  is with a worker, in a group or reported (`OneCopyEach`), and one that is in a
  group or reported is under its worker's lock or a record (`Protected`), each
  unless a crash ended its processing. The deduplicator enters by its
  contract alone.
* `FleetTyped` (`FleetTypeOK`), from `TInv`, which adds that groups hold copies
  of their own transactions and that no two workers have the same swap.
* `FleetForgetsNothing` (`NothingForgotten`): what came to some instance is being
  processed, grouped, queued, in a message, removed by Cleanup, or was lost by a
  crash. This is what `ReceivedIsReported` leaves to safety; dropping copies is
  harmless because whatever makes an instance drop one, a lock or a record, stands
  for a copy that is kept or for a crash (`KeptInv`). Inductive it is only
  with the converse for groups: a set of swaps that was built is queued, in a
  message or lost by a crash, so that it need not be queued when it is built again.

`SubscriptionSyncProofs`, about the settings, the requests on them and the
subscriptions, for every set of operations `Ops`, fault set, configuration
files, forms, and numbers of requests at once, tokens, addresses and streams:

* `StoreTyped` (`StoreTypeOK`) and `SyncTyped` (`SyncTypeOK`). A request at a step
  is one that gets there (`StepFits`: only it has read what the step writes), and
  whoever holds the mutex is synchronising (`SyncOK`).
* `UpdatesNotLost` (`LostOnlyToStaleWrites`): inductive is `Current(a)`, which follows
  a request from its first read (for UpdateStreamConfig the handler's) to its
  last write: while not `stale`, what it has read is what is stored. A step of
  another request that writes makes it stale (`StepWarns`).
* `TelegramCopied` (`TelegramAgrees`), by `KeysAgree`: the keys agree, or somebody is
  writing, or `torn`. When the last writer is done it has written both, and
  `Current` says that the first is still its own unless it is stale.
* `DuplicatesExplained` (`DuplicatesHaveACause`): an action property, from
  `Current` and what each operation makes of a list without duplicates.
  These invariants together are `StoreInv`.
* `SyncIsStore`: `SyncSpec => StoreSpec`, every step of an instance is one of the
  settings or leaves them alone, and hence `InstanceAsStore`, the three above for
  an instance.
* `WantedSubscribed` (`WantedIsSubscribed`) and `NothingElseSubscribed`
  (`SubscribedIsConfigured`), from `SyncInv`. `AloneInv` says that what is not `astray`
  is one request, alone. `FitInv` is about it: the subscriptions fit the settings
  (`Fits`) until it reads them; what it is about to write is fitted by what its
  call will leave (`AfterCall`); after the write this is so of what is stored.
  `ActiveInv` adds that what the synchronisation has read is still what the
  settings say. For each operation a lemma relates the change of the list to
  the change of the channels (`AddedFits`, `RemovedFits`, `SwitchedOff`, ...).

None of these has a hypothesis: the exceptions are those the properties name.

Only model-checked: the liveness properties `TakenIsProcessed`, `GroupCloses`,
`QueuedIsReported`, `ReceivedIsReported`, `Reconnects`, `StopsInTheEnd` and
`AlwaysReturns`, since the prover does not handle fairness and ENABLED. Every
invariant of a passing run is a theorem.

## 6. Not modelled

* Pub/sub and the heartbeat: they publish, and what receives it only logs.
* The count kept by the notifier itself (`checkRateLimit`): `Notification` lets
  it answer yes or no at any time. Only the program's own notifier lives longer
  than one message, and no document promises a bound beyond its fixed window.
* The subscriptions of the instances that did not serve a web request: nothing
  in the code tells them, so there is nothing they could keep.
* What errors of the client do to the subscription manager, and the
  case-insensitive comparison of addresses in some places against the exact one
  in others.
* Filters of the handler: no filter is ever registered (`AddFilter` has no
  caller). Likewise without a caller, and left out: `WaitForSlot`,
  `GetCurrentCount`, `RemainingCapacity`, `Reset`, `SubscribeToken`,
  `MultiNotifier`, and `Delete`, `Clear` and `SetMaxAge` of the ticker cache.
* Configuration, logging, JSON decoding, text formatting, pages and templates,
  `cmd/wstest`: no state that lasts, or none that matters to the rest.

## 7. Plan

Done: 1 `NotifyOnce`/`Dedup`, 2 `TxGrouper`, 3 `EventPipeline` composing it, 4
`WsClient`, 5 `RateLimiter`, 6 `Delivery`, 7 `SettingsStore`, 8
`SubscriptionSync` composing it, 9 `TickerCache`, 10 `Notification` composing it
with `Delivery`, 11 `Fleet` composing `TxGrouper` and `NotifyOnce`; proofs of
all of these.

Next: the client's errors under the subscription manager (composing `WsClient`
with `SubscriptionSync`); queues with bounds in `Fleet`; the notifier's own
counter.

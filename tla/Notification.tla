----------------------------- MODULE Notification -----------------------------
(***************************************************************************)
(* From a message to the chats it is sent to: sendNotification,            *)
(* sendNotificationForMultiHop and sendWithGlobalConfig of                 *)
(* internal/handler/handler.go.  The settings that decide (the streams,    *)
(* toggles, filters and bots of the message's token, and the default bot)  *)
(* are two keys in Redis, read one after the other while the web interface *)
(* may change them (module SettingsStore); then comes the check of the     *)
(* rate limit (RateLimiter), then the message is sent (Delivery).  When    *)
(* there is no settings entry to go by, the program's own notifier, Global *)
(* here, sends it.                                                         *)
(***************************************************************************)
EXTENDS Delivery, TickerCache, Sequences, FiniteSetsExt

CONSTANTS Messages,    \* the messages of a run
          TokenLists,  \* values of the tokens in alert:settings
          Telegrams,   \* values of alert:settings:telegram
          MaxChanges,  \* bound: changes of the settings in a run
          Global,      \* the program's own notifier, one of Bot
          NoMessage, NoBot, NoConfig, NoMatch

ASSUME NotificationAssumption ==
  /\ Global \in Bot /\ NoBot \notin Bot
  /\ MaxChanges \in Nat

(* A message, with what the handler makes of the stream's name and the     *)
(* data: of form "hop" from the grouper, "stream" with a token and a       *)
(* stream, "plain" without (blocks, prices, alerts).  The token of a "hop" *)
(* is token 0 of its first swap; that whose stream brought it, subscribed, *)
(* is not known to the code.  A stream's configuration has bots, of which  *)
(* those in on are enabled; the program's own notifier is none of them.    *)
IsConfig(c) ==
  c = NoConfig \/ /\ c.bots \subseteq Bot \ {Global} /\ c.on \subseteq c.bots
                  /\ c.min \in Nat /\ c.filter \in {"both", "buy", "sell"}

ASSUME SettingsAssumption ==
  /\ \A m \in Messages : m.form \in {"hop", "stream", "plain"} /\ m.value \in Nat
  /\ \A g \in Telegrams : g.bot \in (Bot \ {Global}) \cup {NoBot}
  /\ \A list \in TokenLists : \A i \in DOMAIN list :
       /\ i \in Nat /\ list[i] # NoMatch
       /\ \A stream \in list[i].streams : IsConfig(list[i].config[stream])

VARIABLES message,
          tokens,       \* the tokens in alert:settings
          telegram,     \* alert:settings:telegram: [bot, enabled]
          globalOn,     \* has the program's own notifier token and chat?
          step,         \* of the handler
          config,       \* the StreamNotifyConfig it found, or NoConfig
          shown,        \* the age of the ticker it shows, or NoTicker
          changes,
          seenTokens, seenTelegram, \* history: values since it came
          readsFailed,  \* history: the reads of Redis that failed
          limited       \* history: has a rate limit stopped it?

settingsvars == <<tokens, telegram, changes, seenTokens, seenTelegram>>
notifyvars == <<message, globalOn, step, config, shown, readsFailed, limited>>
nvars == <<dvars, cachevars, settingsvars, notifyvars>>

StepName == {"idle", "tokens", "telegram", "limit", "sending",
             "done"}

NotificationTypeOK ==
  /\ DeliveryTypeOK /\ CacheTypeOK
  /\ message \in Messages \cup {NoMessage}
  /\ seenTokens \subseteq TokenLists /\ seenTelegram \subseteq Telegrams
  /\ IF step = "idle" THEN message = NoMessage
     ELSE tokens \in seenTokens /\ telegram \in seenTelegram
  /\ step \in StepName
  /\ Global \in bots => bots = {Global}
  /\ readsFailed \subseteq {"tokens", "telegram"}
  /\ changes \in 0..MaxChanges
  /\ (step = "limit" \/ bots # {}) => config = NoConfig \/ config.enabled
  /\ bots = {} => step # "limit"

NoTelegram == [bot |-> NoBot, enabled |-> FALSE]

NotificationInit ==
  /\ CacheInit
  /\ bots = {} /\ enabled = {} /\ at = AtStart({})
  /\ tries = [b \in Bot |-> 0] /\ delivered = [b \in Bot |-> 0]
  /\ errors = {} /\ lostAnswers = {} /\ cancelled = FALSE
  /\ returned = FALSE /\ result = "none" /\ sentCount = 0
  /\ message = NoMessage
  /\ tokens = <<>> /\ telegram = NoTelegram
  /\ seenTokens = {} /\ seenTelegram = {} /\ changes = 0
  /\ globalOn \in BOOLEAN
  /\ step = "idle" /\ config = NoConfig /\ shown = NoTicker
  /\ readsFailed = {} /\ limited = FALSE

-----------------------------------------------------------------------------
(* What the settings say *)

(* The loop over the tokens: the first one with the address; the chain is  *)
(* not compared.                                                           *)
Found(m, list) ==
  LET At == {i \in DOMAIN list : list[i].token = m.token} IN
  IF At = {} THEN NoMatch ELSE list[Min(At)]

(* Mutant: the token's own toggle is not looked at. *)
IgnoresTokenToggle(t, stream) ==
  /\ stream \in t.streams
  /\ t.config[stream] # NoConfig => t.config[stream].enabled

(* IsStreamNotifyEnabled. *)
IsStreamNotifyEnabled(t, stream) ==
  /\ t.notify /\ stream \in t.streams
  /\ t.config[stream] # NoConfig => t.config[stream].enabled

(* ShouldNotifyTx. *)
ShouldNotifyTx(c, type, value) ==
  /\ c.enabled
  /\ ~(c.min > 0 /\ value < c.min)
  /\ \/ c.filter = "both"
     \/ type = ""
     \/ (c.filter = "buy" => type = "buy") /\ (c.filter = "sell" => type = "sell")

(* Whether the message passes t: its stream's toggle and, for transactions *)
(* of a stream that has a configuration, its filters.                      *)
Passes(m, t) ==
  /\ IsStreamNotifyEnabled(t, m.stream)
  /\ m.stream = "tx" /\ t.config["tx"] # NoConfig =>
       ShouldNotifyTx(t.config["tx"], m.type, m.value)

(* The default bot, as a list of bots, all and enabled ones. *)
DefaultBots(g) == [all |-> IF g.bot = NoBot THEN {} ELSE {g.bot},
                   on  |-> IF g.bot = NoBot \/ ~g.enabled THEN {} ELSE {g.bot}]

(* Mutant: the default bot is told, too. *)
OwnAndDefault(c, g) ==
  IF c = NoConfig THEN DefaultBots(g)
  ELSE [all |-> c.bots \cup DefaultBots(g).all, on |-> c.on \cup DefaultBots(g).on]

(* GetTelegramBots. *)
GetTelegramBots(c, g) ==
  IF c # NoConfig /\ c.bots # {} THEN [all |-> c.bots, on |-> c.on] ELSE DefaultBots(g)

-----------------------------------------------------------------------------
(* The handler *)

AgeOf(ticker) == IF ticker = NoTicker THEN NoTicker ELSE ticker.age

CacheAlone == UNCHANGED <<dvars, settingsvars, notifyvars>>

(* A worker begins with message m, under the settings there are by then:   *)
(* the text is put together, that of a transaction with the ticker of its  *)
(* token, if the cache has it and answers.  Nothing reads the cache        *)
(* afterwards, and what it holds then is left out.                         *)
FormatMessage(m) ==
  /\ step = "idle"
  /\ message' = m
  /\ IF m.form = "hop" THEN shown' \in {AgeOf(Valid), NoTicker} ELSE UNCHANGED shown
  /\ step' = "tokens"
  /\ tokens' \in TokenLists /\ seenTokens' = {tokens'}
  /\ telegram' \in Telegrams /\ seenTelegram' = {telegram'}
  /\ coming' = [w \in Worker |-> NoTicker] /\ cached' = NoTicker
  /\ UNCHANGED <<dvars, changes, globalOn, config, readsFailed, limited>>

(* The message goes to those bots, if a rate limit allows. *)
SendTo(list) ==
  /\ bots' = list.all /\ enabled' = list.on
  /\ step' = "limit"
  /\ UNCHANGED <<at, tries, delivered, errors, cancelled, returned, result,
                 sentCount, lostAnswers>>

(* sendWithGlobalConfig. *)
SendWithGlobalConfig ==
  SendTo([all |-> {Global}, on |-> IF globalOn THEN {Global} ELSE {}])

(* return nil, without a message. *)
EndsSilently ==
  /\ returned' = TRUE /\ result' = "ok"
  /\ bots' = {} /\ enabled' = {}
  /\ step' = "done"
  /\ UNCHANGED <<at, tries, delivered, errors, cancelled, sentCount, lostAnswers>>

(* GetTokens fails. *)
TokensUnread ==
  /\ message.form # "plain" /\ "redis" \in Faults
  /\ readsFailed' = readsFailed \cup {"tokens"}
  /\ IF globalOn THEN SendWithGlobalConfig ELSE EndsSilently
  /\ UNCHANGED config

(* Mutant: a token that is not in the settings is passed over in silence. *)
NotFoundIsSilent == EndsSilently

(* "token not found, using global config". *)
NotFound == SendWithGlobalConfig

(* GetTokens succeeds. *)
TokensRead ==
  LET t == Found(message, tokens) IN
  /\ message.form # "plain"
  /\ IF t = NoMatch THEN NotFound /\ UNCHANGED config
     ELSE IF ~Passes(message, t) THEN EndsSilently /\ UNCHANGED config
     ELSE /\ config' = t.config[message.stream]
          /\ step' = "telegram"
          /\ UNCHANGED dvars
  /\ UNCHANGED readsFailed

(* No token or no stream in the event. *)
NothingToRead ==
  /\ message.form = "plain"
  /\ IF globalOn THEN SendWithGlobalConfig ELSE EndsSilently
  /\ UNCHANGED <<config, readsFailed>>

ReadTokens ==
  /\ step = "tokens"
  /\ NothingToRead \/ TokensRead \/ TokensUnread
  /\ UNCHANGED <<cachevars, settingsvars, message, globalOn, shown, limited>>

(* GetTelegram, whose error is ignored: then there is no default bot. *)
ReadTelegram ==
  /\ step = "telegram"
  /\ \E failed \in {FALSE} \cup (IF "redis" \in Faults THEN {TRUE} ELSE {}) :
       LET list == GetTelegramBots(config, IF failed THEN NoTelegram ELSE telegram) IN
       /\ IF list.all = {} THEN EndsSilently ELSE SendTo(list)
       /\ readsFailed' = IF failed THEN readsFailed \cup {"telegram"} ELSE readsFailed
  /\ UNCHANGED <<cachevars, settingsvars, message, globalOn, config, shown, limited>>

(* The goroutines start, or the program's own notifier is called: that may *)
(* be over the rate limit it keeps itself (ErrRateLimited).                *)
StartSending ==
  /\ step' = "sending"
  /\ \/ at' = AtStart(enabled) /\ UNCHANGED errors
     \/ /\ enabled = {Global}
        /\ at' = [AtStart({}) EXCEPT ![Global] = "failed"]
        /\ errors' = {Global}
  /\ UNCHANGED <<bots, enabled, tries, delivered, cancelled, returned, result,
                 sentCount, lostAnswers>>

(* rateLimiter.Allow: an error counts as a yes. *)
CheckLimit ==
  /\ step = "limit"
  /\ \/ StartSending /\ UNCHANGED limited
     \/ EndsSilently /\ limited' = TRUE
  /\ UNCHANGED <<cachevars, settingsvars, message, globalOn, config, shown, readsFailed>>

SendingStep(A) == step = "sending" /\ A /\ UNCHANGED <<cachevars, settingsvars, notifyvars>>

(* The web interface writes one of the keys.  What the handler has read it *)
(* keeps: changes after its last read have no effect and are left out.     *)
SettingsChange ==
  /\ step \in {"tokens", "telegram"}
  /\ changes < MaxChanges
  /\ changes' = changes + 1
  /\ \/ tokens' \in TokenLists \ {tokens} /\ UNCHANGED telegram
     \/ telegram' \in Telegrams \ {telegram} /\ UNCHANGED tokens
  /\ seenTokens' = seenTokens \cup {tokens'}
  /\ seenTelegram' = seenTelegram \cup {telegram'}
  /\ UNCHANGED <<dvars, cachevars, notifyvars>>

(* Tickers come and go until the message is put together. *)
TickerStep ==
  /\ step = "idle"
  /\ CacheNext
  /\ CacheAlone

HandlerNext == ReadTokens \/ ReadTelegram \/ CheckLimit
BotStep(b) == SendingStep(Post(b) \/ PostReturns(b) \/ Resume(b))

NotificationNext ==
  \/ TickerStep \/ SettingsChange
  \/ \E m \in Messages : FormatMessage(m)
  \/ HandlerNext
  \/ \E b \in Bot : BotStep(b)
  \/ SendingStep(Return)
  \/ SendingStep(CancelContext)

NotificationSpec == NotificationInit /\ [][NotificationNext]_nvars

(* The worker and its goroutines go on: Redis and Telegram answer or time  *)
(* out.                                                                    *)
NotificationFairSpec ==
  /\ NotificationSpec
  /\ WF_nvars(HandlerNext) /\ WF_nvars(SendingStep(Return))
  /\ \A b \in Bot : WF_nvars(BotStep(b))

-----------------------------------------------------------------------------
(* Properties *)

(* What the settings ask for.  The first entry with the message's address  *)
(* decides, whatever its chain: the web interface keeps addresses apart    *)
(* only on one chain and when a token is added.                            *)
Governing(m, list) == {list[i] : i \in {j \in DOMAIN list :
                         /\ list[j].token = m.token
                         /\ \A k \in DOMAIN list : list[k].token = m.token => j <= k}}

OfItsChain(m, list) == {t \in {list[i] : i \in DOMAIN list} :
                          t.token = m.token /\ t.chain = m.chain}

Wanted(m, t) ==
  LET c == t.config[m.stream] IN
  /\ t.notify /\ m.stream \in t.streams
  /\ c # NoConfig => /\ c.enabled
                     /\ m.stream = "tx" =>
                          m.value >= c.min /\ (c.filter = "both" \/ m.type \in {c.filter, ""})

RecipientsBy(entries, m, g) ==
  IF m.form = "plain" \/ entries = {}
    THEN IF globalOn THEN {Global} ELSE {}
    ELSE UNION {IF ~Wanted(m, t) THEN {}
                ELSE IF t.config[m.stream] # NoConfig /\ t.config[m.stream].bots # {}
                       THEN t.config[m.stream].on
                ELSE IF g.enabled THEN {g.bot} \ {NoBot} ELSE {} :
                  t \in entries}
Recipients(m, list, g) == RecipientsBy(Governing(m, list), m, g)

(* A message is in a chat only if settings in effect since it came ask for *)
(* that, or the program's own notifier stood in for settings it could not  *)
(* read: whatever is muted, filtered out or given bots of its own stays    *)
(* so, however requests interleave with the two reads.                     *)
OnlyAsConfigured ==
  \A b \in Bot : delivered[b] > 0 =>
    \/ \E list \in seenTokens, g \in seenTelegram : b \in Recipients(message, list, g)
    \/ b = Global /\ "tokens" \in readsFailed

(* No message is silently left out: success without a delivery means that  *)
(* settings in effect since it came ask for none, that a rate limit said   *)
(* no, or that settings could not be read.                                 *)
SilenceHasReason ==
  result = "ok" /\ (\A b \in Bot : delivered[b] = 0) =>
    \/ limited
    \/ "telegram" \in readsFailed
    \/ "tokens" \in readsFailed /\ ~globalOn
    \/ \E list \in seenTokens, g \in seenTelegram : Recipients(message, list, g) = {}

(* An error is returned only after some bot used up all its attempts, was  *)
(* cancelled, or for the program's own notifier over its rate limit: no    *)
(* bot gives up early because another one failed.                          *)
ErrorHasReason ==
  result = "error" => ErrorMeansExhausted \/ (enabled = {Global} /\ tries[Global] = 0)

(* What a message shows of its token came within the maximum age, the      *)
(* queue and the difference of the clocks.                                 *)
ShownIsRecent == Recent(shown)

(* Every message that a worker has begun with comes to an end.             *)
AlwaysReturns == step # "idle" ~> returned

-----------------------------------------------------------------------------
(* Promises that are not kept *)

(* "Determine subscribed token by checking which token appears in all      *)
(* swaps": a transaction goes where the settings of the subscribed token   *)
(* send it.                                                                *)
HopAsSubscribed ==
  \A b \in Bot : delivered[b] > 0 /\ message.form = "hop" =>
      \/ "tokens" \in readsFailed
      \/ \E list \in seenTokens, g \in seenTelegram :
           b \in Recipients([message EXCEPT !.token = message.subscribed], list, g)

(* Entries are told apart by chain ("token already exists: %s on %s"): a   *)
(* message of one chain goes where the entry for that chain sends it.      *)
ChainIsRespected ==
  \A b \in Bot : delivered[b] > 0 =>
    \/ \E list \in seenTokens, g \in seenTelegram :
         b \in RecipientsBy(OfItsChain(message, list), message, g)
    \/ b = Global /\ "tokens" \in readsFailed

(* "maximum age for cached data to be considered valid for display".       *)
ShownWithinMaxAge == WithinMaxAge(shown)

(* A failure to read the settings surfaces as an error.                    *)
FailureIsReported ==
  result = "ok" /\ (\A b \in Bot : delivered[b] = 0) => readsFailed = {}
=============================================================================

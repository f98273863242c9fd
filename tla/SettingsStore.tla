---------------------------- MODULE SettingsStore ----------------------------
(***************************************************************************)
(* The settings kept in Redis (internal/settings/repository.go and         *)
(* service.go) under concurrent requests of the web interface              *)
(* (internal/web/handlers/settings.go) and the start of the program.  All  *)
(* tokens and a copy of the Telegram settings live in ONE value, that of   *)
(* the key alert:settings, which every operation reads, changes in memory  *)
(* and writes back, without a transaction; the Telegram settings are       *)
(* written to a key of their own after it.                                 *)
(*                                                                         *)
(* Each Redis command is a step.  A token is what decides notifications    *)
(* and subscriptions: its id, its address (with its chain), its streams,   *)
(* its toggle and, per stream, the stored configuration: "unset", "on" or  *)
(* "off" for a bare toggle, "own" for what UpdateStreamConfig has written  *)
(* (bots, filters, limits, switched on or off).                            *)
(***************************************************************************)
EXTENDS Integers, SequencesExt

CONSTANTS Admin,                 \* requests served at the same time
          Token,                 \* ids of tokens
          Address, Stream,
          Telegram,              \* values of the Telegram settings
          DefaultTelegram,       \* the one of NewDefaultSettings
          Form,                  \* the forms that are posted
          ConfigFile,            \* the configuration files of the starts
          Ops,                   \* the operations requested, of AllOps
          MaxRequests,           \* bound on the requests that are begun
          MaxOverlapping,        \* later ones than so many wait for the others
          Faults,                \* what may go wrong, of FaultKinds
          NoToken, NoRequest, NoMap

StartOps == {"initialize", "reset"}    \* without and with --reset
AllOps == {"add", "update", "delete", "notify", "streams", "stream", "config",
           "telegram"} \cup StartOps
FaultKinds == {"redis", "crash"}

Toggle == {"unset", "on", "off"}
Config == Toggle \cup {"own"}
TokenSettings == [id : Token, address : Address, streams : SUBSET Stream,
                  notify : BOOLEAN, config : [Stream -> Config]]
Settings == [tokens : Seq(TokenSettings), telegram : Telegram]
StepName == {"idle", "peek", "telegramFirst", "clear", "exists", "load", "save",
             "saveTelegram", "done"}

(* A form gives a toggle per stream (stream_notify) or none at all. *)
TokenFormData == [address : Address, streams : SUBSET Stream, notify : BOOLEAN,
                  streamNotify : [Stream -> Toggle] \cup {NoMap}]
(* What the program reads from its configuration: no ids, no toggles.      *)
ConfigData == [tokens : Seq([address : Address, streams : SUBSET Stream]),
               telegram : Telegram]

ASSUME StoreAssumption ==
  /\ DefaultTelegram \in Telegram
  /\ Form \subseteq TokenFormData /\ ConfigFile \subseteq ConfigData
  /\ Ops \subseteq AllOps /\ Faults \subseteq FaultKinds
  /\ MaxRequests \in Nat /\ MaxOverlapping \in Nat

VARIABLES settings,     \* value of alert:settings (the default if none)
          stored,       \* does that key exist?
          telegramKey,  \* value of alert:settings:telegram
          at,           \* [Admin -> StepName]
          request,      \* [Admin -> request, or NoRequest]
          copy,         \* [Admin -> token the handler has read, or NoToken]
          mine,         \* [Admin -> settings it is going to write]
          stale,        \* history [Admin -> BOOLEAN]: has alert:settings been
                        \* written since the request read, or last wrote, it?
          torn,         \* history: was the last write of the two keys cut in
                        \* half, or overtaken between them?
          begun         \* number of requests begun, for the bound

store == <<settings, stored, telegramKey>>
local == <<at, request, copy, mine>>
history == <<stale, torn>>
svars == <<store, local, history, begun>>

NewDefaultSettings == [tokens |-> <<>>, telegram |-> DefaultTelegram]

(* What a request asks for. *)
Requests ==
       {[op |-> o, id |-> t, form |-> f] : o \in Ops \cap {"add", "update"}, t \in Token, f \in Form}
  \cup {[op |-> o, id |-> t] : o \in Ops \cap {"delete"}, t \in Token}
  \cup {[op |-> o, id |-> t, enabled |-> b] : o \in Ops \cap {"notify"}, t \in Token, b \in BOOLEAN}
  \cup {[op |-> o, id |-> t, streams |-> ss] :
          o \in Ops \cap {"streams"}, t \in Token, ss \in SUBSET Stream}
  \cup {[op |-> o, id |-> t, stream |-> s, enabled |-> b] :
          o \in Ops \cap {"stream"}, t \in Token, s \in Stream, b \in BOOLEAN}
  \cup {[op |-> o, id |-> t, stream |-> s] :
          o \in Ops \cap {"config"}, t \in Token, s \in Stream}
  \cup {[op |-> o, telegram |-> g] : o \in Ops \cap {"telegram"}, g \in Telegram}
  \cup {[op |-> o, file |-> f] : o \in Ops \cap StartOps, f \in ConfigFile}

(* The marks for nothing are none of the things they stand in for. *)
ASSUME NullsAssumption ==
  NoToken \notin TokenSettings /\ NoRequest \notin Requests /\ NoMap \notin [Stream -> Toggle]

InProgress == {a \in Admin : request[a] # NoRequest}
Pending(ops) == {a \in InProgress : request[a].op \in ops}

StoreTypeOK ==
  /\ settings \in Settings /\ stored \in BOOLEAN
  /\ telegramKey \in Telegram
  /\ at \in [Admin -> StepName]
  /\ request \in [Admin -> Requests \cup {NoRequest}]
  /\ copy \in [Admin -> TokenSettings \cup {NoToken}]
  /\ mine \in [Admin -> Settings]
  /\ stale \in [Admin -> BOOLEAN] /\ torn \in BOOLEAN
  /\ begun \in 0..MaxRequests
  /\ \A a \in Admin : (at[a] = "idle") <=> (a \notin InProgress)
  /\ \A a \in Pending({"notify", "stream", "config"}) :
       at[a] # "peek" => copy[a] # NoToken

StoreInit ==
  /\ settings = NewDefaultSettings /\ stored = FALSE
  /\ telegramKey = DefaultTelegram
  /\ at = [a \in Admin |-> "idle"]
  /\ request = [a \in Admin |-> NoRequest]
  /\ copy = [a \in Admin |-> NoToken]
  /\ mine = [a \in Admin |-> NewDefaultSettings]
  /\ stale = [a \in Admin |-> FALSE] /\ torn = FALSE
  /\ begun = 0

-----------------------------------------------------------------------------
(* The operations on what was read *)

(* ToTokenSettings: a stream_notify map sets toggles whatever streams are  *)
(* listed; without one the listed streams get the token's toggle.          *)
ToTokenSettings(t, form) ==
  [id |-> t, address |-> form.address, streams |-> form.streams, notify |-> form.notify,
   config |-> IF form.streamNotify # NoMap THEN form.streamNotify
              ELSE [s \in Stream |-> IF s \notin form.streams THEN "unset"
                                     ELSE IF form.notify THEN "on" ELSE "off"]]

(* convertTokenConfigs, with the ids that Initialize generates. *)
ConfigTokens(file, ids) ==
  [i \in DOMAIN file.tokens |->
     [id |-> ids[i], address |-> file.tokens[i].address, streams |-> file.tokens[i].streams,
      notify |-> TRUE, config |-> [s \in Stream |-> "unset"]]]

Exists(t, tokens) == \E i \in DOMAIN tokens : tokens[i].id = t

(* An id may be there twice, since a posted one is not checked: every      *)
(* operation takes the first entry that has it.                            *)
IndexOf(t, tokens) ==
  CHOOSE i \in DOMAIN tokens :
    tokens[i].id = t /\ \A j \in DOMAIN tokens : tokens[j].id = t => i <= j

GetToken(t, tokens) == IF Exists(t, tokens) THEN tokens[IndexOf(t, tokens)] ELSE NoToken

(* AddToken's "Check for duplicate address". *)
HasAddress(x, tokens) == \E i \in DOMAIN tokens : tokens[i].address = x

(* Mutant: a token is added whatever its address. *)
NoDuplicateCheck(r, tokens) ==
  CASE r.op \in {"add", "telegram"} \cup StartOps -> FALSE
    [] OTHER -> ~Exists(r.id, tokens)

(* The operation returns an error and writes nothing. *)
Refused(r, tokens) ==
  CASE r.op = "add" -> HasAddress(r.form.address, tokens)
    [] r.op = "stream" -> ~Exists(r.id, tokens) \/ r.stream \notin GetToken(r.id, tokens).streams
    [] r.op \in {"telegram"} \cup StartOps -> FALSE
    [] OTHER -> ~Exists(r.id, tokens)

(* UpdateTokenStreams, with InitStreamNotify for the streams that are new. *)
WithStreams(token, ss) ==
  [token EXCEPT !.streams = ss,
                !.config = [s \in Stream |->
                              IF s \in ss /\ token.config[s] = "unset"
                                THEN (IF token.notify THEN "on" ELSE "off")
                                ELSE token.config[s]]]

(* The token of a request after it, c being the handler's copy, which      *)
(* UpdateStreamConfig writes back as a whole.  ToggleStreamNotify stores a *)
(* StreamNotifyConfig that has only Enabled.                               *)
NewToken(r, c, token) ==
  CASE r.op = "update"  -> ToTokenSettings(r.id, r.form)
    [] r.op = "notify"  -> [token EXCEPT !.notify = r.enabled]
    [] r.op = "streams" -> WithStreams(token, r.streams)
    [] r.op = "stream"  -> [token EXCEPT !.config[r.stream] = IF r.enabled THEN "on" ELSE "off"]
    [] r.op = "config"  -> [c EXCEPT !.config[r.stream] = "own"]

ChangedTokens(r, c, tokens) ==
  CASE r.op = "add"    -> Append(tokens, ToTokenSettings(r.id, r.form))
    [] r.op = "delete" -> RemoveAt(tokens, IndexOf(r.id, tokens))
    [] OTHER -> LET i == IndexOf(r.id, tokens) IN
                [tokens EXCEPT ![i] = NewToken(r, c, tokens[i])]

Changed(r, c, s) ==
  IF r.op = "telegram" THEN [s EXCEPT !.telegram = r.telegram]
  ELSE [s EXCEPT !.tokens = ChangedTokens(r, c, s.tokens)]

-----------------------------------------------------------------------------
(* A request, command by command *)

Goes(a, step) == at' = [at EXCEPT ![a] = step]

(* The response is sent (an error leaves nothing else to do). *)
Responds(a) ==
  /\ Goes(a, "idle")
  /\ request' = [request EXCEPT ![a] = NoRequest]
  /\ copy' = [copy EXCEPT ![a] = NoToken]
  /\ mine' = [mine EXCEPT ![a] = NewDefaultSettings]

(* The request is about to write what it has read, or has read the token   *)
(* that it will write, or is between its two writes.                       *)
HasRead(a) ==
  \/ at[a] \in {"save", "saveTelegram"}
  \/ at[a] = "load" /\ request[a].op = "config"

(* What the writes of the other requests are based on has changed. *)
Overtaken(a) == [b \in Admin |-> b # a /\ (stale[b] \/ HasRead(b))]
Reread(a) == [stale EXCEPT ![a] = FALSE]

(* Between these steps the two keys may differ. *)
Writing(a) ==
  \/ at[a] \in {"telegramFirst", "save", "saveTelegram"}
  \/ at[a] = "load" /\ request[a].op = "telegram"

FirstStep(op) ==
  CASE op \in {"delete", "notify", "stream", "config"} -> "peek"
    [] op = "telegram"   -> "telegramFirst"
    [] op = "initialize" -> "exists"
    [] op = "reset"      -> "clear"
    [] OTHER             -> "load"

(* The id of an added token is generated, or is the one the form brings.   *)
Begin(a, r) ==
  /\ at[a] = "idle"
  /\ begun < MaxRequests /\ begun' = begun + 1
  /\ begun < MaxOverlapping \/ InProgress = {}
  /\ request' = [request EXCEPT ![a] = r]
  /\ Goes(a, FirstStep(r.op))
  /\ UNCHANGED <<store, copy, mine, history>>

(* The handler's own GetToken.  Only DeleteToken goes on without a token;  *)
(* UpdateStreamConfig also wants the stream to be one of the token's.      *)
Peek(a) ==
  LET r == request[a]
      token == GetToken(r.id, settings.tokens)
      goOn == CASE r.op = "delete" -> TRUE
                [] r.op = "config" -> token # NoToken /\ r.stream \in token.streams
                [] OTHER           -> token # NoToken IN
  /\ at[a] = "peek"
  /\ IF goOn THEN /\ copy' = [copy EXCEPT ![a] = token]
                  /\ Goes(a, "load")
                  /\ UNCHANGED <<request, mine>>
             ELSE Responds(a)
  /\ UNCHANGED <<store, history>>

(* Mutant: the main settings are not updated too. *)
SetTelegramOnly(a) ==
  /\ at[a] = "telegramFirst"
  /\ telegramKey' = request[a].telegram
  /\ Responds(a)
  /\ UNCHANGED <<settings, stored, history>>

(* SaveTelegram: the key of its own comes first. *)
SetTelegram(a) ==
  /\ at[a] = "telegramFirst"
  /\ telegramKey' = request[a].telegram
  /\ Goes(a, "load")
  /\ UNCHANGED <<settings, stored, request, copy, mine, history>>

Cleared ==
  /\ settings' = NewDefaultSettings /\ stored' = FALSE
  /\ telegramKey' = DefaultTelegram

(* ClearAll, when the program is started with --reset: every key of the    *)
(* settings is deleted, by one DEL.                                        *)
ClearAll(a) ==
  /\ at[a] = "clear"
  /\ Cleared
  /\ stale' = Overtaken(a) /\ torn' = FALSE
  /\ Goes(a, "exists")
  /\ UNCHANGED <<request, copy, mine>>

(* Ids of tokens that some entry or some request has. *)
UsedIds ==
  {settings.tokens[i].id : i \in DOMAIN settings.tokens}
    \cup {request[a].id : a \in InProgress \ Pending({"telegram"} \cup StartOps)}

(* Initialize: nothing to do when alert:settings exists; otherwise the     *)
(* whole list of the configuration gets fresh ids.  Nobody compares their  *)
(* addresses.                                                              *)
CheckExists(a) ==
  LET file == request[a].file IN
  /\ at[a] = "exists"
  /\ \/ stored /\ Goes(a, "done") /\ UNCHANGED mine
     \/ /\ ~stored
        /\ \E ids \in [DOMAIN file.tokens -> Token \ UsedIds] :
             /\ \A i, j \in DOMAIN ids : ids[i] = ids[j] => i = j
             /\ mine' = [mine EXCEPT ![a] = [tokens |-> ConfigTokens(file, ids),
                                             telegram |-> file.telegram]]
        /\ Goes(a, "save")
  /\ stale' = Reread(a)
  /\ UNCHANGED <<store, request, copy, torn>>

(* Mutant: an error of Redis passes for "no settings yet". *)
LoadDefaultsOnError(a) ==
  /\ at[a] = "load"
  /\ \E s \in {settings, NewDefaultSettings} :
       IF Refused(request[a], s.tokens) THEN Responds(a)
       ELSE /\ mine' = [mine EXCEPT ![a] = Changed(request[a], copy[a], s)]
            /\ Goes(a, "save")
            /\ UNCHANGED <<request, copy>>
  /\ stale' = IF request[a].op = "config" THEN stale ELSE Reread(a)
  /\ UNCHANGED <<store, torn>>

(* GetSettings, and the change in memory. *)
Load(a) ==
  /\ at[a] = "load"
  /\ IF Refused(request[a], settings.tokens)
       THEN Responds(a) /\ stale' = Reread(a)
       ELSE /\ mine' = [mine EXCEPT ![a] = Changed(request[a], copy[a], settings)]
            /\ Goes(a, "save")
            /\ stale' = IF request[a].op = "config" THEN stale ELSE Reread(a)
            /\ UNCHANGED <<request, copy>>
  /\ UNCHANGED <<store, torn>>

(* SaveSettings: SET alert:settings, ... *)
Save(a) ==
  /\ at[a] = "save"
  /\ settings' = mine[a] /\ stored' = TRUE
  /\ stale' = Overtaken(a)
  /\ Goes(a, "saveTelegram")
  /\ UNCHANGED <<telegramKey, request, copy, mine, torn>>

(* ... then SET alert:settings:telegram, whose failure is only logged. *)
SaveTelegram(a) ==
  /\ at[a] = "saveTelegram"
  /\ \/ telegramKey' = mine[a].telegram /\ torn' = stale[a]
     \/ "redis" \in Faults /\ torn' = TRUE /\ UNCHANGED telegramKey
  /\ stale' = Reread(a)
  /\ Goes(a, "done")
  /\ UNCHANGED <<settings, stored, request, copy, mine>>

(* What the command of a does to the store if the server gets it. *)
Applied(a) ==
  CASE at[a] = "save" -> settings' = mine[a] /\ stored' = TRUE /\ UNCHANGED telegramKey
    [] at[a] = "telegramFirst" -> telegramKey' = request[a].telegram /\ UNCHANGED <<settings, stored>>
    [] at[a] = "saveTelegram" -> telegramKey' = mine[a].telegram /\ UNCHANGED <<settings, stored>>
    [] at[a] = "clear" -> Cleared
    [] OTHER -> UNCHANGED store

(* The reply to a write is lost and the client sends the command again. *)
SentAgain(a) ==
  /\ "redis" \in Faults
  /\ at[a] \in {"telegramFirst", "clear", "save", "saveTelegram"}
  /\ Applied(a)
  /\ stale' = IF at[a] \in {"clear", "save"} THEN [b \in Admin |-> stale[b] \/ HasRead(b)] ELSE stale
  /\ UNCHANGED <<local, torn>>

(* Where a request goes on although its command failed: DeleteToken        *)
(* without the token, the start with whatever settings there are.          *)
GoesOnTo(a) ==
  CASE at[a] = "peek" /\ request[a].op = "delete"   -> "load"
    [] at[a] = "exists"                             -> "done"
    [] at[a] = "save" /\ request[a].op \in StartOps -> "done"
    [] OTHER                                        -> "idle"

(* A command fails for good, carried out or not: the operation returns an  *)
(* error, and in most cases so does the handler.  A failed ClearAll ends   *)
(* the program.                                                            *)
RedisFails(a) ==
  /\ "redis" \in Faults
  /\ at[a] \in {"peek", "telegramFirst", "clear", "exists", "load", "save"}
  /\ \/ UNCHANGED store /\ stale' = Reread(a)
     \/ /\ Applied(a)
        /\ stale' = IF at[a] \in {"clear", "save"} THEN Overtaken(a) ELSE Reread(a)
  /\ torn' = (torn \/ Writing(a))
  /\ IF GoesOnTo(a) = "idle" THEN Responds(a)
     ELSE Goes(a, GoesOnTo(a)) /\ UNCHANGED <<request, copy, mine>>

Acknowledge(a) ==
  /\ at[a] = "done"
  /\ Responds(a)
  /\ UNCHANGED <<store, history>>

(* A process dies with the requests A that it serves. *)
Crash(A) ==
  /\ "crash" \in Faults
  /\ at' = [a \in Admin |-> IF a \in A THEN "idle" ELSE at[a]]
  /\ request' = [a \in Admin |-> IF a \in A THEN NoRequest ELSE request[a]]
  /\ copy' = [a \in Admin |-> IF a \in A THEN NoToken ELSE copy[a]]
  /\ mine' = [a \in Admin |-> IF a \in A THEN NewDefaultSettings ELSE mine[a]]
  /\ stale' = [a \in Admin |-> a \notin A /\ stale[a]]
  /\ torn' = (torn \/ \E a \in A : Writing(a))
  /\ UNCHANGED store

-----------------------------------------------------------------------------
StoreStep(a) ==
  /\ \/ Peek(a) \/ SetTelegram(a) \/ ClearAll(a) \/ CheckExists(a) \/ Load(a) \/ Save(a)
     \/ SaveTelegram(a) \/ SentAgain(a) \/ RedisFails(a)
  /\ UNCHANGED begun

StoreNext ==
  \/ \E a \in Admin : \/ \E r \in Requests : Begin(a, r)
                      \/ StoreStep(a)
                      \/ Acknowledge(a) /\ UNCHANGED begun
  \/ \E A \in SUBSET Admin : Crash(A) /\ UNCHANGED begun

StoreSpec == StoreInit /\ [][StoreNext]_svars

-----------------------------------------------------------------------------
(* Properties *)

(* What a request is about to write is its change of what is stored NOW,   *)
(* every other token as it is, and its own in all that was not asked to    *)
(* change: the operation would not be refused now either.  The exception   *)
(* are requests overtaken by a write since they read.                      *)
WriteIsCurrent(a) ==
  LET r == request[a] IN
  IF r.op \in StartOps THEN ~stored
  ELSE /\ ~Refused(r, settings.tokens)
       /\ mine[a] = Changed(r, IF r.op = "config" THEN GetToken(r.id, settings.tokens) ELSE copy[a],
                            settings)
LostOnlyToStaleWrites == \A a \in Admin : at[a] = "save" /\ ~stale[a] => WriteIsCurrent(a)

(* The same without the exception, as if reading, changing and writing     *)
(* were one step.                                                          *)
WritesAreAtomic == \A a \in Admin : at[a] = "save" => WriteIsCurrent(a)

(* No two tokens have the same address ("token already exists"): which of  *)
(* them decided a notification would depend on their order.                *)
UniqueAddress ==
  \A i, j \in DOMAIN settings.tokens :
    settings.tokens[i].address = settings.tokens[j].address => i = j

(* Two tokens get the same address only by an update, by a configuration   *)
(* file that lists it twice, or by a request that was overtaken.           *)
DuplicatesHaveACause ==
  [][UniqueAddress /\ ~UniqueAddress' =>
       \E a \in Admin : /\ at[a] = "save" /\ settings' = mine[a]
                        /\ request[a].op \in {"update"} \cup StartOps \/ stale[a]]_svars

(* The copy "for quick access" is the copy: when nobody is writing, the    *)
(* Telegram settings in their own key are those in alert:settings, unless  *)
(* the last write of the two was cut in half or overtaken between them.    *)
TelegramAgrees ==
  (\A a \in Admin : ~Writing(a)) /\ ~torn => telegramKey = settings.telegram

(* The same without the exception. *)
TelegramAlwaysAgrees == (\A a \in Admin : ~Writing(a)) => telegramKey = settings.telegram

(* "ToggleStreamNotify toggles notification for a specific stream": bots,  *)
(* filters and limits configured for the stream survive being toggled.     *)
ToggleKeepsConfig ==
  [][\A a \in Admin : Save(a) /\ request[a].op = "stream" =>
       LET old == GetToken(request[a].id, settings.tokens)
           new == GetToken(request[a].id, mine[a].tokens) IN
         old # NoToken /\ old.config[request[a].stream] = "own" =>
           new # NoToken /\ new.config[request[a].stream] = "own"]_svars
=============================================================================

-------------------------- MODULE SubscriptionSync --------------------------
(***************************************************************************)
(* One instance with its web interface: the requests of module             *)
(* SettingsStore, the start of the program and its death, and the          *)
(* subscription manager (internal/websocket/subscription_manager.go) that  *)
(* the web handlers call after their operation on the settings.  Its       *)
(* methods exclude each other by a mutex.  The connection is taken to be   *)
(* up: module WsClient is about the rest.                                  *)
(***************************************************************************)
EXTENDS SettingsStore

CONSTANT NoAdmin

ASSUME SyncAssumption == NoAdmin \notin Admin

VARIABLES tracked,   \* the client's subscribed channels
          holder,    \* who holds m.mu, or NoAdmin
          active,    \* the channels SyncSubscriptions got from the settings
          up,        \* is the web interface served?
          alone,     \* history: has the request in progress been the only one?
          astray     \* history: may the subscriptions differ from the settings?

yvars == <<tracked, holder, active, up, alone, astray>>
syncvars == <<svars, yvars>>

(* One channel per stream of a token's address. *)
Channel == Address \X Stream

SyncTypeOK ==
  /\ StoreTypeOK
  /\ tracked \subseteq Channel /\ active \subseteq Channel
  /\ holder \in Admin \cup {NoAdmin}
  /\ IF holder = NoAdmin THEN active = {} ELSE at[holder] = "done"
  /\ up \in BOOLEAN /\ alone \in BOOLEAN /\ astray \in BOOLEAN
  /\ up => Pending(StartOps) = {}

SyncInit ==
  /\ StoreInit
  /\ tracked = {} /\ active = {} /\ holder = NoAdmin
  /\ up = FALSE /\ alone = TRUE /\ astray = FALSE

-----------------------------------------------------------------------------
(* GetActiveSubscriptions: every stream of every token; and                *)
(* BuildSubscribeChannels, the same of the configuration file.             *)
Channels(tokens) == UNION {{tokens[i].address} \X tokens[i].streams : i \in DOMAIN tokens}

TokenChannels(token) == {token.address} \X Stream

(* Mutant: deleting a token does not touch the subscriptions. *)
CallUnlessDeleted(a) ==
  LET r == request[a] IN
  CASE r.op = "update" -> "sync"
    [] r.op = "add"    -> IF r.form.notify THEN "sync" ELSE "none"
    [] r.op = "notify" -> IF r.enabled THEN "sync" ELSE "leaveToken"
    [] r.op = "stream" -> IF r.enabled THEN "join" ELSE "leave"
    [] r.op \in StartOps -> "start"
    [] OTHER           -> "none"

(* Mutant: switching a token on does not touch the subscriptions. *)
CallUnlessEnabled(a) ==
  LET r == request[a] IN
  CASE r.op = "update" -> "sync"
    [] r.op = "add"    -> IF r.form.notify THEN "sync" ELSE "none"
    [] r.op = "notify" -> IF r.enabled THEN "none" ELSE "leaveToken"
    [] r.op = "delete" -> IF copy[a] # NoToken THEN "leaveToken" ELSE "none"
    [] r.op = "stream" -> IF r.enabled THEN "join" ELSE "leave"
    [] r.op \in StartOps -> "start"
    [] OTHER           -> "none"

(* What the handler of a request that succeeded does to the subscriptions. *)
Call(a) ==
  LET r == request[a] IN
  CASE r.op = "update" -> "sync"
    [] r.op = "add"    -> IF r.form.notify THEN "sync" ELSE "none"
    [] r.op = "notify" -> IF r.enabled THEN "sync" ELSE "leaveToken"
    [] r.op = "delete" -> IF copy[a] # NoToken THEN "leaveToken" ELSE "none"
    [] r.op = "stream" -> IF r.enabled THEN "join" ELSE "leave"
    [] r.op \in StartOps -> "start"
    [] OTHER           -> "none"

-----------------------------------------------------------------------------
(* The program first starts, alone in its process, and then serves the     *)
(* requests.                                                               *)
Request(a, r) ==
  /\ IF r.op \in StartOps THEN ~up /\ InProgress = {} ELSE up
  /\ Begin(a, r)
  /\ alone' = (InProgress = {})
  /\ astray' = (astray \/ InProgress # {})
  /\ UNCHANGED <<tracked, holder, active, up>>

(* A command that fails leaves the subscriptions as they were, with        *)
(* settings that may have been written, or without the token whose         *)
(* channels were to be left.                                               *)
Command(a) ==
  /\ StoreStep(a)
  /\ astray' = (astray \/ (RedisFails(a) /\ (at[a] = "save" \/ GoesOnTo(a) = "load")))
  /\ UNCHANGED <<tracked, holder, active, up, alone>>

(* startServer subscribes to what is active, a new process having no       *)
(* subscriptions; then the web interface is served.                        *)
Started(a) ==
  /\ at[a] = "done" /\ Call(a) = "start"
  /\ tracked' = Channels(settings.tokens)
  /\ up' = TRUE /\ astray' = FALSE
  /\ Responds(a)
  /\ UNCHANGED <<store, history, holder, active, alone, begun>>

(* "failed to get subscriptions from settings, using config" *)
StartedFromConfig(a) ==
  /\ "redis" \in Faults
  /\ at[a] = "done" /\ Call(a) = "start"
  /\ tracked' = Channels(request[a].file.tokens)
  /\ up' = TRUE /\ astray' = TRUE
  /\ Responds(a)
  /\ UNCHANGED <<store, history, holder, active, alone, begun>>

(* SyncSubscriptions gives up when GetActiveSubscriptions fails; the       *)
(* handler only logs it.                                                   *)
SyncFails(a) ==
  /\ "redis" \in Faults
  /\ at[a] = "done" /\ Call(a) = "sync" /\ holder = NoAdmin
  /\ astray' = TRUE
  /\ Responds(a)
  /\ UNCHANGED <<store, history, tracked, holder, active, up, alone, begun>>

(* SyncSubscriptions: the active channels are read under the mutex, ... *)
SyncReads(a) ==
  /\ at[a] = "done" /\ Call(a) = "sync"
  /\ holder = NoAdmin
  /\ holder' = a
  /\ active' = Channels(settings.tokens)
  /\ UNCHANGED <<svars, tracked, up, alone, astray>>

(* Mutant: the mutex is not released. *)
SyncKeepsMutex(a) ==
  /\ holder = a /\ at[a] = "done"
  /\ tracked' = active
  /\ astray' = (astray /\ ~alone)
  /\ Responds(a)
  /\ UNCHANGED <<store, history, holder, active, up, alone, begun>>

(* ... and what is tracked is brought in line with them: Unsubscribe of    *)
(* the difference one way, Subscribe of the difference the other way.      *)
SyncApplies(a) ==
  /\ holder = a
  /\ tracked' = (tracked \ (tracked \ active)) \cup (active \ tracked)
  /\ holder' = NoAdmin /\ active' = {}
  /\ astray' = (astray /\ ~alone)
  /\ Responds(a)
  /\ UNCHANGED <<store, history, up, alone, begun>>

(* UnsubscribeToken, UnsubscribeStream, SubscribeStream, or no call. *)
TrackedAfter(a) ==
  CASE Call(a) = "leaveToken" -> tracked \ TokenChannels(copy[a])
    [] Call(a) = "leave"      -> tracked \ {<<copy[a].address, request[a].stream>>}
    [] Call(a) = "join"       -> tracked \cup {<<copy[a].address, request[a].stream>>}
    [] OTHER                  -> tracked

(* The channels that a leaves behind are those of another token too. *)
LeavesForOthers(a) ==
  /\ Call(a) \in {"leaveToken", "leave"}
  /\ \E i \in DOMAIN settings.tokens :
       /\ settings.tokens[i].address = copy[a].address
       /\ request[a].op = "delete" \/ i # IndexOf(request[a].id, settings.tokens)

OneCall(a) ==
  /\ at[a] = "done" /\ Call(a) \notin {"sync", "start"}
  /\ Call(a) # "none" => holder = NoAdmin
  /\ tracked' = TrackedAfter(a)
  /\ astray' = (astray \/ request[a].op = "streams" \/ LeavesForOthers(a))
  /\ Responds(a)
  /\ UNCHANGED <<store, history, holder, active, up, alone, begun>>

(* The process dies, with all requests it serves. *)
Dies ==
  /\ Crash(Admin)
  /\ tracked' = {} /\ holder' = NoAdmin /\ active' = {}
  /\ up' = FALSE
  /\ UNCHANGED <<alone, astray, begun>>

SyncNext ==
  \/ \E a \in Admin : \/ \E r \in Requests : Request(a, r)
                      \/ Command(a)
                      \/ Started(a) \/ StartedFromConfig(a)
                      \/ SyncReads(a) \/ SyncApplies(a) \/ SyncFails(a) \/ OneCall(a)
  \/ Dies

SyncSpec == SyncInit /\ [][SyncNext]_syncvars

-----------------------------------------------------------------------------
(* Properties *)

Configured(token, configs) ==
  IF token.notify THEN {token.address} \X {s \in token.streams : token.config[s] \in configs}
  ELSE {}
ConfiguredChannels(configs) ==
  UNION {Configured(settings.tokens[i], configs) : i \in DOMAIN settings.tokens}

(* The program serves, and no request is being served. *)
Quiet == up /\ InProgress = {}

(* Between requests, every stream of a token that is switched on is        *)
(* subscribed, whatever was added, changed, switched off, deleted or       *)
(* refused in between; and if requests overlapped or failed half way, a    *)
(* token's list of streams was replaced, or channels were left that        *)
(* another token has too, again after the next synchronisation that runs   *)
(* alone.                                                                  *)
WantedIsSubscribed == Quiet /\ ~astray => ConfiguredChannels({"unset", "on"}) \subseteq tracked

(* The same for a stream that was given a configuration of its own.        *)
OwnIsSubscribed == Quiet /\ ~astray => ConfiguredChannels({"own"}) \subseteq tracked

(* Without the way out that overlapping requests are. *)
WantedAlwaysSubscribed == Quiet => ConfiguredChannels({"unset", "on"}) \subseteq tracked

(* Nothing is subscribed that no token asks for, in the same sense.        *)
SubscribedIsConfigured == Quiet /\ ~astray => tracked \subseteq Channels(settings.tokens)

(* "When disabling token notify, unsubscribe all its streams": between     *)
(* requests a token whose notifications are off has no channel subscribed. *)
DisabledIsUnsubscribed ==
  Quiet /\ ~astray => \A i \in DOMAIN settings.tokens :
    ~settings.tokens[i].notify => tracked \cap TokenChannels(settings.tokens[i]) = {}
=============================================================================

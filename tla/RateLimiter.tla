----------------------------- MODULE RateLimiter -----------------------------
(***************************************************************************)
(* The sliding-window limit of internal/redis/ratelimiter.go, as           *)
(* sendNotification of internal/handler/handler.go uses it for one key.    *)
(* Workers of several instances share a sorted set in Redis; each reads    *)
(* ITS instance's clock first and then runs the script of Allow with that  *)
(* time, which is both the score and the member it adds.                   *)
(*                                                                         *)
(* A tick is a millisecond of real time.  Skew bounds how far a clock is   *)
(* off, Delay how long the script takes to be run after the clock was      *)
(* read; neither is bounded by the code, they are what its guarantee       *)
(* depends on.                                                             *)
(***************************************************************************)
EXTENDS Integers, FiniteSets, Sequences

CONSTANTS Instance, Caller,
          InstanceOf,      \* [Caller -> Instance]
          Limit, Window,   \* RateLimitConfig
          Skew, Delay,
          Distinct,        \* do all calls read different times?
          Faults,          \* a subset of {"error", "retry"}
          MaxTime, MaxSent \* bounds: length of a run, messages sent in it

ASSUME RateAssumption ==
  /\ InstanceOf \in [Caller -> Instance]
  /\ Limit \in Nat /\ Window \in Nat \ {0}
  /\ Skew \in Nat /\ Delay \in Nat
  /\ Distinct \in BOOLEAN /\ Faults \subseteq {"error", "retry"}
  /\ MaxTime \in Nat /\ MaxSent \in Nat

VARIABLES now,
          offset,   \* [Instance -> how far its clock is ahead]
          stamp,    \* [Caller -> time it read, or NoStamp]
          readAt,   \* [Caller -> when it did]
          zset,     \* the members of ratelimit:<key>
          ttl,      \* remaining life of that key, 0: no key
          sent      \* history: what was let through, see Kind

ratevars == <<now, offset, stamp, readAt, zset, ttl, sent>>

Stamp == (-Skew)..(MaxTime + Skew)
NoStamp == MaxTime + Skew + 1

(* A message let through by the script, or without it after an error; or a *)
(* run of the script that allowed one but whose reply was lost.            *)
Kind == {"checked", "unchecked", "unanswered"}

RateTypeOK ==
  /\ now \in 0..MaxTime
  /\ offset \in [Instance -> (-Skew)..Skew]
  /\ stamp \in [Caller -> Stamp \cup {NoStamp}]
  /\ readAt \in [Caller -> 0..MaxTime]
  /\ zset \subseteq Stamp /\ Cardinality(zset) <= Limit
  /\ ttl \in 0..(2 * Window)
  /\ sent \in Seq([at : 0..MaxTime, member : Stamp, kind : Kind])

RateInit ==
  /\ now = 0
  /\ offset \in [Instance -> (-Skew)..Skew]
  /\ stamp = [c \in Caller |-> NoStamp]
  /\ readAt = [c \in Caller |-> 0]
  /\ zset = {} /\ ttl = 0
  /\ sent = <<>>

-----------------------------------------------------------------------------
(* Allow: now := time.Now().UnixMilli() *)
ReadClock(c) ==
  LET t == now + offset[InstanceOf[c]] IN
  /\ stamp[c] = NoStamp
  /\ Len(sent) < MaxSent
  /\ Distinct => t \notin zset \cup {stamp[d] : d \in Caller}
  /\ stamp' = [stamp EXCEPT ![c] = t]
  /\ readAt' = [readAt EXCEPT ![c] = now]
  /\ UNCHANGED <<now, offset, zset, ttl, sent>>

(* Mutant: entries are never removed, the key only expires. *)
KeepAll(t) == zset

(* ZREMRANGEBYSCORE -inf windowStart *)
Recent(t) == {x \in zset : x > t - Window}

(* Mutant: count <= limit. *)
OneMore(t) == Cardinality(Recent(t)) <= Limit

HasRoom(t) == Cardinality(Recent(t)) < Limit

(* The script: one step of Redis. *)
Script(t) ==
  IF HasRoom(t)
    THEN zset' = Recent(t) \cup {t} /\ ttl' = 2 * Window
    ELSE zset' = Recent(t) /\ UNCHANGED ttl

(* Allow returns and, unless it denied, the message goes to the bots. *)
Returns(c) ==
  /\ stamp' = [stamp EXCEPT ![c] = NoStamp]
  /\ readAt' = [readAt EXCEPT ![c] = 0]
  /\ UNCHANGED <<now, offset>>

Records(c, kind) ==
  sent' = Append(sent, [at |-> now, member |-> stamp[c], kind |-> kind])

Eval(c) ==
  /\ stamp[c] # NoStamp
  /\ Script(stamp[c])
  /\ IF HasRoom(stamp[c]) THEN Records(c, "checked") ELSE UNCHANGED sent
  /\ Returns(c)

(* The reply is lost and the Redis client runs the same command again. *)
EvalRetried(c) ==
  /\ "retry" \in Faults /\ stamp[c] # NoStamp /\ Len(sent) < MaxSent
  /\ Script(stamp[c])
  /\ IF HasRoom(stamp[c]) THEN Records(c, "unanswered") ELSE UNCHANGED sent
  /\ UNCHANGED <<now, offset, stamp, readAt>>

(* An error of the check is only logged, sendNotification goes on. *)
EvalFails(c) ==
  /\ "error" \in Faults /\ stamp[c] # NoStamp
  /\ Records(c, "unchecked")
  /\ Returns(c)
  /\ UNCHANGED <<zset, ttl>>

RateTick ==
  /\ now < MaxTime
  /\ \A c \in Caller : stamp[c] # NoStamp => now - readAt[c] < Delay
  /\ now' = now + 1
  /\ ttl' = IF ttl = 0 THEN 0 ELSE ttl - 1
  /\ zset' = IF ttl <= 1 THEN {} ELSE zset
  /\ UNCHANGED <<offset, stamp, readAt, sent>>

RateNext ==
  \/ \E c \in Caller : ReadClock(c) \/ Eval(c) \/ EvalRetried(c) \/ EvalFails(c)
  \/ RateTick

RateSpec == RateInit /\ [][RateNext]_ratevars

-----------------------------------------------------------------------------
(* Properties *)

Slack == Delay + 2 * Skew

Messages == {i \in DOMAIN sent : sent[i].kind # "unanswered"}
Checked == {i \in DOMAIN sent : sent[i].kind = "checked"}

(* The members the script has added after time t. *)
AddedSince(t) ==
  {sent[i].member : i \in {j \in DOMAIN sent : sent[j].at > t /\ sent[j].kind # "unchecked"}}

(* What was let through in the interval that ends with i. *)
Together(i) == {j \in 1..i : sent[j].at > sent[i].at - (Window - Slack)}

(* "Limit to 10 messages per minute for this stream": no more than Limit   *)
(* messages are let through in any interval as long as the window, less    *)
(* what clocks and delays can be off.                                      *)
WithinLimit == \A i \in Messages : Cardinality(Together(i) \cap Messages) <= Limit

(* The milliseconds the script let messages through for.  Calls that read  *)
(* the same one share a member of the set and count as one.                *)
Members(calls) == {sent[j].member : j \in calls}

(* The same for the messages that were let through by the script, whatever *)
(* errors let others pass and whichever scripts ran twice: they were for   *)
(* no more than Limit different milliseconds.                              *)
CheckedWithinLimit ==
  \A i \in Checked : Cardinality(Members(Together(i) \cap Checked)) <= Limit

(* "Allow checks if an action is allowed under the rate limit": it denies  *)
(* only when the script has allowed Limit calls in the last window, give   *)
(* or take the same slack; a call whose reply was lost counts, but only    *)
(* once however often it was retried.                                      *)
DeniedOnlyWhenFull ==
  [][\A c \in Caller : Eval(c) /\ sent' = sent =>
       Cardinality(AddedSince(now - Window - Slack)) >= Limit]_ratevars

(* The caller's view of it: a denial means that Limit messages were let    *)
(* through.                                                                *)
DeniedMeansSent ==
  [][\A c \in Caller : Eval(c) /\ sent' = sent =>
       Cardinality({i \in Messages : sent[i].at > now - Window - Slack}) >= Limit]_ratevars
=============================================================================

-------------------------- MODULE RateLimiterProofs --------------------------
(***************************************************************************)
(* Proofs about module RateLimiter, for any instances, callers, limit,     *)
(* window, skew and delay: what the script lets through and when it denies,*)
(* with failing and repeated scripts.                                      *)
(***************************************************************************)
EXTENDS RateLimiter, FiniteSetTheorems, TLAPS

LEMMA Numbers ==
  /\ Limit \in Nat /\ Window \in Nat /\ Window >= 1 /\ Skew \in Nat /\ Delay \in Nat
  /\ MaxTime \in Nat /\ MaxSent \in Nat
  BY RateAssumption

LEMMA Longer ==
  ASSUME NEW n \in Int, NEW t \in Int, NEW u \in Int, NEW x \in Int, u >= t, t + n >= x
  PROVE  u + n >= x
  OBVIOUS

LEMMA Transitive ==
  ASSUME NEW a \in Int, NEW b \in Int, NEW x \in Int, a >= b, b >= x
  PROVE  a >= x
  OBVIOUS

LEMMA Older ==
  ASSUME NEW n \in Int, NEW r \in Int, r <= n, n - r < Delay, NEW m, m = n + 1, NEW q, q = r
  PROVE  q <= m /\ m - q <= Delay
  BY Numbers

(* A time that was read is as old as Delay at most and as wrong as Skew. *)
StampInv ==
  \A c \in Caller : stamp[c] # NoStamp =>
    /\ readAt[c] <= now /\ now - readAt[c] <= Delay
    /\ readAt[c] - Skew <= stamp[c] /\ stamp[c] <= readAt[c] + Skew

(* So is the member of a message that was let through; it stays in the set *)
(* for the window less the slack, and the key does not expire before that. *)
SentInv ==
  \A j \in 1..Len(sent) :
    /\ sent[j].at <= now
    /\ sent[j].at - Delay - Skew <= sent[j].member /\ sent[j].member <= sent[j].at + Skew
    /\ sent[j].kind # "unchecked" =>
         /\ ttl + now >= sent[j].at + 2 * Window
         /\ now < sent[j].at + (Window - Slack) => sent[j].member \in zset

(* Nothing is in the set that was not let through. *)
ZsetInv ==
  /\ IsFiniteSet(zset)
  /\ \A x \in zset : \E j \in 1..Len(sent) : sent[j].member = x /\ sent[j].kind # "unchecked"

RateInv == RateTypeOK /\ StampInv /\ SentInv /\ ZsetInv

-----------------------------------------------------------------------------
LEMMA StampBounds ==
  ASSUME RateTypeOK, StampInv, NEW c \in Caller, stamp[c] # NoStamp
  PROVE  /\ stamp[c] \in Stamp /\ stamp[c] \in Int /\ now \in Nat
         /\ now - Delay - Skew <= stamp[c] /\ stamp[c] <= now + Skew
<1>1. stamp[c] \in Stamp /\ readAt[c] \in Nat /\ now \in Nat
  BY Numbers DEF RateTypeOK
<1>2. stamp[c] \in Int
  BY <1>1, Numbers DEF Stamp
<1> QED
  BY <1>1, <1>2, Numbers DEF StampInv

(* The script. *)
LEMMA ScriptKeeps ==
  ASSUME RateTypeOK, IsFiniteSet(zset), NEW t \in Stamp, Script(t)
  PROVE  /\ IsFiniteSet(zset') /\ zset' \subseteq Stamp /\ Cardinality(zset') <= Limit
         /\ ttl' \in 0..(2 * Window) /\ ttl' >= ttl
         /\ \A x \in zset : x > t - Window => x \in zset'
         /\ HasRoom(t) => zset' = Recent(t) \cup {t} /\ ttl' = 2 * Window
         /\ ~HasRoom(t) => zset' = Recent(t)
<1>1. Recent(t) \subseteq zset /\ Recent(t) \subseteq Stamp
  BY DEF Recent, RateTypeOK
<1>2. /\ IsFiniteSet(Recent(t)) /\ Cardinality(Recent(t)) \in Nat /\ Cardinality(zset) \in Nat
      /\ Cardinality(Recent(t)) <= Cardinality(zset)
  BY <1>1, FS_Subset, FS_CardinalityType
<1>3. CASE HasRoom(t)
  <2>1. zset' = Recent(t) \cup {t} /\ ttl' = 2 * Window
    BY <1>3 DEF Script
  <2>2. /\ IsFiniteSet(Recent(t) \cup {t})
        /\ \/ Cardinality(Recent(t) \cup {t}) = Cardinality(Recent(t))
           \/ Cardinality(Recent(t) \cup {t}) = Cardinality(Recent(t)) + 1
    BY <1>2, FS_AddElement
  <2>3. Cardinality(Recent(t)) < Limit
    BY <1>3 DEF HasRoom
  <2>4. Cardinality(zset') <= Limit
    BY <1>2, <2>1, <2>2, <2>3, Numbers
  <2>5. ttl' \in 0..(2 * Window) /\ ttl' >= ttl
    BY <2>1, Numbers DEF RateTypeOK
  <2> QED
    BY <1>1, <1>3, <2>1, <2>2, <2>4, <2>5 DEF Recent
<1>4. CASE ~HasRoom(t)
  <2>1. zset' = Recent(t) /\ ttl' = ttl
    BY <1>4 DEF Script
  <2>2. Cardinality(zset') <= Limit
    BY <1>2, <2>1, Numbers DEF RateTypeOK
  <2>3. ttl' \in 0..(2 * Window) /\ ttl' >= ttl
    BY <2>1, Numbers DEF RateTypeOK
  <2> QED
    BY <1>1, <1>2, <1>4, <2>1, <2>2, <2>3 DEF Recent
<1> QED
  BY <1>3, <1>4

(* The history, one message longer. *)
LEMMA Recorded ==
  ASSUME RateTypeOK, NEW c \in Caller, NEW kind, Records(c, kind)
  PROVE  /\ Len(sent) \in Nat /\ Len(sent') = Len(sent) + 1
         /\ \A j \in 1..Len(sent) : sent'[j] = sent[j]
         /\ sent'[Len(sent) + 1] = [at |-> now, member |-> stamp[c], kind |-> kind]
  BY DEF Records, RateTypeOK

LEMMA SentTypes ==
  ASSUME RateTypeOK, NEW j \in 1..Len(sent)
  PROVE  /\ sent[j].at \in 0..MaxTime /\ sent[j].member \in Stamp /\ sent[j].kind \in Kind
         /\ sent[j].at \in Int /\ sent[j].member \in Int
<1> DEFINE Message == [at : 0..MaxTime, member : Stamp, kind : Kind]
<1>1. sent[j] \in Message
  <2>1. sent \in Seq(Message)
    BY DEF RateTypeOK
  <2> HIDE DEF Message
  <2> QED
    BY <2>1
<1> QED
  BY <1>1, Numbers DEF Stamp

LEMMA SentTypesNext ==
  ASSUME RateInv'
  PROVE  \A k \in 1..Len(sent') : sent'[k].at \in Int
<1> DEFINE Message == [at : 0..MaxTime, member : Stamp, kind : Kind]
<1>1. sent' \in Seq(Message)
  BY DEF RateInv, RateTypeOK, Stamp, Kind
<1>2. \A r \in Message : r.at \in Int
  BY Numbers
<1> HIDE DEF Message
<1> QED
  BY <1>1, <1>2

LEMMA LongerHistory ==
  ASSUME RateTypeOK, NEW c \in Caller, stamp[c] # NoStamp, NEW kind \in Kind,
         Records(c, kind)
  PROVE  sent' \in Seq([at : 0..MaxTime, member : Stamp, kind : Kind])
<1>1. stamp[c] \in Stamp /\ now \in 0..MaxTime
  BY DEF RateTypeOK
<1>2. [at |-> now, member |-> stamp[c], kind |-> kind]
        \in [at : 0..MaxTime, member : Stamp, kind : Kind]
  BY <1>1
<1> HIDE DEF Stamp, Kind
<1> QED
  BY <1>2 DEF Records, RateTypeOK

(* A script that has been run, whether it let the message through or not.  *)
LEMMA ScriptRuns ==
  ASSUME RateInv, NEW c \in Caller, stamp[c] # NoStamp, now' = now, Script(stamp[c]),
         NEW kind \in {"checked", "unanswered"},
         IF HasRoom(stamp[c]) THEN Records(c, kind) ELSE UNCHANGED sent
  PROVE  SentInv' /\ ZsetInv'
<1> DEFINE t == stamp[c]
<1>1. /\ t \in Stamp /\ t \in Int /\ now \in Nat /\ ttl \in Nat
      /\ now - Delay - Skew <= t /\ t <= now + Skew
  BY StampBounds, Numbers DEF RateInv, RateTypeOK
<1>2. /\ IsFiniteSet(zset') /\ ttl' \in Nat /\ ttl' >= ttl
      /\ \A x \in zset : x > t - Window => x \in zset'
      /\ zset' \subseteq zset \cup {t}
      /\ HasRoom(t) => t \in zset' /\ ttl' = 2 * Window
      /\ ~HasRoom(t) => zset' \subseteq zset
  BY <1>1, ScriptKeeps, Numbers DEF RateInv, ZsetInv, Recent
<1>6. now \in Int /\ ttl \in Int /\ ttl' \in Int /\ ttl' >= ttl
  BY <1>1, <1>2
<1> DEFINE Fine(j) ==
      /\ sent[j].at <= now
      /\ sent[j].at - Delay - Skew <= sent[j].member /\ sent[j].member <= sent[j].at + Skew
      /\ sent[j].kind # "unchecked" =>
           /\ ttl' + now >= sent[j].at + 2 * Window
           /\ now < sent[j].at + (Window - Slack) => sent[j].member \in zset'
<1>3. ASSUME NEW j \in 1..Len(sent) PROVE Fine(j)
  <2>1. sent[j].at \in Int /\ sent[j].member \in Int
    BY SentTypes DEF RateInv
  <2>2. /\ sent[j].at <= now
        /\ sent[j].at - Delay - Skew <= sent[j].member /\ sent[j].member <= sent[j].at + Skew
    BY DEF RateInv, SentInv
  <2>3. ASSUME sent[j].kind # "unchecked" PROVE ttl' + now >= sent[j].at + 2 * Window
    <3>1. ttl + now >= sent[j].at + 2 * Window
      BY <2>3 DEF RateInv, SentInv
    <3> DEFINE x == sent[j].at + 2 * Window
    <3>2. x \in Int /\ ttl + now >= x
      BY <2>1, <3>1, Numbers
    <3> HIDE DEF x, t
    <3>3. ttl' + now >= x
      BY <1>6, <3>2, Longer
    <3> QED
      BY <3>3 DEF x
  <2>4. ASSUME sent[j].kind # "unchecked", now < sent[j].at + (Window - Slack)
        PROVE  sent[j].member \in zset'
    <3>1. sent[j].member \in zset
      BY <2>4 DEF RateInv, SentInv
    <3>2. sent[j].member > t - Window
      <4> DEFINE x == sent[j].at
                 m == sent[j].member
      <4>1. /\ x \in Int /\ m \in Int /\ x <= now /\ x - Delay - Skew <= m
            /\ now < x + (Window - (Delay + 2 * Skew))
        BY <2>1, <2>2, <2>4 DEF Slack
      <4> HIDE DEF x, m, t
      <4>2. m > t - Window
        BY <1>1, <4>1, Numbers
      <4> QED
        BY <4>2 DEF m
    <3> QED
      BY <1>2, <3>1, <3>2
  <2> QED
    BY <2>2, <2>3, <2>4
<1>4. CASE HasRoom(t)
  <2> DEFINE n == Len(sent) + 1
  <2>1. /\ Len(sent) \in Nat /\ Len(sent') = n
        /\ \A j \in 1..Len(sent) : sent'[j] = sent[j]
        /\ sent'[n] = [at |-> now, member |-> t, kind |-> kind]
    <3>1. Records(c, kind)
      BY <1>4
    <3> QED
      BY <3>1, Recorded DEF RateInv
  <2>2. \A j \in 1..Len(sent') : j \in 1..Len(sent) \/ j = n
    BY <2>1
  <2>3. SentInv'
    <3> SUFFICES ASSUME NEW j \in 1..Len(sent')
                 PROVE  /\ sent'[j].at <= now
                        /\ sent'[j].at - Delay - Skew <= sent'[j].member
                        /\ sent'[j].member <= sent'[j].at + Skew
                        /\ sent'[j].kind # "unchecked" =>
                             /\ ttl' + now >= sent'[j].at + 2 * Window
                             /\ now < sent'[j].at + (Window - Slack)
                                  => sent'[j].member \in zset'
      BY DEF SentInv, Slack
    <3>1. CASE j \in 1..Len(sent)
      BY <1>3, <2>1, <3>1
    <3>2. CASE j = n
      <4>1. sent'[j].at = now /\ sent'[j].member = t
        BY <2>1, <3>2
      <4>2. t \in zset' /\ ttl' = 2 * Window
        BY <1>2, <1>4
      <4> HIDE DEF t
      <4> QED
        BY <1>1, <4>1, <4>2, Numbers
    <3> QED
      BY <2>2, <3>1, <3>2
  <2>4. ZsetInv'
    <3>1. kind # "unchecked"
      OBVIOUS
    <3> SUFFICES ASSUME NEW x \in zset'
                 PROVE  \E j \in 1..Len(sent') : sent'[j].member = x /\ sent'[j].kind # "unchecked"
      BY <1>2 DEF ZsetInv
    <3>2. CASE x = t
      <4>1. n \in 1..Len(sent') /\ sent'[n].member = t /\ sent'[n].kind = kind
        BY <2>1
      <4> QED
        BY <3>1, <3>2, <4>1
    <3>3. CASE x # t
      <4>1. x \in zset
        BY <1>2, <3>3
      <4>2. PICK j \in 1..Len(sent) : sent[j].member = x /\ sent[j].kind # "unchecked"
        BY <4>1 DEF RateInv, ZsetInv
      <4>3. j \in 1..Len(sent') /\ sent'[j] = sent[j]
        BY <2>1
      <4> QED
        BY <4>2, <4>3
    <3> QED
      BY <3>2, <3>3
  <2> QED
    BY <2>3, <2>4
<1>5. CASE ~HasRoom(t)
  <2>1. sent' = sent /\ zset' \subseteq zset
    BY <1>2, <1>5
  <2>2. SentInv'
    BY <1>3, <2>1 DEF SentInv, Slack
  <2>3. ZsetInv'
    BY <1>2, <2>1 DEF RateInv, ZsetInv
  <2> QED
    BY <2>2, <2>3
<1> QED
  BY <1>4, <1>5

(* A message that passes without the script. *)
LEMMA PassesUnchecked ==
  ASSUME RateInv, NEW c \in Caller, stamp[c] # NoStamp, UNCHANGED <<now, zset, ttl>>,
         Records(c, "unchecked")
  PROVE  SentInv' /\ ZsetInv'
<1> DEFINE n == Len(sent) + 1
<1>1. /\ Len(sent) \in Nat /\ Len(sent') = n
      /\ \A j \in 1..Len(sent) : sent'[j] = sent[j]
      /\ sent'[n] = [at |-> now, member |-> stamp[c], kind |-> "unchecked"]
  BY Recorded DEF RateInv
<1>2. /\ stamp[c] \in Int /\ now \in Nat
      /\ now - Delay - Skew <= stamp[c] /\ stamp[c] <= now + Skew
  BY StampBounds DEF RateInv
<1>3. \A j \in 1..Len(sent') : j \in 1..Len(sent) \/ j = n
  BY <1>1
<1>4. \A j \in 1..Len(sent) : j \in 1..Len(sent')
  BY <1>1
<1>5. SentInv'
  BY <1>1, <1>2, <1>3 DEF RateInv, SentInv, Slack
<1>6. ZsetInv'
  <2> SUFFICES ASSUME NEW x \in zset
               PROVE  \E j \in 1..Len(sent') : sent'[j].member = x /\ sent'[j].kind # "unchecked"
    BY DEF RateInv, ZsetInv
  <2>1. PICK j \in 1..Len(sent) : sent[j].member = x /\ sent[j].kind # "unchecked"
    BY DEF RateInv, ZsetInv
  <2> QED
    BY <1>1, <1>4, <2>1
<1> QED
  BY <1>5, <1>6
-----------------------------------------------------------------------------
LEMMA RateInitially == RateInit => RateInv
<1> SUFFICES ASSUME RateInit PROVE RateInv
  OBVIOUS
<1>1. IsFiniteSet(zset) /\ Cardinality(zset) = 0
  BY FS_EmptySet DEF RateInit
<1>2. RateTypeOK
  <2>1. now \in 0..MaxTime /\ ttl \in 0..(2 * Window) /\ Cardinality(zset) <= Limit
    BY <1>1, Numbers DEF RateInit
  <2>2. readAt \in [Caller -> 0..MaxTime]
    BY Numbers DEF RateInit
  <2>3. sent \in Seq([at : 0..MaxTime, member : Stamp, kind : Kind])
    BY DEF RateInit
  <2> QED
    BY <2>1, <2>2, <2>3 DEF RateTypeOK, RateInit
<1>3. StampInv /\ SentInv /\ ZsetInv
  BY <1>1 DEF RateInit, StampInv, SentInv, ZsetInv
<1> QED
  BY <1>2, <1>3 DEF RateInv

LEMMA ReadClockStep ==
  ASSUME RateInv, NEW c \in Caller, ReadClock(c)
  PROVE  RateInv'
<1> DEFINE t == now + offset[InstanceOf[c]]
<1>1. /\ stamp' = [stamp EXCEPT ![c] = t] /\ readAt' = [readAt EXCEPT ![c] = now]
      /\ UNCHANGED <<now, offset, zset, ttl, sent>>
  BY DEF ReadClock
<1>2. /\ now \in 0..MaxTime /\ now \in Nat /\ now <= MaxTime /\ t \in Int
      /\ now - Skew <= t /\ t <= now + Skew
  <2>1. InstanceOf[c] \in Instance
    BY RateAssumption
  <2>2. offset[InstanceOf[c]] \in (-Skew)..Skew
    BY <2>1 DEF RateInv, RateTypeOK
  <2> QED
    BY <2>2, Numbers DEF RateInv, RateTypeOK
<1>3. t \in Stamp
  BY <1>2, Numbers DEF Stamp
<1>4. RateTypeOK'
  <2> HIDE DEF t
  <2>1. stamp' \in [Caller -> Stamp \cup {NoStamp}]
    BY <1>1, <1>3 DEF RateInv, RateTypeOK
  <2>2. readAt' \in [Caller -> 0..MaxTime]
    BY <1>1, <1>2 DEF RateInv, RateTypeOK
  <2> QED
    BY <1>1, <2>1, <2>2 DEF RateInv, RateTypeOK, Stamp, NoStamp
<1>5. StampInv'
  <2> SUFFICES ASSUME NEW d \in Caller, stamp'[d] # NoStamp
               PROVE  /\ readAt'[d] <= now /\ now - readAt'[d] <= Delay
                      /\ readAt'[d] - Skew <= stamp'[d] /\ stamp'[d] <= readAt'[d] + Skew
    BY <1>1 DEF StampInv, NoStamp
  <2>1. CASE d = c
    <3>1. stamp'[d] = t /\ readAt'[d] = now
      BY <1>1, <2>1 DEF RateInv, RateTypeOK
    <3> HIDE DEF t
    <3> QED
      BY <1>2, <3>1, Numbers
  <2>2. CASE d # c
    <3>1. stamp'[d] = stamp[d] /\ readAt'[d] = readAt[d]
      BY <1>1, <2>2 DEF RateInv, RateTypeOK
    <3> QED
      BY <3>1 DEF RateInv, StampInv
  <2> QED
    BY <2>1, <2>2
<1>6. SentInv' /\ ZsetInv'
  BY <1>1 DEF RateInv, SentInv, ZsetInv, Slack
<1> QED
  BY <1>4, <1>5, <1>6 DEF RateInv

(* A caller that is done has no time left. *)
LEMMA ReturnKeeps ==
  ASSUME RateTypeOK, StampInv, NEW c \in Caller, Returns(c)
  PROVE  /\ stamp' \in [Caller -> Stamp \cup {NoStamp}] /\ readAt' \in [Caller -> 0..MaxTime]
         /\ StampInv'
<1>1. /\ stamp' = [stamp EXCEPT ![c] = NoStamp] /\ readAt' = [readAt EXCEPT ![c] = 0]
      /\ now' = now
  BY DEF Returns
<1>2. stamp' \in [Caller -> Stamp \cup {NoStamp}]
  <2> HIDE DEF Stamp, NoStamp
  <2> QED
    BY <1>1 DEF RateTypeOK
<1>3. readAt' \in [Caller -> 0..MaxTime]
  BY <1>1, Numbers DEF RateTypeOK
<1>4. StampInv'
  <2> SUFFICES ASSUME NEW d \in Caller, stamp'[d] # NoStamp
               PROVE  /\ readAt'[d] <= now /\ now - readAt'[d] <= Delay
                      /\ readAt'[d] - Skew <= stamp'[d] /\ stamp'[d] <= readAt'[d] + Skew
    BY <1>1 DEF StampInv, NoStamp
  <2>1. d # c /\ stamp'[d] = stamp[d] /\ readAt'[d] = readAt[d]
    BY <1>1 DEF RateTypeOK
  <2> QED
    BY <2>1 DEF StampInv
<1> QED
  BY <1>2, <1>3, <1>4

LEMMA EvalStep ==
  ASSUME RateInv, NEW c \in Caller, Eval(c)
  PROVE  RateInv'
<1>1. /\ stamp[c] # NoStamp /\ Script(stamp[c]) /\ Returns(c)
      /\ now' = now /\ offset' = offset
      /\ IF HasRoom(stamp[c]) THEN Records(c, "checked") ELSE UNCHANGED sent
  BY DEF Eval, Returns
<1>2. SentInv' /\ ZsetInv'
  BY <1>1, ScriptRuns
<1>3. /\ stamp' \in [Caller -> Stamp \cup {NoStamp}] /\ readAt' \in [Caller -> 0..MaxTime]
      /\ StampInv'
  BY <1>1, ReturnKeeps DEF RateInv
<1>4. stamp[c] \in Stamp
  BY <1>1 DEF RateInv, RateTypeOK
<1>5. zset' \subseteq Stamp /\ Cardinality(zset') <= Limit /\ ttl' \in 0..(2 * Window)
  BY <1>1, <1>4, ScriptKeeps DEF RateInv, ZsetInv
<1>6. sent' \in Seq([at : 0..MaxTime, member : Stamp, kind : Kind])
  <2>1. CASE HasRoom(stamp[c])
    BY <1>1, <2>1, LongerHistory DEF RateInv, Kind
  <2>2. CASE ~HasRoom(stamp[c])
    BY <1>1, <2>2 DEF RateInv, RateTypeOK
  <2> QED
    BY <2>1, <2>2
<1>7. RateTypeOK'
  <2> HIDE DEF Stamp, Kind, NoStamp
  <2>1. now' \in 0..MaxTime /\ offset' \in [Instance -> (-Skew)..Skew]
    BY <1>1 DEF RateInv, RateTypeOK
  <2> QED
    BY <1>3, <1>5, <1>6, <2>1 DEF RateTypeOK, Stamp, NoStamp
<1> QED
  BY <1>2, <1>3, <1>7 DEF RateInv

LEMMA EvalRetriedStep ==
  ASSUME RateInv, NEW c \in Caller, EvalRetried(c)
  PROVE  RateInv'
<1>1. /\ stamp[c] # NoStamp /\ Script(stamp[c])
      /\ now' = now /\ offset' = offset /\ stamp' = stamp /\ readAt' = readAt
      /\ IF HasRoom(stamp[c]) THEN Records(c, "unanswered") ELSE UNCHANGED sent
  BY DEF EvalRetried
<1>2. SentInv' /\ ZsetInv'
  BY <1>1, ScriptRuns
<1>3. StampInv'
  BY <1>1 DEF RateInv, StampInv, NoStamp
<1>4. stamp[c] \in Stamp
  BY <1>1 DEF RateInv, RateTypeOK
<1>5. zset' \subseteq Stamp /\ Cardinality(zset') <= Limit /\ ttl' \in 0..(2 * Window)
  BY <1>1, <1>4, ScriptKeeps DEF RateInv, ZsetInv
<1>6. sent' \in Seq([at : 0..MaxTime, member : Stamp, kind : Kind])
  <2>1. CASE HasRoom(stamp[c])
    BY <1>1, <2>1, LongerHistory DEF RateInv, Kind
  <2>2. CASE ~HasRoom(stamp[c])
    BY <1>1, <2>2 DEF RateInv, RateTypeOK
  <2> QED
    BY <2>1, <2>2
<1>7. RateTypeOK'
  <2>1. /\ now' \in 0..MaxTime /\ offset' \in [Instance -> (-Skew)..Skew]
        /\ stamp' \in [Caller -> Stamp \cup {NoStamp}] /\ readAt' \in [Caller -> 0..MaxTime]
    BY <1>1 DEF RateInv, RateTypeOK
  <2> QED
    BY <1>5, <1>6, <2>1 DEF RateTypeOK, Stamp, NoStamp
<1> QED
  BY <1>2, <1>3, <1>7 DEF RateInv

LEMMA EvalFailsStep ==
  ASSUME RateInv, NEW c \in Caller, EvalFails(c)
  PROVE  RateInv'
<1>1. /\ stamp[c] # NoStamp /\ Records(c, "unchecked") /\ Returns(c)
      /\ UNCHANGED <<now, offset, zset, ttl>>
  BY DEF EvalFails, Returns
<1>2. SentInv' /\ ZsetInv'
  BY <1>1, PassesUnchecked
<1>3. /\ stamp' \in [Caller -> Stamp \cup {NoStamp}] /\ readAt' \in [Caller -> 0..MaxTime]
      /\ StampInv'
  BY <1>1, ReturnKeeps DEF RateInv
<1>4. sent' \in Seq([at : 0..MaxTime, member : Stamp, kind : Kind])
  BY <1>1, LongerHistory DEF RateInv, Kind
<1>5. RateTypeOK'
  <2>1. /\ now' \in 0..MaxTime /\ offset' \in [Instance -> (-Skew)..Skew]
        /\ zset' \subseteq Stamp /\ Cardinality(zset') <= Limit /\ ttl' \in 0..(2 * Window)
    BY <1>1 DEF RateInv, RateTypeOK
  <2> QED
    BY <1>3, <1>4, <2>1 DEF RateTypeOK, Stamp, NoStamp
<1> QED
  BY <1>2, <1>3, <1>5 DEF RateInv

LEMMA RateTickStep ==
  ASSUME RateInv, RateTick
  PROVE  RateInv'
<1>1. /\ now < MaxTime /\ now' = now + 1
      /\ ttl' = (IF ttl = 0 THEN 0 ELSE ttl - 1)
      /\ zset' = (IF ttl <= 1 THEN {} ELSE zset)
      /\ UNCHANGED <<offset, stamp, readAt, sent>>
      /\ \A c \in Caller : stamp[c] # NoStamp => now - readAt[c] < Delay
  BY DEF RateTick
<1>2. now \in Nat /\ ttl \in Nat /\ ttl <= 2 * Window /\ now' \in 0..MaxTime
  BY <1>1, Numbers DEF RateInv, RateTypeOK
<1>3. /\ ttl' \in 0..(2 * Window) /\ ttl' + now' >= ttl + now /\ ttl' \in Nat /\ now' \in Nat
  BY <1>1, <1>2, Numbers
<1>4. /\ IsFiniteSet(zset') /\ zset' \subseteq Stamp /\ Cardinality(zset') <= Limit
      /\ zset' \subseteq zset
  <2>1. CASE ttl <= 1
    BY <1>1, <2>1, FS_EmptySet, Numbers
  <2>2. CASE ~(ttl <= 1)
    BY <1>1, <2>2 DEF RateInv, RateTypeOK, ZsetInv
  <2> QED
    BY <2>1, <2>2
<1>5. RateTypeOK'
  BY <1>1, <1>2, <1>3, <1>4 DEF RateInv, RateTypeOK, Stamp, NoStamp
<1>6. StampInv'
  <2> SUFFICES ASSUME NEW d \in Caller, stamp'[d] # NoStamp
               PROVE  /\ readAt'[d] <= now' /\ now' - readAt'[d] <= Delay
                      /\ readAt'[d] - Skew <= stamp'[d] /\ stamp'[d] <= readAt'[d] + Skew
    BY DEF StampInv, NoStamp
  <2>0. stamp[d] # NoStamp /\ stamp'[d] = stamp[d] /\ readAt'[d] = readAt[d]
    BY <1>1
  <2>1. readAt[d] \in Nat /\ readAt[d] <= now /\ now - readAt[d] < Delay
    BY <1>1, <2>0, Numbers DEF RateInv, RateTypeOK, StampInv
  <2>2. now' = now + 1 /\ readAt'[d] = readAt[d]
    BY <1>1, <2>0
  <2>3. readAt'[d] <= now' /\ now' - readAt'[d] <= Delay
    BY <1>2, <2>1, <2>2, Older, Numbers
  <2>4. readAt[d] - Skew <= stamp[d] /\ stamp[d] <= readAt[d] + Skew
    BY <2>0 DEF RateInv, StampInv
  <2> QED
    BY <2>0, <2>3, <2>4
<1>7. SentInv'
  <2> SUFFICES ASSUME NEW j \in 1..Len(sent)
               PROVE  /\ sent[j].at <= now'
                      /\ sent[j].at - Delay - Skew <= sent[j].member
                      /\ sent[j].member <= sent[j].at + Skew
                      /\ sent[j].kind # "unchecked" =>
                           /\ ttl' + now' >= sent[j].at + 2 * Window
                           /\ now' < sent[j].at + (Window - Slack) => sent[j].member \in zset'
    BY <1>1 DEF SentInv, Slack
  <2>1. sent[j].at \in Int /\ sent[j].member \in Int
    BY SentTypes DEF RateInv
  <2>2. /\ sent[j].at <= now /\ sent[j].at - Delay - Skew <= sent[j].member
        /\ sent[j].member <= sent[j].at + Skew
        /\ sent[j].kind # "unchecked" =>
             /\ ttl + now >= sent[j].at + 2 * Window
             /\ now < sent[j].at + (Window - Slack) => sent[j].member \in zset
    BY DEF RateInv, SentInv
  <2>3. sent[j].at <= now'
    BY <1>1, <1>2, <2>1, <2>2
  <2>4. ASSUME sent[j].kind # "unchecked" PROVE ttl' + now' >= sent[j].at + 2 * Window
    <3> DEFINE x == sent[j].at + 2 * Window
    <3>1. x \in Int /\ ttl + now >= x
      BY <2>1, <2>2, <2>4, Numbers
    <3> HIDE DEF x
    <3>2. ttl + now \in Int /\ ttl' + now' \in Int
      BY <1>2, <1>3
    <3>3. ttl' + now' >= x
      BY <1>3, <3>1, <3>2, Transitive
    <3> QED
      BY <3>3 DEF x
  <2>5. ASSUME sent[j].kind # "unchecked", now' < sent[j].at + (Window - Slack)
        PROVE  sent[j].member \in zset'
    <3>1. Slack \in Nat
      BY Numbers DEF Slack
    <3>2. now < sent[j].at + (Window - Slack) /\ ttl > 1
      BY <1>1, <1>2, <2>1, <2>2, <2>5, <3>1, Numbers
    <3> QED
      BY <1>1, <1>2, <2>2, <2>5, <3>2
  <2> QED
    BY <2>2, <2>3, <2>4, <2>5
<1>8. ZsetInv'
  BY <1>1, <1>4 DEF RateInv, ZsetInv
<1> QED
  BY <1>5, <1>6, <1>7, <1>8 DEF RateInv

LEMMA RateStep == RateInv /\ [RateNext]_ratevars => RateInv'
<1> SUFFICES ASSUME RateInv, [RateNext]_ratevars PROVE RateInv'
  OBVIOUS
<1>1. ASSUME NEW c \in Caller, ReadClock(c) PROVE RateInv'
  BY <1>1, ReadClockStep
<1>2. ASSUME NEW c \in Caller, Eval(c) PROVE RateInv'
  BY <1>2, EvalStep
<1>3. ASSUME NEW c \in Caller, EvalRetried(c) PROVE RateInv'
  BY <1>3, EvalRetriedStep
<1>4. ASSUME NEW c \in Caller, EvalFails(c) PROVE RateInv'
  BY <1>4, EvalFailsStep
<1>5. CASE RateTick
  BY <1>5, RateTickStep
<1>6. CASE UNCHANGED ratevars
  BY <1>6 DEF ratevars, RateInv, RateTypeOK, StampInv, SentInv, ZsetInv, Slack, Stamp, NoStamp
<1> QED
  BY <1>1, <1>2, <1>3, <1>4, <1>5, <1>6 DEF RateNext

(* The inductive invariant holds in every behaviour. *)
THEOREM RateInvariant == RateSpec => []RateInv
  BY RateInitially, RateStep, PTL DEF RateSpec

(* The limiter's state keeps its types, and the sorted set never holds     *)
(* more than Limit members.                                                *)
THEOREM RateTypeCorrect == RateSpec => []RateTypeOK
<1>1. RateInv => RateTypeOK
  BY DEF RateInv
<1> QED
  BY RateInvariant, <1>1, PTL
-----------------------------------------------------------------------------
LEMMA HistoryBounds ==
  ASSUME RateTypeOK
  PROVE  Len(sent) \in Nat /\ DOMAIN sent = 1..Len(sent)
  BY DEF RateTypeOK

(* A step appends at most one message to the history. *)
LEMMA OneAtATime ==
  ASSUME RateInv, [RateNext]_ratevars
  PROVE  \/ sent' = sent
         \/ /\ Len(sent') = Len(sent) + 1
            /\ \A j \in 1..Len(sent) : sent'[j] = sent[j]
            /\ sent'[Len(sent) + 1].at = now'
<1>1. ASSUME NEW c \in Caller, NEW kind, Records(c, kind), now' = now
      PROVE  /\ Len(sent') = Len(sent) + 1
             /\ \A j \in 1..Len(sent) : sent'[j] = sent[j]
             /\ sent'[Len(sent) + 1].at = now'
  <2>1. /\ Len(sent') = Len(sent) + 1
        /\ \A j \in 1..Len(sent) : sent'[j] = sent[j]
        /\ sent'[Len(sent) + 1] = [at |-> now, member |-> stamp[c], kind |-> kind]
    BY <1>1, Recorded DEF RateInv
  <2> QED
    BY <1>1, <2>1
<1>2. ASSUME NEW c \in Caller, ReadClock(c) PROVE sent' = sent
  BY <1>2 DEF ReadClock
<1>3. ASSUME NEW c \in Caller, Eval(c)
      PROVE  now' = now /\ (Records(c, "checked") \/ sent' = sent)
  BY <1>3 DEF Eval, Returns
<1>4. ASSUME NEW c \in Caller, EvalRetried(c)
      PROVE  now' = now /\ (Records(c, "unanswered") \/ sent' = sent)
  BY <1>4 DEF EvalRetried
<1>5. ASSUME NEW c \in Caller, EvalFails(c)
      PROVE  now' = now /\ Records(c, "unchecked")
  BY <1>5 DEF EvalFails, Returns
<1>6. RateTick \/ UNCHANGED ratevars => sent' = sent
  BY DEF RateTick, ratevars
<1> QED
  BY <1>1, <1>2, <1>3, <1>4, <1>5, <1>6 DEF RateNext

(* The messages the script let through within the window less the slack    *)
(* are all still in the sorted set when the last of them is let through.   *)
LEMMA WithinStep ==
  ASSUME RateInv, RateInv', CheckedWithinLimit, [RateNext]_ratevars
  PROVE  CheckedWithinLimit'
<1> DEFINE n == Len(sent) + 1
<1>1. CASE sent' = sent
  BY <1>1 DEF CheckedWithinLimit, Checked, Together, Members, Slack
<1>2. CASE /\ Len(sent') = n /\ \A j \in 1..Len(sent) : sent'[j] = sent[j]
           /\ sent'[n].at = now'
  <2>1. /\ Len(sent) \in Nat /\ DOMAIN sent = 1..Len(sent) /\ DOMAIN sent' = 1..n
    BY <1>2, HistoryBounds DEF RateInv
  <2> SUFFICES ASSUME NEW i \in Checked'
               PROVE  Cardinality(Members(Together(i) \cap Checked)') <= Limit
    BY DEF CheckedWithinLimit
  <2>2. i \in 1..n /\ sent'[i].kind = "checked"
    BY <2>1 DEF Checked
  <2>3. CASE i = n
    <3>1. Members(Together(i) \cap Checked)' \subseteq zset'
      <4> SUFFICES ASSUME NEW j \in (Together(i) \cap Checked)'
                   PROVE  sent'[j].member \in zset'
        BY DEF Members
      <4>1. j \in 1..n /\ sent'[j].at > now' - (Window - Slack) /\ sent'[j].kind = "checked"
        BY <1>2, <2>1, <2>3 DEF Together, Checked, Slack
      <4>2. j \in 1..Len(sent') /\ sent'[j].at \in Int /\ now' \in Int
        <5>1. j \in 1..Len(sent')
          BY <1>2, <4>1
        <5>2. \A k \in 1..Len(sent') : sent'[k].at \in Int
          BY SentTypesNext
        <5>3. now' \in Int
          BY Numbers DEF RateInv, RateTypeOK
        <5> QED
          BY <5>1, <5>2, <5>3
      <4>3. now' < sent'[j].at + (Window - Slack)
        <5>1. Slack \in Nat
          BY Numbers DEF Slack
        <5> QED
          BY <4>1, <4>2, <5>1, Numbers
      <4>4. SentInv'
        BY DEF RateInv
      <4>5. now' < sent'[j].at + (Window - Slack) => sent'[j].member \in zset'
        BY <4>1, <4>2, <4>4 DEF SentInv, Slack
      <4> QED
        BY <4>3, <4>5
    <3>2. IsFiniteSet(zset') /\ Cardinality(zset') <= Limit
      BY DEF RateInv, ZsetInv, RateTypeOK
    <3>3. /\ Cardinality(Members(Together(i) \cap Checked)') <= Cardinality(zset')
          /\ IsFiniteSet(Members(Together(i) \cap Checked)')
      BY <3>1, <3>2, FS_Subset
    <3>4. /\ Cardinality(Members(Together(i) \cap Checked)') \in Nat
          /\ Cardinality(zset') \in Nat
      BY <3>2, <3>3, FS_CardinalityType
    <3> QED
      BY <3>2, <3>3, <3>4, Numbers
  <2>4. CASE i # n
    <3>1. i \in 1..Len(sent) /\ i \in Checked
      <4>1. i \in 1..Len(sent)
        BY <2>1, <2>2, <2>4
      <4> QED
        BY <1>2, <2>1, <2>2, <4>1 DEF Checked
    <3>2. \A j \in 1..i : j \in 1..Len(sent) /\ sent'[j] = sent[j]
      BY <1>2, <2>1, <3>1
    <3>3. Together(i)' = Together(i)
      BY <1>2, <3>1, <3>2 DEF Together, Slack
    <3>4. (Together(i) \cap Checked)' = Together(i) \cap Checked
      <4>1. \A j \in 1..i : j \in Checked' <=> j \in Checked
        BY <2>1, <2>2, <3>1, <3>2 DEF Checked
      <4>2. Together(i) \subseteq 1..i
        BY DEF Together
      <4> QED
        BY <3>3, <4>1, <4>2
    <3>5. \A j \in Together(i) \cap Checked : sent'[j].member = sent[j].member
      BY <3>2 DEF Together
    <3>6. Members(Together(i) \cap Checked)' = Members(Together(i) \cap Checked)
      BY <3>4, <3>5 DEF Members
    <3> QED
      BY <3>1, <3>6 DEF CheckedWithinLimit
  <2> QED
    BY <2>3, <2>4
<1> QED
  BY <1>1, <1>2, OneAtATime

(* For every limit, window, skew and delay, and however many scripts fail  *)
(* or are run twice: the messages the script let through within the window *)
(* less the slack were for at most Limit different milliseconds.           *)
THEOREM LimitHolds == RateSpec => []CheckedWithinLimit
<1>1. RateInit => CheckedWithinLimit
  BY DEF RateInit, CheckedWithinLimit, Checked
<1>2. RateInv /\ RateInv' /\ CheckedWithinLimit /\ [RateNext]_ratevars => CheckedWithinLimit'
  BY WithinStep
<1> QED
  BY RateInvariant, <1>1, <1>2, PTL DEF RateSpec

(* For the same constants: a call is denied only if the script has allowed *)
(* Limit calls of different milliseconds since the window and the slack.   *)
THEOREM DenialsJustified == RateSpec => DeniedOnlyWhenFull
<1>1. ASSUME RateInv, NEW c \in Caller, Eval(c), sent' = sent
      PROVE  Cardinality(AddedSince(now - Window - Slack)) >= Limit
  <2> DEFINE t == stamp[c]
             added == AddedSince(now - Window - Slack)
  <2>1. stamp[c] # NoStamp /\ Script(t)
    BY <1>1 DEF Eval
  <2>2. /\ t \in Int /\ now \in Nat /\ now - Delay - Skew <= t /\ t <= now + Skew
    BY <1>1, <2>1, StampBounds DEF RateInv
  <2>3. ~HasRoom(t)
    <3>1. ASSUME HasRoom(t) PROVE FALSE
      <4>1. Records(c, "checked")
        BY <1>1, <3>1 DEF Eval
      <4>2. Len(sent') = Len(sent) + 1 /\ Len(sent) \in Nat
        BY <1>1, <4>1, Recorded DEF RateInv
      <4> QED
        BY <1>1, <4>2
    <3> QED
      BY <3>1
  <2>4. IsFiniteSet(Recent(t)) /\ Cardinality(Recent(t)) \in Nat
    <3>1. IsFiniteSet(zset) /\ Recent(t) \subseteq zset
      BY <1>1 DEF RateInv, ZsetInv, Recent
    <3> QED
      BY <3>1, FS_Subset, FS_CardinalityType
  <2>5. Cardinality(Recent(t)) >= Limit
    BY <2>3, <2>4, Numbers DEF HasRoom
  <2>6. Recent(t) \subseteq added
    <3> SUFFICES ASSUME NEW x \in zset, x > t - Window PROVE x \in added
      BY DEF Recent
    <3>1. PICK j \in 1..Len(sent) : sent[j].member = x /\ sent[j].kind # "unchecked"
      BY <1>1 DEF RateInv, ZsetInv
    <3>2. sent[j].at \in Int /\ sent[j].member \in Int
      BY <1>1, SentTypes DEF RateInv
    <3>3. sent[j].member <= sent[j].at + Skew
      BY <1>1 DEF RateInv, SentInv
    <3>4. sent[j].at > now - Window - Slack
      <4> DEFINE a == sent[j].at
      <4>1. a \in Int /\ x \in Int /\ x <= a + Skew
        BY <3>1, <3>2, <3>3
      <4> HIDE DEF a, t
      <4>2. a > now - Window - (Delay + 2 * Skew)
        BY <2>2, <4>1, Numbers
      <4> QED
        BY <4>2 DEF a, Slack
    <3>5. j \in DOMAIN sent
      BY <1>1, HistoryBounds DEF RateInv
    <3> QED
      BY <3>1, <3>4, <3>5 DEF AddedSince
  <2>7. IsFiniteSet(added) /\ Cardinality(added) \in Nat
    <3>1. added \subseteq Stamp
      <4>1. \A j \in DOMAIN sent : sent[j].member \in Stamp
        BY <1>1, HistoryBounds, SentTypes DEF RateInv
      <4> QED
        BY <4>1 DEF AddedSince
    <3>2. IsFiniteSet(Stamp)
      BY FS_Interval, Numbers DEF Stamp
    <3> QED
      BY <3>1, <3>2, FS_Subset, FS_CardinalityType
  <2>8. Cardinality(Recent(t)) <= Cardinality(added)
    BY <2>6, <2>7, FS_Subset
  <2> QED
    BY <2>4, <2>5, <2>7, <2>8, Numbers
<1>2. RateInv => \A c \in Caller : Eval(c) /\ sent' = sent =>
                    Cardinality(AddedSince(now - Window - Slack)) >= Limit
  BY <1>1
<1> QED
  BY RateInvariant, <1>2, PTL DEF DeniedOnlyWhenFull
=============================================================================

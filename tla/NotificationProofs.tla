-------------------------- MODULE NotificationProofs --------------------------
(***************************************************************************)
(* Proofs about modules Delivery and Notification: one message on its way  *)
(* to its bots, for every set of bots and every number of retries; and     *)
(* where a message may go, for all settings, messages, bots and limits.    *)
(***************************************************************************)
EXTENDS Notification, FiniteSetTheorems, TLAPS

(***************************************************************************)
(* Delivery.  The invariant ties what is in a chat to where the goroutine  *)
(* of the bot is, and the errors in the channel to the goroutines that     *)
(* failed: only then do the results that Return computes from the channel  *)
(* say anything about the chats.                                           *)
(***************************************************************************)

(* Where the goroutine of b is, and what it has done by then. *)
AttemptsOf(b) ==
  /\ at[b] = "skipped" <=> b \notin enabled
  /\ delivered[b] <= tries[b]
  /\ at[b] = "post" => delivered[b] < tries[b]
  /\ at[b] \in {"attempt", "pause"} => tries[b] <= RetryCount
  /\ at[b] = "sent" => delivered[b] > 0
  /\ at[b] = "failed" => cancelled \/ tries[b] = RetryCount + 1

(* Copies without a lost answer: at most the one that ended the goroutine. *)
CopiesOf(b) ==
  b \notin lostAnswers =>
    /\ delivered[b] <= 1
    /\ at[b] # "sent" => delivered[b] = 0

ResultFits ==
  /\ ~returned => result = "none" /\ errors = {b \in Bot : at[b] = "failed"}
  /\ returned => result # "none" /\ AllEnded
  /\ result = "ok" => \A b \in Bot : at[b] # "failed"
  /\ result = "error" => \E b \in Bot : at[b] = "failed"

DeliveryInv ==
  /\ DeliveryTypeOK
  /\ \A b \in Bot : AttemptsOf(b) /\ CopiesOf(b)
  /\ ResultFits

LEMMA InitDelivery == DeliveryInit => DeliveryInv
<1> SUFFICES ASSUME DeliveryInit PROVE DeliveryInv OBVIOUS
<1> USE DeliveryAssumption DEF DeliveryInit, AtStart
<1>0. Cardinality(Bot) \in Nat BY FS_CardinalityType
<1>1. DeliveryTypeOK
  <2>1. at \in [Bot -> BotAt] BY DEF BotAt
  <2>2. tries \in [Bot -> 0..(RetryCount + 1)] /\ delivered \in [Bot -> 0..(RetryCount + 1)]
    OBVIOUS
  <2>3. sentCount \in 0..Cardinality(Bot) BY <1>0
  <2>4. bots \subseteq Bot /\ enabled \subseteq bots OBVIOUS
  <2> QED BY <2>1, <2>2, <2>3, <2>4 DEF DeliveryTypeOK
<1>2. \A b \in Bot : AttemptsOf(b) /\ CopiesOf(b) BY DEF AttemptsOf, CopiesOf
<1>3. ResultFits BY DEF ResultFits
<1> QED BY <1>1, <1>2, <1>3 DEF DeliveryInv

(* A goroutine only takes a step before sendToMultipleBots has returned.   *)
LEMMA NotReturned ==
  ASSUME DeliveryInv, NEW b \in Bot, ~Ended(b) PROVE ~returned
BY DEF DeliveryInv, ResultFits, AllEnded

LEMMA PostKeeps ==
  ASSUME DeliveryInv, NEW b \in Bot, Post(b) PROVE DeliveryInv'
<1> USE DeliveryAssumption DEF Post, Moves
<1>1. at \in [Bot -> BotAt] /\ tries \in [Bot -> 0..(RetryCount + 1)] /\ ~returned
  BY NotReturned DEF DeliveryInv, DeliveryTypeOK, Ended
<1>2. tries[b] <= RetryCount /\ b \in enabled
  BY DEF DeliveryInv, AttemptsOf
<1>3. DeliveryTypeOK'
  BY <1>1, <1>2 DEF DeliveryInv, DeliveryTypeOK, BotAt
<1>4. ASSUME NEW c \in Bot PROVE (AttemptsOf(c) /\ CopiesOf(c))'
  <2>1. AttemptsOf(c) /\ CopiesOf(c) BY DEF DeliveryInv
  <2>2. delivered \in [Bot -> 0..(RetryCount + 1)] BY DEF DeliveryInv, DeliveryTypeOK
  <2>3. CASE c = b
    BY <1>1, <1>2, <2>1, <2>2, <2>3 DEF AttemptsOf, CopiesOf
  <2>4. CASE c # b
    <3>1. at'[c] = at[c] /\ tries'[c] = tries[c] BY <2>4, <1>1
    <3> QED BY <3>1, <2>1 DEF AttemptsOf, CopiesOf
  <2> QED BY <2>3, <2>4
<1>5. ResultFits'
  <2>1. {c \in Bot : at'[c] = "failed"} = {c \in Bot : at[c] = "failed"} BY <1>1
  <2> QED BY <1>1, <2>1 DEF DeliveryInv, ResultFits
<1> QED BY <1>3, <1>4, <1>5 DEF DeliveryInv

(* What PostReturns and Resume have in common: goroutine b moves on, and   *)
(* with an error exactly if it has failed.                                 *)
LEMMA MoveKeepsResult ==
  ASSUME DeliveryInv, NEW b \in Bot, ~Ended(b), NEW s \in BotAt, Moves(b, s),
         errors' = IF s = "failed" THEN errors \cup {b} ELSE errors,
         UNCHANGED <<enabled, returned, result>>
  PROVE  ResultFits'
<1>1. at \in [Bot -> BotAt] /\ ~returned /\ at[b] # "failed"
  BY NotReturned DEF DeliveryInv, DeliveryTypeOK, Ended
<1>2. \A c \in Bot : at'[c] = IF c = b THEN s ELSE at[c]
  BY <1>1 DEF Moves
<1>3. errors = {c \in Bot : at[c] = "failed"} /\ result = "none"
  BY <1>1 DEF DeliveryInv, ResultFits
<1>4. errors' = {c \in Bot : at'[c] = "failed"}
  BY <1>1, <1>2, <1>3
<1> QED
  BY <1>1, <1>3, <1>4 DEF ResultFits

LEMMA PostReturnsKeeps ==
  ASSUME DeliveryInv, NEW b \in Bot, PostReturns(b) PROVE DeliveryInv'
<1> USE DeliveryAssumption
<1>0. at[b] = "post" /\ ~Ended(b) BY DEF PostReturns, Ended
<1>1. /\ at \in [Bot -> BotAt]
      /\ tries \in [Bot -> 0..(RetryCount + 1)] /\ delivered \in [Bot -> 0..(RetryCount + 1)]
  BY DEF DeliveryInv, DeliveryTypeOK
<1>2. delivered[b] < tries[b] /\ b \in enabled
  BY <1>0 DEF DeliveryInv, AttemptsOf
<1>3. PICK s \in BotAt :
        /\ Moves(b, s) /\ errors' = IF s = "failed" THEN errors \cup {b} ELSE errors
        /\ s \in {"pause", "failed"} => s = AfterError(b)
        /\ s \in {"sent", "pause", "failed"}
        /\ \/ s = "sent" /\ Delivers(b) /\ UNCHANGED lostAnswers
           \/ s # "sent" /\ Delivers(b) /\ lostAnswers' = lostAnswers \cup {b}
           \/ s # "sent" /\ UNCHANGED <<delivered, lostAnswers>>
  BY DEF PostReturns, PostSucceeds, PostFails, AfterError, BotAt
<1>4. UNCHANGED <<bots, enabled, tries, cancelled, returned, result, sentCount>>
  BY DEF PostReturns
<1>5. ResultFits'
  BY <1>0, <1>3, <1>4, MoveKeepsResult
<1>6. /\ at' \in [Bot -> BotAt] /\ delivered' \in [Bot -> 0..(RetryCount + 1)]
  BY <1>1, <1>2, <1>3 DEF Moves, Delivers
<1>7. DeliveryTypeOK'
  BY <1>3, <1>4, <1>6 DEF DeliveryInv, DeliveryTypeOK
<1>8. ASSUME NEW c \in Bot PROVE (AttemptsOf(c) /\ CopiesOf(c))'
  <2>1. AttemptsOf(c) /\ CopiesOf(c) BY DEF DeliveryInv
  <2>2. CASE c = b
    <3>1. at'[b] = s BY <1>1, <1>3 DEF Moves
    <3>2. Delivers(b) => delivered'[b] = delivered[b] + 1 BY <1>1 DEF Delivers
    <3>3. s = "pause" => tries[b] <= RetryCount BY <1>3 DEF AfterError
    <3>4. s = "failed" => tries[b] = RetryCount + 1 BY <1>1, <1>3 DEF AfterError
    <3>5. AttemptsOf(b)'
      BY <1>1, <1>2, <1>3, <1>4, <3>1, <3>2, <3>3, <3>4 DEF AttemptsOf
    <3>6. CopiesOf(b)'
      BY <1>0, <1>1, <1>3, <2>1, <2>2, <3>1, <3>2 DEF CopiesOf
    <3> QED BY <2>2, <3>5, <3>6
  <2>3. CASE c # b
    <3>1. at'[c] = at[c] BY <1>1, <1>3, <2>3 DEF Moves
    <3>2. delivered'[c] = delivered[c] BY <1>1, <1>3, <2>3 DEF Delivers
    <3>3. c \in lostAnswers' <=> c \in lostAnswers BY <1>3, <2>3
    <3> QED BY <1>4, <2>1, <3>1, <3>2, <3>3 DEF AttemptsOf, CopiesOf
  <2> QED BY <2>2, <2>3
<1> QED BY <1>5, <1>7, <1>8 DEF DeliveryInv

LEMMA ResumeKeeps ==
  ASSUME DeliveryInv, NEW b \in Bot, Resume(b) PROVE DeliveryInv'
<1> USE DeliveryAssumption
<1>0. at[b] = "pause" /\ ~Ended(b) BY DEF Resume, Ended
<1>1. at \in [Bot -> BotAt] /\ tries[b] <= RetryCount /\ b \in enabled
  BY <1>0 DEF DeliveryInv, DeliveryTypeOK, AttemptsOf
<1>2. PICK s \in {"attempt", "failed"} :
        /\ Moves(b, s) /\ errors' = IF s = "failed" THEN errors \cup {b} ELSE errors
        /\ s = "failed" => cancelled
  BY DEF Resume
<1>3. UNCHANGED <<bots, enabled, tries, delivered, cancelled, returned, result,
                  sentCount, lostAnswers>>
  BY DEF Resume
<1>4. ResultFits'
  BY <1>0, <1>2, <1>3, MoveKeepsResult DEF BotAt
<1>5. at' \in [Bot -> BotAt]
  BY <1>1, <1>2 DEF Moves, BotAt
<1>6. DeliveryTypeOK'
  BY <1>2, <1>3, <1>5 DEF DeliveryInv, DeliveryTypeOK
<1>7. ASSUME NEW c \in Bot PROVE (AttemptsOf(c) /\ CopiesOf(c))'
  <2>1. AttemptsOf(c) /\ CopiesOf(c) BY DEF DeliveryInv
  <2>2. at'[c] = IF c = b THEN s ELSE at[c] BY <1>1, <1>2 DEF Moves
  <2>3. CASE c = b
    BY <1>0, <1>1, <1>2, <1>3, <2>1, <2>2, <2>3 DEF AttemptsOf, CopiesOf
  <2>4. CASE c # b
    BY <1>3, <2>1, <2>2, <2>4 DEF AttemptsOf, CopiesOf
  <2> QED BY <2>3, <2>4
<1> QED BY <1>4, <1>6, <1>7 DEF DeliveryInv

LEMMA ReturnKeeps ==
  ASSUME DeliveryInv, Return PROVE DeliveryInv'
<1> USE DeliveryAssumption
<1>1. UNCHANGED <<bots, enabled, at, tries, delivered, cancelled, lostAnswers>>
  BY DEF Return
<1>2. errors' = {} /\ returned' = TRUE /\ AllEnded
      /\ result' = IF errors = {} THEN "ok" ELSE "error"
  BY DEF Return
<1>3. errors = {b \in Bot : at[b] = "failed"}
  BY DEF DeliveryInv, ResultFits, Return
<1>4. sentCount' \in 0..Cardinality(Bot)
  <2>1. bots \subseteq Bot BY DEF DeliveryInv, DeliveryTypeOK
  <2>2. Cardinality(errors') = 0 BY <1>2, FS_EmptySet
  <2>3. IsFiniteSet(bots) /\ Cardinality(bots) <= Cardinality(Bot) BY <2>1, FS_Subset
  <2>4. Cardinality(bots) \in Nat /\ Cardinality(Bot) \in Nat
    BY <2>3, FS_CardinalityType
  <2> QED BY <2>2, <2>3, <2>4 DEF Return
<1>5. DeliveryTypeOK'
  BY <1>1, <1>2, <1>4 DEF DeliveryInv, DeliveryTypeOK
<1>6. ResultFits'
  BY <1>1, <1>2, <1>3 DEF ResultFits, AllEnded, Ended
<1> QED
  BY <1>1, <1>5, <1>6 DEF DeliveryInv, AttemptsOf, CopiesOf

LEMMA DeliveryStep == DeliveryInv /\ [DeliveryNext]_dvars => DeliveryInv'
<1> SUFFICES ASSUME DeliveryInv, [DeliveryNext]_dvars PROVE DeliveryInv'
  OBVIOUS
<1>1. ASSUME NEW b \in Bot, Post(b) \/ PostReturns(b) \/ Resume(b) PROVE DeliveryInv'
  BY <1>1, PostKeeps, PostReturnsKeeps, ResumeKeeps
<1>2. CASE Return
  BY <1>2, ReturnKeeps
<1>3. CASE CancelContext
  BY <1>3 DEF CancelContext, DeliveryInv, DeliveryTypeOK, AttemptsOf, CopiesOf,
              ResultFits, AllEnded, Ended
<1>4. CASE UNCHANGED dvars
  BY <1>4 DEF dvars, DeliveryInv, DeliveryTypeOK, AttemptsOf, CopiesOf,
              ResultFits, AllEnded, Ended
<1> QED
  BY <1>1, <1>2, <1>3, <1>4 DEF DeliveryNext

THEOREM DeliveryInvariant == DeliverySpec => []DeliveryInv
BY InitDelivery, DeliveryStep, PTL DEF DeliverySpec

-----------------------------------------------------------------------------
(* DeliveryTypeOK is an invariant: no bot is tried more often than         *)
(* RetryCount allows.                                                      *)
THEOREM DeliveryTyped == DeliverySpec => []DeliveryTypeOK
<1>1. DeliveryInv => DeliveryTypeOK BY DEF DeliveryInv
<1> QED BY <1>1, DeliveryInvariant, PTL

(* sendToMultipleBots returns no error only if every enabled bot has the   *)
(* message in its chat.                                                    *)
THEOREM OkDelivered == DeliverySpec => []OkMeansDelivered
<1>1. DeliveryInv => OkMeansDelivered
  <2> SUFFICES ASSUME DeliveryInv, result = "ok", NEW b \in enabled PROVE delivered[b] > 0
    BY DEF OkMeansDelivered
  <2>1. b \in Bot /\ returned /\ at[b] # "failed"
    BY DEF DeliveryInv, DeliveryTypeOK, ResultFits
  <2>2. at[b] = "sent"
    BY <2>1 DEF DeliveryInv, ResultFits, AllEnded, Ended, AttemptsOf
  <2> QED BY <2>1, <2>2 DEF DeliveryInv, AttemptsOf
<1> QED BY <1>1, DeliveryInvariant, PTL

(* It returns an error only after a bot used up its attempts or the        *)
(* context was cancelled.                                                  *)
THEOREM ErrorExhausted == DeliverySpec => []ErrorMeansExhausted
<1>1. DeliveryInv => ErrorMeansExhausted
  BY DEF DeliveryInv, ResultFits, AttemptsOf, ErrorMeansExhausted
<1> QED BY <1>1, DeliveryInvariant, PTL

(* A chat gets a second copy only after an answer was lost.                *)
THEOREM CopiesJustified == DeliverySpec => []CopiesNeedLostAnswers
<1>1. DeliveryInv => CopiesNeedLostAnswers
  BY DEF DeliveryInv, DeliveryTypeOK, CopiesOf, CopiesNeedLostAnswers
<1> QED BY <1>1, DeliveryInvariant, PTL

-----------------------------------------------------------------------------
(***************************************************************************)
(* Notification                                                            *)
(***************************************************************************)

(* Who the bots were chosen by, once they have been.                       *)
Decided ==
  \/ \E list \in seenTokens, g \in seenTelegram : enabled = Recipients(message, list, g)
  \/ "tokens" \in readsFailed /\ enabled = IF globalOn THEN {Global} ELSE {}
  \/ "telegram" \in readsFailed /\ enabled = {}
  \/ limited /\ enabled = {}

(* Before that: what the first read found.                                 *)
Matched ==
  \E list \in seenTokens :
    LET t == Found(message, list) IN
    /\ message.form # "plain"
    /\ t # NoMatch /\ Passes(message, t) /\ config = t.config[message.stream]

ReadsInv ==
  /\ step \in StepName
  /\ step # "idle" =>
       /\ message \in Messages
       /\ seenTokens \subseteq TokenLists /\ tokens \in seenTokens
       /\ seenTelegram \subseteq Telegrams /\ telegram \in seenTelegram
  /\ step = "telegram" => Matched

(* A chat has the message only if its bot was chosen, and a success means  *)
(* that all of those have.                                                 *)
ChatsInv ==
  /\ enabled \subseteq Bot
  /\ at \in [Bot -> BotAt] /\ delivered \in [Bot -> Nat]
  /\ step # "sending" => \A b \in Bot : at[b] = "skipped" /\ delivered[b] = 0
  /\ step \in {"idle", "tokens", "telegram", "limit"} => ~returned /\ result = "none"
  /\ step = "done" => enabled = {}
  /\ step = "sending" => \A b \in Bot : b \in enabled <=> at[b] # "skipped"
  /\ \A b \in Bot : /\ delivered[b] > 0 => b \in enabled
                    /\ at[b] = "sent" => delivered[b] > 0
  /\ ~returned => result = "none" /\ errors = {b \in Bot : at[b] = "failed"}
  /\ step = "sending" /\ returned => AllEnded
  /\ step = "sending" /\ result = "ok" => \A b \in Bot : at[b] # "failed"

NInv == ReadsInv /\ ChatsInv

DecidedInv == step \in {"limit", "sending", "done"} => Decided

NotifyInv == NInv /\ DecidedInv

-----------------------------------------------------------------------------
(* What the handler concludes from the settings is what they ask for. *)

(* The loop ends at the first of the tokens with the address.              *)
LEMMA NatsHaveMin ==
  ASSUME NEW S \in SUBSET Nat, S # {} PROVE Min(S) \in S /\ \A j \in S : Min(S) <= j
<1> DEFINE Upto == {0..k : k \in S}
<1>1. PICK U \in Upto : \A V \in Upto : <<V, U>> \notin StrictSubsetOrdering(Nat)
  <2>1. ASSUME NEW k \in S PROVE 0..k \in FiniteSubsetsOf(Nat)
    <3>1. 0..k \in SUBSET Nat /\ k \in Int /\ 0 \in Int
      OBVIOUS
    <3>2. IsFiniteSet(0..k)
      BY <3>1, FS_Interval
    <3> QED
      BY <3>1, <3>2 DEF FiniteSubsetsOf
  <2>2. Upto \subseteq FiniteSubsetsOf(Nat) /\ Upto # {}
    BY <2>1
  <2>3. IsWellFoundedOn(StrictSubsetOrdering(Nat), FiniteSubsetsOf(Nat))
    BY FS_StrictSubsetOrderingWellFounded
  <2> HIDE DEF Upto
  <2> QED
    BY <2>2, <2>3, WFMin
<1>2. PICK k \in S : U = 0..k
  OBVIOUS
<1>3. ASSUME NEW j \in S, j < k PROVE FALSE
  <2>1. 0..j \subseteq 0..k /\ k \in 0..k /\ k \notin 0..j
    BY <1>3
  <2>2. <<0..j, U>> \in StrictSubsetOrdering(Nat)
    BY <1>2, <2>1 DEF StrictSubsetOrdering
  <2> QED
    BY <1>1, <2>2
<1>4. \A j \in S : k <= j
  BY <1>3
<1> QED
  BY <1>4 DEF Min

(* The token the loop finds governs the message, alone.                    *)
LEMMA FoundGoverns ==
  ASSUME NEW list \in TokenLists, NEW m \in Messages
  PROVE  \/ Found(m, list) = NoMatch /\ Governing(m, list) = {}
         \/ /\ Found(m, list) # NoMatch /\ Governing(m, list) = {Found(m, list)}
            /\ \E i \in DOMAIN list : Found(m, list) = list[i]
<1> DEFINE At == {i \in DOMAIN list : list[i].token = m.token}
           First == {j \in At : \A k \in At : j <= k}
<1>0. Governing(m, list) = {list[i] : i \in First}
  <2>1. First = {j \in DOMAIN list :
                   /\ list[j].token = m.token
                   /\ \A k \in DOMAIN list : list[k].token = m.token => j <= k}
    OBVIOUS
  <2> HIDE DEF First
  <2> QED
    BY <2>1 DEF Governing
<1>1. CASE At = {}
  BY <1>0, <1>1 DEF Found
<1>2. CASE At # {}
  <2> DEFINE i == Min(At)
  <2>1. At \in SUBSET Nat
    BY SettingsAssumption
  <2>2. i \in At /\ \A j \in At : i <= j
    BY <1>2, <2>1, NatsHaveMin
  <2>3. Found(m, list) = list[i]
    BY <1>2 DEF Found
  <2> HIDE DEF i
  <2>4. First = {i}
    BY <2>1, <2>2
  <2>5. Governing(m, list) = {list[i]}
    BY <1>0, <2>4
  <2>6. list[i] # NoMatch /\ i \in DOMAIN list
    BY <2>2, SettingsAssumption
  <2> QED
    BY <2>3, <2>5, <2>6
<1> QED
  BY <1>1, <1>2

(* The toggles and filters, checked one by one in ShouldNotifyTx, ask for  *)
(* what the settings say.                                                  *)
LEMMA PassesWanted ==
  ASSUME NEW list \in TokenLists, NEW m \in Messages, NEW i \in DOMAIN list
  PROVE  Passes(m, list[i]) <=> Wanted(m, list[i])
<1> DEFINE t == list[i]
           c == t.config[m.stream]
<1>1. CASE m.stream \notin t.streams
  BY <1>1 DEF Passes, Wanted, IsStreamNotifyEnabled
<1>2. CASE m.stream \in t.streams /\ c = NoConfig
  BY <1>2 DEF Passes, Wanted, IsStreamNotifyEnabled
<1>3. CASE m.stream \in t.streams /\ c # NoConfig
  <2>1. c.min \in Nat /\ c.filter \in {"both", "buy", "sell"} /\ m.value \in Nat
    BY <1>3, SettingsAssumption DEF IsConfig
  <2>2. ~(c.min > 0 /\ m.value < c.min) <=> m.value >= c.min
    BY <2>1
  <2>3. (\/ c.filter = "both" \/ m.type = ""
         \/ (c.filter = "buy" => m.type = "buy") /\ (c.filter = "sell" => m.type = "sell"))
        <=> (c.filter = "both" \/ m.type \in {c.filter, ""})
    BY <2>1
  <2>4. ShouldNotifyTx(c, m.type, m.value) <=>
          c.enabled /\ m.value >= c.min /\ (c.filter = "both" \/ m.type \in {c.filter, ""})
    BY <2>2, <2>3, Zenon DEF ShouldNotifyTx
  <2> QED
    BY <1>3, <2>4 DEF Passes, Wanted, IsStreamNotifyEnabled
<1> QED
  BY <1>1, <1>2, <1>3

(* Recipients of a message whose token t is found.                         *)
ChosenBy(t, m, g) ==
  IF ~Passes(m, t) THEN {}
  ELSE IF t.config[m.stream] # NoConfig /\ t.config[m.stream].bots # {}
         THEN t.config[m.stream].on
  ELSE IF g.enabled THEN {g.bot} \ {NoBot} ELSE {}

LEMMA RecipientsFound ==
  ASSUME NEW list \in TokenLists, NEW m \in Messages, m.form # "plain",
         Found(m, list) # NoMatch, NEW g
  PROVE  Recipients(m, list, g) = ChosenBy(Found(m, list), m, g)
<1> DEFINE To(t) == IF ~Wanted(m, t) THEN {}
                    ELSE IF t.config[m.stream] # NoConfig /\ t.config[m.stream].bots # {}
                           THEN t.config[m.stream].on
                    ELSE IF g.enabled THEN {g.bot} \ {NoBot} ELSE {}
<1>1. PICK i \in DOMAIN list : Found(m, list) = list[i]
  BY FoundGoverns
<1>2. Governing(m, list) = {Found(m, list)}
  BY FoundGoverns
<1>3. Passes(m, Found(m, list)) <=> Wanted(m, Found(m, list))
  BY <1>1, PassesWanted
<1>4. Recipients(m, list, g) = UNION {To(t) : t \in Governing(m, list)}
  <2>1. Governing(m, list) # {}
    BY <1>2
  <2> QED
    BY <2>1 DEF Recipients, RecipientsBy
<1>5. To(Found(m, list)) = ChosenBy(Found(m, list), m, g)
  BY <1>3 DEF ChosenBy
<1> HIDE DEF To
<1>6. UNION {To(t) : t \in {Found(m, list)}} = To(Found(m, list))
  OBVIOUS
<1> QED
  BY <1>2, <1>4, <1>5, <1>6

LEMMA RecipientsGlobal ==
  ASSUME NEW list \in TokenLists, NEW m \in Messages, NEW g,
         m.form = "plain" \/ Found(m, list) = NoMatch
  PROVE  Recipients(m, list, g) = IF globalOn THEN {Global} ELSE {}
<1>1. CASE m.form = "plain"
  BY <1>1 DEF Recipients, RecipientsBy
<1>2. CASE m.form # "plain"
  BY <1>2, FoundGoverns DEF Recipients, RecipientsBy
<1> QED
  BY <1>1, <1>2

LEMMA FoundListed ==
  ASSUME NEW list \in TokenLists, NEW m, Found(m, list) # NoMatch
  PROVE  \E i \in DOMAIN list : Found(m, list) = list[i] /\ list[i].token = m.token
<1> DEFINE At == {i \in DOMAIN list : list[i].token = m.token}
<1>1. At # {} /\ Found(m, list) = list[Min(At)]
  BY DEF Found
<1>2. At \in SUBSET Nat
  BY SettingsAssumption
<1>3. Min(At) \in At
  BY <1>1, <1>2, NatsHaveMin
<1> QED
  BY <1>1, <1>3

(* The bots chosen are bots.                                               *)
LEMMA ChosenAreBots ==
  ASSUME NEW list \in TokenLists, NEW m \in Messages,
         Found(m, list) # NoMatch, NEW g \in Telegrams
  PROVE  ChosenBy(Found(m, list), m, g) \subseteq Bot
<1>1. PICK i \in DOMAIN list : Found(m, list) = list[i]
  BY FoundListed
<1>2. CASE ~Passes(m, list[i])
  BY <1>1, <1>2 DEF ChosenBy
<1>3. CASE Passes(m, list[i])
  <2>1. m.stream \in list[i].streams
    BY <1>3 DEF Passes, IsStreamNotifyEnabled
  <2>2. IsConfig(list[i].config[m.stream]) /\ g.bot \in Bot \cup {NoBot}
    BY <2>1, SettingsAssumption
  <2> QED
    BY <1>1, <2>2 DEF ChosenBy, IsConfig
<1> QED
  BY <1>2, <1>3

-----------------------------------------------------------------------------
(* The steps *)

(* Recipients depends on the state only through the message and globalOn.  *)
LEMMA SameRecipients ==
  ASSUME NEW list, NEW g, UNCHANGED <<message, globalOn>>
  PROVE  Recipients(message, list, g)' = Recipients(message, list, g)
BY DEF Recipients, RecipientsBy, Governing, Wanted

LEMMA SameDecision ==
  ASSUME Decided, UNCHANGED <<message, globalOn, seenTokens, seenTelegram, readsFailed,
                              limited, enabled>>
  PROVE  Decided'
<1>1. CASE \E list \in seenTokens, g \in seenTelegram : enabled = Recipients(message, list, g)
  <2>1. PICK list \in seenTokens, g \in seenTelegram : enabled = Recipients(message, list, g)
    BY <1>1
  <2>2. Recipients(message, list, g)' = Recipients(message, list, g)
    BY SameRecipients
  <2> QED
    BY <2>1, <2>2 DEF Decided
<1>2. CASE ~\E list \in seenTokens, g \in seenTelegram : enabled = Recipients(message, list, g)
  BY <1>2 DEF Decided
<1> QED
  BY <1>1, <1>2

LEMMA SameMatch ==
  ASSUME Matched, UNCHANGED <<message, config>>, seenTokens \subseteq seenTokens'
  PROVE  Matched'
<1>1. PICK list \in seenTokens :
        /\ message.form # "plain" /\ Found(message, list) # NoMatch
        /\ Passes(message, Found(message, list))
        /\ config = Found(message, list).config[message.stream]
  BY DEF Matched
<1>2. Found(message, list)' = Found(message, list)
  BY DEF Found
<1>3. Passes(message, Found(message, list))' <=> Passes(message, Found(message, list))
  BY <1>2 DEF Passes, IsStreamNotifyEnabled, ShouldNotifyTx
<1> QED
  BY <1>1, <1>2, <1>3 DEF Matched

(* What reading and ending leave of the chats.                             *)
LEMMA EndsSilentlyChats ==
  ASSUME ChatsInv, step # "sending", EndsSilently
  PROVE  ChatsInv' /\ enabled' = {} /\ step' = "done"
<1>1. /\ enabled' = {} /\ step' = "done" /\ at' = at /\ delivered' = delivered
      /\ returned' = TRUE
  BY DEF EndsSilently
<1>2. \A b \in Bot : at[b] = "skipped" /\ delivered[b] = 0
  BY DEF ChatsInv
<1> QED
  BY <1>1, <1>2 DEF ChatsInv

LEMMA SendToChats ==
  ASSUME ChatsInv, step \in {"tokens", "telegram"}, NEW list, list.on \subseteq Bot,
         SendTo(list)
  PROVE  ChatsInv' /\ enabled' = list.on /\ step' = "limit"
<1>1. /\ enabled' = list.on /\ step' = "limit" /\ at' = at /\ delivered' = delivered
      /\ returned' = returned /\ result' = result /\ errors' = errors
  BY DEF SendTo
<1>2. \A b \in Bot : at[b] = "skipped" /\ delivered[b] = 0
  BY DEF ChatsInv
<1> QED
  BY <1>1, <1>2 DEF ChatsInv

LEMMA SendWithGlobalChats ==
  ASSUME ChatsInv, step = "tokens", SendWithGlobalConfig
  PROVE  /\ ChatsInv' /\ step' = "limit"
         /\ enabled' = IF globalOn THEN {Global} ELSE {}
<1> DEFINE list == [all |-> {Global}, on |-> IF globalOn THEN {Global} ELSE {}]
<1>1. list.on \subseteq Bot
  BY NotificationAssumption
<1>2. SendTo(list)
  BY DEF SendWithGlobalConfig
<1> HIDE DEF list
<1>3. ChatsInv' /\ step' = "limit" /\ enabled' = list.on
  BY <1>1, <1>2, SendToChats
<1> QED
  BY <1>3 DEF list

LEMMA InitNotification == NotificationInit => NotifyInv
<1> SUFFICES ASSUME NotificationInit PROVE NotifyInv
  OBVIOUS
<1>1. \A b \in Bot : at[b] = "skipped" /\ delivered[b] = 0
  BY DEF NotificationInit, AtStart
<1>2. at \in [Bot -> BotAt] /\ delivered \in [Bot -> Nat]
  BY DEF NotificationInit, AtStart, BotAt
<1>3. ChatsInv
  BY <1>1, <1>2 DEF NotificationInit, ChatsInv
<1>4. ReadsInv
  BY DEF NotificationInit, ReadsInv, StepName
<1>5. DecidedInv
  BY DEF NotificationInit, DecidedInv
<1> QED
  BY <1>3, <1>4, <1>5 DEF NotifyInv, NInv

LEMMA FormatStep == ASSUME NInv, NEW m \in Messages, FormatMessage(m) PROVE NotifyInv'
<1>1. /\ step = "idle" /\ step' = "tokens" /\ message' = m
      /\ tokens' \in TokenLists /\ seenTokens' = {tokens'}
      /\ telegram' \in Telegrams /\ seenTelegram' = {telegram'}
      /\ UNCHANGED dvars
  BY DEF FormatMessage
<1>2. ReadsInv'
  BY <1>1 DEF ReadsInv, StepName
<1>3. ChatsInv'
  BY <1>1 DEF NInv, ChatsInv, dvars
<1> QED
  BY <1>1, <1>2, <1>3 DEF NotifyInv, DecidedInv, NInv

(* The first read settles where the message goes, or finds its token.      *)
LEMMA ReadTokensStep == ASSUME NInv, ReadTokens PROVE NotifyInv'
<1>1. /\ step = "tokens" /\ ReadsInv /\ ChatsInv
      /\ message' = message /\ globalOn' = globalOn /\ limited' = limited
      /\ tokens' = tokens /\ seenTokens' = seenTokens
      /\ telegram' = telegram /\ seenTelegram' = seenTelegram
  BY DEF ReadTokens, NInv, settingsvars
<1>2. /\ message \in Messages
      /\ seenTokens \subseteq TokenLists /\ tokens \in seenTokens
      /\ seenTelegram \subseteq Telegrams /\ telegram \in seenTelegram
  BY <1>1 DEF ReadsInv
<1>3. ASSUME ChatsInv', step' \in {"limit", "done"}, Decided'
      PROVE  NotifyInv'
  BY <1>1, <1>2, <1>3 DEF NotifyInv, DecidedInv, NInv, ReadsInv, StepName
<1>4. ASSUME enabled' = Recipients(message, tokens, telegram) PROVE Decided'
  <2>1. Recipients(message, tokens, telegram)' = Recipients(message, tokens, telegram)
    BY <1>1 DEF Recipients, RecipientsBy, Governing, Wanted
  <2> QED
    BY <1>1, <1>2, <1>4, <2>1 DEF Decided
<1>5. CASE NothingToRead
  <2>1. message.form = "plain"
    BY <1>5 DEF NothingToRead
  <2>2. Recipients(message, tokens, telegram) = IF globalOn THEN {Global} ELSE {}
    BY <1>2, <2>1, RecipientsGlobal
  <2>3. CASE globalOn
    BY <1>1, <1>3, <1>4, <1>5, <2>2, <2>3, SendWithGlobalChats DEF NothingToRead
  <2>4. CASE ~globalOn
    BY <1>1, <1>3, <1>4, <1>5, <2>2, <2>4, EndsSilentlyChats DEF NothingToRead
  <2> QED
    BY <2>3, <2>4
<1>6. CASE TokensUnread
  <2>1. "tokens" \in readsFailed'
    BY <1>6 DEF TokensUnread
  <2>2. CASE globalOn
    <3>1. ChatsInv' /\ step' = "limit" /\ enabled' = {Global}
      BY <1>1, <1>6, <2>2, SendWithGlobalChats DEF TokensUnread
    <3> QED
      BY <1>1, <1>3, <2>1, <2>2, <3>1 DEF Decided
  <2>3. CASE ~globalOn
    <3>1. ChatsInv' /\ step' = "done" /\ enabled' = {}
      BY <1>1, <1>6, <2>3, EndsSilentlyChats DEF TokensUnread
    <3> QED
      BY <1>1, <1>3, <2>1, <2>3, <3>1 DEF Decided
  <2> QED
    BY <2>2, <2>3
<1>7. CASE TokensRead
  <2> DEFINE t == Found(message, tokens)
  <2>1. message.form # "plain" /\ tokens \in TokenLists
    BY <1>2, <1>7 DEF TokensRead
  <2>2. CASE t = NoMatch
    <3>1. Recipients(message, tokens, telegram) = IF globalOn THEN {Global} ELSE {}
      BY <1>2, <2>1, <2>2, RecipientsGlobal
    <3>2. SendWithGlobalConfig
      BY <1>7, <2>2 DEF TokensRead, NotFound
    <3> QED
      BY <1>1, <1>3, <1>4, <3>1, <3>2, SendWithGlobalChats
  <2>3. CASE t # NoMatch /\ ~Passes(message, t)
    <3>1. Recipients(message, tokens, telegram) = {}
      BY <1>2, <2>1, <2>3, RecipientsFound DEF ChosenBy
    <3>2. EndsSilently
      BY <1>7, <2>3 DEF TokensRead
    <3> QED
      BY <1>1, <1>3, <1>4, <3>1, <3>2, EndsSilentlyChats
  <2>4. CASE t # NoMatch /\ Passes(message, t)
    <3>1. config' = t.config[message.stream] /\ step' = "telegram" /\ UNCHANGED dvars
      BY <1>7, <2>4 DEF TokensRead
    <3>2. Matched'
      BY <1>1, <1>2, <2>1, <2>4, <3>1 DEF Matched
    <3>3. ReadsInv'
      BY <1>1, <1>2, <3>1, <3>2 DEF ReadsInv, StepName
    <3>4. ChatsInv'
      BY <1>1, <3>1 DEF ChatsInv, dvars
    <3> QED
      BY <3>1, <3>3, <3>4 DEF NotifyInv, DecidedInv, NInv
  <2> QED
    BY <2>2, <2>3, <2>4
<1> QED
  BY <1>5, <1>6, <1>7 DEF ReadTokens

(* The second read: the token's own bots, or the default one.              *)
LEMMA ReadTelegramStep == ASSUME NInv, ReadTelegram PROVE NotifyInv'
<1>1. /\ step = "telegram" /\ ReadsInv /\ ChatsInv /\ Matched
      /\ message' = message /\ globalOn' = globalOn /\ limited' = limited
      /\ tokens' = tokens /\ seenTokens' = seenTokens
      /\ telegram' = telegram /\ seenTelegram' = seenTelegram
  BY DEF ReadTelegram, NInv, settingsvars, ReadsInv
<1>2. /\ message \in Messages
      /\ seenTokens \subseteq TokenLists /\ tokens \in seenTokens
      /\ seenTelegram \subseteq Telegrams /\ telegram \in seenTelegram
  BY <1>1 DEF ReadsInv
<1>3. PICK seen \in seenTokens :
        /\ message.form # "plain" /\ Found(message, seen) # NoMatch
        /\ Passes(message, Found(message, seen))
        /\ config = Found(message, seen).config[message.stream]
  BY <1>1 DEF Matched
<1>4. PICK failed \in BOOLEAN :
        LET list == GetTelegramBots(config, IF failed THEN NoTelegram ELSE telegram) IN
        /\ IF list.all = {} THEN EndsSilently ELSE SendTo(list)
        /\ readsFailed' = IF failed THEN readsFailed \cup {"telegram"} ELSE readsFailed
  BY DEF ReadTelegram
<1> DEFINE list == GetTelegramBots(config, IF failed THEN NoTelegram ELSE telegram)
           chosen == ChosenBy(Found(message, seen), message, telegram)
<1>5. /\ Recipients(message, seen, telegram) = chosen
      /\ chosen \subseteq Bot
  BY <1>2, <1>3, RecipientsFound, ChosenAreBots
<1>6. \/ list.on = chosen
      \/ failed /\ list.on = {} /\ list.all = {}
  <2>1. CASE config # NoConfig /\ config.bots # {}
    BY <1>3, <2>1 DEF GetTelegramBots, ChosenBy
  <2>2. CASE ~(config # NoConfig /\ config.bots # {})
    BY <1>3, <2>2 DEF GetTelegramBots, ChosenBy, DefaultBots, NoTelegram
  <2> QED
    BY <2>1, <2>2
<1>7. list.all = {} => list.on = {}
  BY DEF GetTelegramBots, DefaultBots
<1>8. list.on \subseteq Bot
  BY <1>5, <1>6
<1>9. IF list.all = {} THEN EndsSilently ELSE SendTo(list)
  BY <1>4
<1>10. readsFailed' = IF failed THEN readsFailed \cup {"telegram"} ELSE readsFailed
  BY <1>4
<1> HIDE DEF list
<1>11. ChatsInv' /\ step' \in {"limit", "done"} /\ enabled' = list.on
  BY <1>1, <1>7, <1>8, <1>9, SendToChats, EndsSilentlyChats
<1>12. Recipients(message, seen, telegram)' = Recipients(message, seen, telegram)
  BY <1>1 DEF Recipients, RecipientsBy, Governing, Wanted
<1>13. Decided'
  <2>1. CASE list.on = chosen
    BY <1>1, <1>2, <1>5, <1>11, <1>12, <2>1 DEF Decided
  <2>2. CASE failed /\ list.on = {}
    BY <1>10, <1>11, <2>2 DEF Decided
  <2> QED
    BY <1>6, <2>1, <2>2
<1> QED
  BY <1>1, <1>2, <1>11, <1>13 DEF NotifyInv, DecidedInv, NInv, ReadsInv, StepName

LEMMA CheckLimitStep == ASSUME NotifyInv, CheckLimit PROVE NotifyInv'
<1>1. /\ step = "limit" /\ ReadsInv /\ ChatsInv /\ (Decided)
      /\ message' = message /\ globalOn' = globalOn /\ readsFailed' = readsFailed
      /\ tokens' = tokens /\ seenTokens' = seenTokens
      /\ telegram' = telegram /\ seenTelegram' = seenTelegram
  BY DEF CheckLimit, NotifyInv, DecidedInv, NInv, settingsvars
<1>2. CASE StartSending /\ limited' = limited
  <2>1. /\ step' = "sending" /\ enabled' = enabled /\ delivered' = delivered
        /\ returned' = returned /\ result' = result
    BY <1>2 DEF StartSending
  <2>2. /\ ~returned /\ result = "none" /\ errors = {} /\ enabled \subseteq Bot
        /\ delivered \in [Bot -> Nat] /\ \A b \in Bot : delivered[b] = 0
    BY <1>1 DEF ChatsInv
  <2>3. /\ at' \in [Bot -> BotAt]
        /\ \A b \in Bot : at'[b] # "sent" /\ (b \in enabled <=> at'[b] # "skipped")
        /\ errors' = {b \in Bot : at'[b] = "failed"}
    <3>1. CASE at' = AtStart(enabled) /\ errors' = errors
      BY <2>2, <3>1 DEF AtStart, BotAt
    <3>2. CASE /\ enabled = {Global} /\ errors' = {Global}
               /\ at' = [AtStart({}) EXCEPT ![Global] = "failed"]
      <4>1. at' = [b \in Bot |-> IF b = Global THEN "failed" ELSE "skipped"]
        BY <3>2 DEF AtStart
      <4> QED
        BY <2>2, <3>2, <4>1 DEF BotAt
    <3> QED
      BY <1>2, <3>1, <3>2 DEF StartSending
  <2>4. ChatsInv'
    BY <2>1, <2>2, <2>3 DEF ChatsInv
  <2>5. Decided'
    BY <1>1, <1>2, <2>1, SameDecision
  <2> QED
    BY <1>1, <2>1, <2>4, <2>5 DEF NotifyInv, DecidedInv, NInv, ReadsInv, StepName
<1>3. CASE EndsSilently /\ limited' = TRUE
  <2>1. ChatsInv' /\ enabled' = {} /\ step' = "done"
    BY <1>1, <1>3, EndsSilentlyChats
  <2>2. Decided'
    BY <1>3, <2>1 DEF Decided
  <2> QED
    BY <1>1, <2>1, <2>2 DEF NotifyInv, DecidedInv, NInv, ReadsInv, StepName
<1> QED
  BY <1>2, <1>3 DEF CheckLimit

LEMMA SettingsStep == ASSUME NInv, SettingsChange PROVE NotifyInv'
<1>1. /\ step \in {"tokens", "telegram"} /\ step' = step /\ message' = message
      /\ config' = config
      /\ seenTokens' = seenTokens \cup {tokens'} /\ seenTelegram' = seenTelegram \cup {telegram'}
      /\ tokens' \in TokenLists \cup {tokens} /\ telegram' \in Telegrams \cup {telegram}
      /\ UNCHANGED dvars
  BY DEF SettingsChange, notifyvars
<1>2. ReadsInv'
  BY <1>1, SameMatch DEF NInv, ReadsInv
<1>3. ChatsInv'
  BY <1>1 DEF NInv, ChatsInv, dvars
<1> QED
  BY <1>1, <1>2, <1>3 DEF NotifyInv, DecidedInv, NInv

(* While the message is sent, what was decided stays so. *)
LEMMA SendingReads ==
  ASSUME NotifyInv, step = "sending", UNCHANGED <<settingsvars, notifyvars, enabled>>
  PROVE  ReadsInv' /\ (DecidedInv')
BY SameDecision DEF NotifyInv, DecidedInv, NInv, ReadsInv, settingsvars, notifyvars, StepName

(* A goroutine takes a step. *)
LEMMA BotChats ==
  ASSUME ChatsInv, step = "sending", step' = step, NEW b \in Bot,
         Post(b) \/ PostReturns(b) \/ Resume(b)
  PROVE  ChatsInv' /\ enabled' = enabled
<1>1. /\ at[b] \in {"attempt", "post", "pause"} /\ ~returned /\ b \in enabled
      /\ errors = {c \in Bot : at[c] = "failed"} /\ result = "none"
  BY DEF ChatsInv, Post, PostReturns, Resume, AllEnded, Ended
<1>2. PICK s \in BotAt \ {"skipped"} :
        /\ Moves(b, s) /\ errors' = IF s = "failed" THEN errors \cup {b} ELSE errors
        /\ (delivered' = delivered /\ s # "sent") \/ Delivers(b)
        /\ enabled' = enabled /\ returned' = returned /\ result' = result
  <2>1. CASE Post(b)
    BY <1>1, <2>1 DEF Post, BotAt
  <2>2. CASE PostReturns(b)
    BY <1>1, <2>2 DEF PostReturns, PostFails, PostSucceeds, AfterError, BotAt
  <2>3. CASE Resume(b)
    BY <1>1, <2>3 DEF Resume, BotAt
  <2> QED
    BY <2>1, <2>2, <2>3
<1>3. /\ at \in [Bot -> BotAt] /\ delivered \in [Bot -> Nat]
      /\ at' = [at EXCEPT ![b] = s]
  BY <1>2 DEF ChatsInv, Moves
<1>4. \A c \in Bot : at'[c] = IF c = b THEN s ELSE at[c]
  BY <1>3
<1>5. /\ delivered' \in [Bot -> Nat]
      /\ \A c \in Bot \ {b} : delivered'[c] = delivered[c]
      /\ s = "sent" => delivered'[b] > 0
  BY <1>2, <1>3 DEF Delivers
<1>6. errors' = {c \in Bot : at'[c] = "failed"}
  BY <1>1, <1>2, <1>4
<1>7. at' \in [Bot -> BotAt]
  BY <1>3
<1>8. \A c \in Bot : (c \in enabled <=> at'[c] # "skipped") /\
                      (delivered'[c] > 0 => c \in enabled) /\
                      (at'[c] = "sent" => delivered'[c] > 0)
  BY <1>1, <1>2, <1>4, <1>5 DEF ChatsInv
<1> QED
  BY <1>1, <1>2, <1>5, <1>6, <1>7, <1>8 DEF ChatsInv

LEMMA NotificationStep == NotifyInv /\ [NotificationNext]_nvars => NotifyInv'
<1> SUFFICES ASSUME NotifyInv, NInv, [NotificationNext]_nvars PROVE NotifyInv'
  BY DEF NotifyInv
<1>1. ASSUME NEW b \in Bot, BotStep(b) PROVE NotifyInv'
  <2>1. /\ step = "sending" /\ UNCHANGED <<settingsvars, notifyvars>>
        /\ Post(b) \/ PostReturns(b) \/ Resume(b)
    BY <1>1 DEF BotStep, SendingStep
  <2>2. ChatsInv' /\ enabled' = enabled
    BY <2>1, BotChats DEF NInv, notifyvars
  <2> QED
    BY <2>1, <2>2, SendingReads DEF NotifyInv, NInv
<1>2. CASE SendingStep(Return)
  <2>1. /\ step = "sending" /\ UNCHANGED <<settingsvars, notifyvars>>
        /\ ~returned /\ AllEnded /\ returned' = TRUE
        /\ result' = IF errors = {} THEN "ok" ELSE "error"
        /\ UNCHANGED <<enabled, at, delivered>>
    BY <1>2 DEF SendingStep, Return
  <2>2. ChatsInv'
    BY <2>1 DEF NInv, ChatsInv, AllEnded, Ended, notifyvars
  <2> QED
    BY <2>1, <2>2, SendingReads DEF NotifyInv, NInv
<1>3. CASE SendingStep(CancelContext)
  <2>1. /\ step = "sending" /\ UNCHANGED <<settingsvars, notifyvars>>
        /\ UNCHANGED <<enabled, at, delivered, errors, returned, result>>
    BY <1>3 DEF SendingStep, CancelContext
  <2>2. ChatsInv'
    BY <2>1 DEF NInv, ChatsInv, AllEnded, Ended, notifyvars
  <2> QED
    BY <2>1, <2>2, SendingReads DEF NotifyInv, NInv
<1>4. CASE UNCHANGED <<dvars, settingsvars, notifyvars>>
  <2>1. ChatsInv'
    BY <1>4 DEF NInv, ChatsInv, AllEnded, Ended, dvars, notifyvars
  <2>2. ReadsInv' /\ (DecidedInv')
    BY <1>4, SameMatch, SameDecision DEF NotifyInv, DecidedInv, NInv, ReadsInv, dvars,
                                         settingsvars, notifyvars
  <2> QED
    BY <2>1, <2>2 DEF NotifyInv, NInv
<1>5. CASE TickerStep \/ UNCHANGED nvars
  BY <1>4, <1>5 DEF TickerStep, CacheAlone, nvars
<1> QED
  BY <1>1, <1>2, <1>3, <1>5, FormatStep, ReadTokensStep, ReadTelegramStep, CheckLimitStep,
     SettingsStep DEF NotificationNext, HandlerNext

-----------------------------------------------------------------------------
(* A message is in a chat only if settings in effect since it came ask for *)
(* that (or the program's own notifier stood in for settings that could    *)
(* not be read).                                                           *)
THEOREM SentAsConfigured == NotificationSpec => []OnlyAsConfigured
<1>1. NotifyInv => OnlyAsConfigured
  <2> SUFFICES ASSUME NotifyInv, NEW b \in Bot, delivered[b] > 0
               PROVE  \/ \E list \in seenTokens, g \in seenTelegram :
                            b \in Recipients(message, list, g)
                      \/ b = Global /\ "tokens" \in readsFailed
    BY DEF OnlyAsConfigured
  <2>1. b \in enabled /\ Decided
    BY DEF NotifyInv, DecidedInv, NInv, ChatsInv, ReadsInv, StepName
  <2> QED
    BY <2>1 DEF Decided
<1> QED
  BY <1>1, InitNotification, NotificationStep, PTL DEF NotificationSpec

(* Success without a delivery has one of the reasons the code gives it:    *)
(* the settings, a rate limit, or settings that could not be read.         *)
THEOREM SilenceExplained == NotificationSpec => []SilenceHasReason
<1>1. NotifyInv => SilenceHasReason
  <2> SUFFICES ASSUME NotifyInv, NInv, result = "ok", \A b \in Bot : delivered[b] = 0
               PROVE  \/ limited \/ "telegram" \in readsFailed
                      \/ "tokens" \in readsFailed /\ ~globalOn
                      \/ \E list \in seenTokens, g \in seenTelegram :
                           Recipients(message, list, g) = {}
    BY DEF SilenceHasReason, NotifyInv
  <2>1. step \in {"sending", "done"} /\ Decided
    BY DEF NotifyInv, DecidedInv, NInv, ChatsInv, ReadsInv, StepName
  <2>2. enabled = {}
    <3>1. CASE step = "done"
      BY <3>1 DEF NInv, ChatsInv
    <3>2. CASE step = "sending"
      <4>1. returned
        BY DEF NInv, ChatsInv
      <4>2. \A b \in Bot : at[b] = "skipped"
        BY <3>2, <4>1 DEF NInv, ChatsInv, AllEnded, Ended
      <4> QED
        BY <3>2, <4>2 DEF NInv, ChatsInv
    <3> QED
      BY <2>1, <3>1, <3>2
  <2> QED
    BY <2>1, <2>2 DEF Decided
<1> QED
  BY <1>1, InitNotification, NotificationStep, PTL DEF NotificationSpec

(* Success means that the message is in the chat of every bot it was for,  *)
(* also when the program's own notifier sends it, which may refuse to.     *)
THEOREM NotifiedIsDelivered == NotificationSpec => []OkMeansDelivered
<1>1. NotifyInv => OkMeansDelivered
  <2> SUFFICES ASSUME NInv, result = "ok", NEW b \in enabled PROVE delivered[b] > 0
    BY DEF OkMeansDelivered, NotifyInv
  <2>1. b \in Bot /\ step = "sending" /\ returned
    BY DEF NInv, ChatsInv, ReadsInv, StepName
  <2>2. at[b] = "sent"
    BY <2>1 DEF NInv, ChatsInv, AllEnded, Ended
  <2> QED
    BY <2>1, <2>2 DEF NInv, ChatsInv
<1> QED
  BY <1>1, InitNotification, NotificationStep, PTL DEF NotificationSpec

-----------------------------------------------------------------------------
(* Attempts: why a goroutine failed, and where further copies come from.   *)

AttemptsInv ==
  /\ tries \in [Bot -> Nat] /\ delivered \in [Bot -> Nat] /\ at \in [Bot -> BotAt]
  /\ step # "sending" => result # "error" /\
       \A b \in Bot : at[b] = "skipped" /\ tries[b] = 0 /\ delivered[b] = 0
  /\ \A b \in Bot :
       /\ at[b] = "failed" => \/ cancelled \/ tries[b] = RetryCount + 1
                              \/ enabled = {Global} /\ b = Global /\ tries[b] = 0
       /\ at[b] \in {"attempt", "pause"} => tries[b] <= RetryCount
       /\ tries[b] <= RetryCount + 1
       /\ b \notin lostAnswers => /\ delivered[b] <= 1
                                  /\ at[b] # "sent" => delivered[b] = 0
  /\ result = "error" => \E b \in Bot : at[b] = "failed"

LEMMA InitAttempts == NotificationInit => AttemptsInv
BY DeliveryAssumption DEF NotificationInit, AttemptsInv, AtStart, BotAt

(* Until the goroutines start there is nothing to tell.                    *)
LEMMA IdleAttempts ==
  ASSUME AttemptsInv, step # "sending", step' # "sending",
         UNCHANGED <<at, tries, delivered>>, result' \in {result, "ok"}
  PROVE  AttemptsInv'
BY DeliveryAssumption DEF AttemptsInv

LEMMA BotAttempts ==
  ASSUME NInv, AttemptsInv, step = "sending", step' = step, NEW b \in Bot,
         Post(b) \/ PostReturns(b) \/ Resume(b)
  PROVE  AttemptsInv'
<1> USE DeliveryAssumption
<1>1. /\ at \in [Bot -> BotAt] /\ tries \in [Bot -> Nat] /\ delivered \in [Bot -> Nat]
      /\ at[b] \in {"attempt", "post", "pause"} /\ ~returned /\ result = "none"
  BY DEF NInv, ChatsInv, AttemptsInv, Post, PostReturns, Resume, AllEnded, Ended
<1>2. PICK s \in BotAt :
        /\ at' = [at EXCEPT ![b] = s]
        /\ tries' = IF at[b] = "attempt" THEN [tries EXCEPT ![b] = @ + 1] ELSE tries
        /\ \/ s \in {"post", "pause", "attempt", "failed"} /\ UNCHANGED <<delivered, lostAnswers>>
           \/ s = "sent" /\ Delivers(b) /\ UNCHANGED lostAnswers
           \/ Delivers(b) /\ lostAnswers' = lostAnswers \cup {b}
        /\ s = "failed" => cancelled \/ tries[b] > RetryCount
        /\ s \in {"attempt", "pause"} => at[b] # "attempt" /\
                                        (tries[b] <= RetryCount \/ at[b] = "pause")
        /\ enabled' = enabled /\ cancelled' = cancelled /\ result' = result
        /\ s = "post" => at[b] = "attempt"
        /\ at[b] = "attempt" => s = "post"
  <2>1. CASE Post(b)
    BY <1>1, <2>1 DEF Post, Moves, BotAt
  <2>2. CASE PostReturns(b)
    BY <1>1, <2>2 DEF PostReturns, PostFails, PostSucceeds, AfterError, Moves, BotAt
  <2>3. CASE Resume(b)
    BY <1>1, <2>3 DEF Resume, Moves, BotAt
  <2> QED
    BY <2>1, <2>2, <2>3
<1>3. ASSUME NEW c \in Bot, c # b
      PROVE  /\ at'[c] = at[c] /\ tries'[c] = tries[c] /\ delivered'[c] = delivered[c]
             /\ c \in lostAnswers' <=> c \in lostAnswers
  BY <1>1, <1>2, <1>3 DEF Delivers
<1>4. /\ at' \in [Bot -> BotAt] /\ tries' \in [Bot -> Nat] /\ delivered' \in [Bot -> Nat]
  BY <1>1, <1>2 DEF Delivers
<1>5. /\ at'[b] = "failed" => cancelled' \/ tries'[b] = RetryCount + 1
      /\ at'[b] \in {"attempt", "pause"} => tries'[b] <= RetryCount
      /\ tries'[b] <= RetryCount + 1
      /\ b \notin lostAnswers' => delivered'[b] <= 1 /\ (at'[b] # "sent" => delivered'[b] = 0)
  <2>1. /\ at[b] \in {"attempt", "pause"} => tries[b] <= RetryCount
        /\ tries[b] <= RetryCount + 1 /\ tries[b] \in Nat
        /\ b \notin lostAnswers => delivered[b] = 0
    BY <1>1 DEF AttemptsInv
  <2>2. at'[b] = s /\ tries'[b] = IF at[b] = "attempt" THEN tries[b] + 1 ELSE tries[b]
    BY <1>1, <1>2
  <2>3. b \notin lostAnswers' => delivered'[b] <= 1 /\ (at'[b] # "sent" => delivered'[b] = 0)
    BY <1>1, <1>2, <2>1, <2>2 DEF Delivers
  <2> QED
    BY <1>1, <1>2, <2>1, <2>2, <2>3
<1> QED
  BY <1>1, <1>2, <1>3, <1>4, <1>5 DEF AttemptsInv

LEMMA AttemptsStep == NInv /\ AttemptsInv /\ [NotificationNext]_nvars => AttemptsInv'
<1> SUFFICES ASSUME NInv, AttemptsInv, [NotificationNext]_nvars PROVE AttemptsInv'
  OBVIOUS
<1> USE DeliveryAssumption
<1>1. ASSUME NEW b \in Bot, BotStep(b) PROVE AttemptsInv'
  BY <1>1, BotAttempts DEF BotStep, SendingStep, notifyvars
<1>2. CASE SendingStep(Return)
  <2>1. /\ step = "sending" /\ step' = step /\ ~returned
        /\ result' = IF errors = {} THEN "ok" ELSE "error"
        /\ UNCHANGED <<enabled, at, tries, delivered, cancelled, lostAnswers>>
    BY <1>2 DEF SendingStep, Return, notifyvars
  <2>2. errors = {b \in Bot : at[b] = "failed"}
    BY <2>1 DEF NInv, ChatsInv
  <2> QED
    BY <2>1, <2>2 DEF AttemptsInv
<1>3. CASE SendingStep(CancelContext)
  BY <1>3 DEF SendingStep, CancelContext, notifyvars, AttemptsInv
<1>4. CASE TickerStep \/ SettingsChange \/ UNCHANGED nvars
  BY <1>4 DEF TickerStep, SettingsChange, CacheAlone, nvars, dvars, notifyvars, AttemptsInv
<1>5. ASSUME NEW m \in Messages, FormatMessage(m) PROVE AttemptsInv'
  BY <1>5, IdleAttempts DEF FormatMessage, dvars
<1>6. CASE ReadTokens
  <2>1. /\ step = "tokens" /\ step' # "sending"
        /\ UNCHANGED <<at, tries, delivered>> /\ result' \in {result, "ok"}
    BY <1>6 DEF ReadTokens, NothingToRead, TokensRead, TokensUnread, NotFound, SendTo,
                SendWithGlobalConfig, EndsSilently, dvars
  <2> QED
    BY <2>1, IdleAttempts
<1>7. CASE ReadTelegram
  <2>1. /\ step = "telegram" /\ step' # "sending"
        /\ UNCHANGED <<at, tries, delivered>> /\ result' \in {result, "ok"}
    BY <1>7 DEF ReadTelegram, SendTo, EndsSilently
  <2> QED
    BY <2>1, IdleAttempts
<1>8. CASE CheckLimit
  <2>1. CASE EndsSilently
    BY <1>8, <2>1, IdleAttempts DEF CheckLimit, EndsSilently
  <2>2. CASE StartSending
    <3>1. /\ step = "limit" /\ step' = "sending" /\ result # "error" /\ result' = result
          /\ UNCHANGED <<enabled, tries, delivered>>
          /\ \A b \in Bot : tries[b] = 0 /\ delivered[b] = 0
      BY <1>8, <2>2 DEF CheckLimit, StartSending, AttemptsInv
    <3>2. /\ at' \in [Bot -> BotAt]
          /\ \A b \in Bot : at'[b] \in {"skipped", "attempt", "failed"}
          /\ \A b \in Bot : at'[b] = "failed" => enabled = {Global} /\ b = Global
      <4>1. CASE at' = AtStart(enabled)
        BY <4>1 DEF AtStart, BotAt
      <4>2. CASE enabled = {Global} /\ at' = [AtStart({}) EXCEPT ![Global] = "failed"]
        <5>1. at' = [b \in Bot |-> IF b = Global THEN "failed" ELSE "skipped"]
          BY <4>2 DEF AtStart
        <5> QED
          BY <4>2, <5>1 DEF BotAt
      <4> QED
        BY <2>2, <4>1, <4>2 DEF StartSending
    <3> QED
      BY <3>1, <3>2 DEF AttemptsInv
  <2> QED
    BY <1>8, <2>1, <2>2 DEF CheckLimit
<1> QED
  BY <1>1, <1>2, <1>3, <1>4, <1>5, <1>6, <1>7, <1>8 DEF NotificationNext, HandlerNext

(* An error means that attempts were used up, the context was cancelled or *)
(* the program's own notifier was over its limit.                          *)
THEOREM ErrorExplained == NotificationSpec => []ErrorHasReason
<1>1. NInv /\ AttemptsInv => ErrorHasReason
  <2> SUFFICES ASSUME NInv, AttemptsInv, result = "error"
               PROVE  ErrorMeansExhausted \/ (enabled = {Global} /\ tries[Global] = 0)
    BY DEF ErrorHasReason
  <2>1. PICK b \in Bot : at[b] = "failed"
    BY DEF AttemptsInv
  <2>2. b \in enabled
    BY <2>1 DEF NInv, ChatsInv
  <2> QED
    BY <2>1, <2>2 DEF AttemptsInv, ErrorMeansExhausted
<1>2. NotifyInv => NInv
  BY DEF NotifyInv
<1> QED
  BY <1>1, <1>2, InitNotification, NotificationStep, InitAttempts, AttemptsStep, PTL
     DEF NotificationSpec

(* A chat gets a second copy of a message only after an answer was lost.   *)
THEOREM CopiesExplained == NotificationSpec => []CopiesNeedLostAnswers
<1>1. AttemptsInv => CopiesNeedLostAnswers
  BY DEF AttemptsInv, CopiesNeedLostAnswers
<1>2. NotifyInv => NInv
  BY DEF NotifyInv
<1> QED
  BY <1>1, <1>2, InitNotification, NotificationStep, InitAttempts, AttemptsStep, PTL
     DEF NotificationSpec

-----------------------------------------------------------------------------
(* The ticker that is shown *)

AnyTicker == [age : Nat, stamped : BOOLEAN, stamp : Int, held : Nat]

(* On its way to the cache an event is no older than the queue allows when *)
(* it gets its stamp; from then on all three ages grow together, as long   *)
(* as the SET takes.                                                       *)
OnItsWay(t) ==
  IF t.stamped
    THEN /\ t.held <= WriteTime /\ t.age <= QueueTime + t.held
         /\ t.held <= t.stamp + Skew /\ t.stamp <= t.held + Skew
    ELSE t.age <= QueueTime /\ t.stamp = 0 /\ t.held = 0

(* In the cache the age of the key begins anew.                            *)
InCache(t) ==
  /\ t.stamped /\ t.held < CacheTTL
  /\ t.age <= t.stamp + QueueTime + Skew
  /\ t.age <= QueueTime + WriteTime + t.held
  /\ 0 <= t.stamp + Skew /\ t.stamp <= WriteTime + t.held + Skew

CacheInv ==
  /\ coming \in [Worker -> AnyTicker \cup {NoTicker}]
  /\ \A w \in Worker : coming[w] # NoTicker => OnItsWay(coming[w])
  /\ cached \in AnyTicker \cup {NoTicker}
  /\ cached # NoTicker => InCache(cached)
  /\ ShownIsRecent

(* What a stamp and a SET make of a ticker.                                *)
LEMMA StampedTicker ==
  ASSUME NEW t \in AnyTicker, OnItsWay(t), ~t.stamped, NEW n \in {-Skew, Skew}
  PROVE  /\ [t EXCEPT !.stamped = TRUE, !.stamp = n] \in AnyTicker
         /\ OnItsWay([t EXCEPT !.stamped = TRUE, !.stamp = n])
<1> DEFINE u == [t EXCEPT !.stamped = TRUE, !.stamp = n]
<1>0. n \in Int /\ 0 <= n + Skew /\ n <= Skew
  BY CacheAssumption
<1>1. u \in AnyTicker
  BY <1>0 DEF AnyTicker
<1>2. u.age = t.age /\ u.stamp = n /\ u.held = t.held
  BY DEF AnyTicker
<1>3. u.stamped = TRUE
  BY DEF AnyTicker
<1>4. t.age \in Nat /\ t.age <= QueueTime /\ t.held = 0
  BY DEF AnyTicker, OnItsWay
<1> HIDE DEF u
<1>5. OnItsWay(u)
  BY <1>0, <1>2, <1>3, <1>4, CacheAssumption DEF OnItsWay
<1> QED
  BY <1>1, <1>5, Zenon DEF u

LEMMA WrittenTicker ==
  ASSUME NEW t \in AnyTicker, OnItsWay(t), t.stamped
  PROVE  [t EXCEPT !.held = 0] \in AnyTicker /\ InCache([t EXCEPT !.held = 0])
<1> DEFINE u == [t EXCEPT !.held = 0]
<1>1. u \in AnyTicker
  BY DEF AnyTicker
<1>2. u.age = t.age /\ u.stamp = t.stamp /\ u.held = 0
  BY DEF AnyTicker
<1>3. u.stamped = t.stamped
  BY DEF AnyTicker
<1>4. t.age \in Nat /\ t.stamp \in Int /\ t.held \in Nat
  BY DEF AnyTicker
<1> HIDE DEF u
<1>5. InCache(u)
  BY <1>2, <1>3, <1>4, CacheAssumption DEF OnItsWay, InCache
<1> QED
  BY <1>1, <1>5, Zenon DEF u

(* A worker replaces its ticker.                                           *)
LEMMA ComingKeeps ==
  ASSUME CacheInv, NEW w \in Worker, NEW t \in AnyTicker, OnItsWay(t),
         coming' = [coming EXCEPT ![w] = t], cached' = cached, shown' = shown
  PROVE  CacheInv'
<1>1. coming' \in [Worker -> AnyTicker \cup {NoTicker}]
  BY DEF CacheInv
<1>2. \A v \in Worker : coming'[v] = IF v = w THEN t ELSE coming[v]
  BY DEF CacheInv
<1> QED
  BY <1>1, <1>2 DEF CacheInv, ShownIsRecent

LEMMA OlderComing ==
  ASSUME NEW t \in AnyTicker, OnItsWay(t),
         IF t.stamped THEN t.held < WriteTime ELSE t.age < QueueTime
  PROVE  Older(t) \in AnyTicker /\ OnItsWay(Older(t))
<1> USE CacheAssumption
<1>1. CASE t.stamped
  <2>1. Older(t) = [age |-> t.age + 1, stamped |-> t.stamped, stamp |-> t.stamp + 1,
                    held |-> t.held + 1]
    BY <1>1 DEF Older, AnyTicker
  <2> QED
    BY <1>1, <2>1 DEF AnyTicker, OnItsWay
<1>2. CASE ~t.stamped
  <2>1. Older(t) = [age |-> t.age + 1, stamped |-> t.stamped, stamp |-> t.stamp,
                    held |-> t.held]
    BY <1>2 DEF Older, AnyTicker
  <2> QED
    BY <1>2, <2>1 DEF AnyTicker, OnItsWay
<1> QED
  BY <1>1, <1>2

LEMMA OlderCached ==
  ASSUME NEW t \in AnyTicker, InCache(t), t.held + 1 < CacheTTL
  PROVE  Older(t) \in AnyTicker /\ InCache(Older(t))
<1>1. Older(t) = [age |-> t.age + 1, stamped |-> t.stamped, stamp |-> t.stamp + 1,
                  held |-> t.held + 1]
  BY DEF Older, AnyTicker, InCache
<1> QED
  BY <1>1, CacheAssumption DEF AnyTicker, InCache

LEMMA CacheNextKeeps == ASSUME CacheInv, CacheNext, shown' = shown PROVE CacheInv'
<1> USE CacheAssumption
<1>1. ASSUME NEW w \in Worker, TickerArrives(w) PROVE CacheInv'
  <2> DEFINE new == [age |-> 0, stamped |-> FALSE, stamp |-> 0, held |-> 0]
  <2>1. new \in AnyTicker /\ OnItsWay(new)
    BY DEF AnyTicker, OnItsWay
  <2>2. coming' = [coming EXCEPT ![w] = new] /\ cached' = cached
    BY <1>1 DEF TickerArrives
  <2> HIDE DEF new
  <2> QED
    BY <2>1, <2>2, ComingKeeps
<1>2. ASSUME NEW w \in Worker, Stamp(w) PROVE CacheInv'
  <2>1. PICK skew \in {-Skew, Skew} :
          coming' = [coming EXCEPT ![w].stamped = TRUE, ![w].stamp = skew]
    BY <1>2 DEF Stamp
  <2>2. /\ coming[w] \in AnyTicker /\ OnItsWay(coming[w]) /\ ~coming[w].stamped
        /\ coming \in [Worker -> AnyTicker \cup {NoTicker}] /\ cached' = cached
    BY <1>2 DEF Stamp, Stamped, CacheInv
  <2> DEFINE t == [coming[w] EXCEPT !.stamped = TRUE, !.stamp = skew]
  <2>3. coming' = [coming EXCEPT ![w] = t]
    BY <2>1, <2>2
  <2>4. t \in AnyTicker /\ OnItsWay(t)
    BY <2>2, StampedTicker
  <2> HIDE DEF t
  <2> QED
    BY <2>2, <2>3, <2>4, ComingKeeps
<1>3. ASSUME NEW w \in Worker, WriteCache(w) PROVE CacheInv'
  <2>1. /\ coming[w] \in AnyTicker /\ OnItsWay(coming[w]) /\ coming[w].stamped
        /\ coming' = [coming EXCEPT ![w] = NoTicker]
        /\ cached' \in {cached, [coming[w] EXCEPT !.held = 0]}
    BY <1>3 DEF WriteCache, Stamped, CacheInv
  <2>2. /\ [coming[w] EXCEPT !.held = 0] \in AnyTicker
        /\ InCache([coming[w] EXCEPT !.held = 0])
    BY <2>1, WrittenTicker
  <2>3. cached' = cached \/ (cached' \in AnyTicker /\ InCache(cached'))
    BY <2>1, <2>2
  <2>4. cached' \in AnyTicker \cup {NoTicker} /\ (cached' # NoTicker => InCache(cached'))
    BY <2>3 DEF CacheInv
  <2>5. /\ coming' \in [Worker -> AnyTicker \cup {NoTicker}]
        /\ \A v \in Worker : coming'[v] = IF v = w THEN NoTicker ELSE coming[v]
    BY <2>1 DEF CacheInv
  <2> QED
    BY <2>4, <2>5 DEF CacheInv, ShownIsRecent
<1>4. CASE CacheTick
  <2>1. /\ coming' = [w \in Worker |-> IF coming[w] = NoTicker THEN NoTicker
                                        ELSE Older(coming[w])]
        /\ \A w \in Worker : coming[w] # NoTicker =>
             IF coming[w].stamped THEN coming[w].held < WriteTime ELSE coming[w].age < QueueTime
        /\ \/ cached' = NoTicker
           \/ cached # NoTicker /\ ~(cached.held + 1 >= CacheTTL) /\ cached' = Older(cached)
    BY <1>4 DEF CacheTick, Stamped
  <2>2. /\ coming' \in [Worker -> AnyTicker \cup {NoTicker}]
        /\ \A w \in Worker : coming'[w] # NoTicker => OnItsWay(coming'[w])
    BY <2>1, OlderComing DEF CacheInv
  <2>3. ASSUME cached' # NoTicker PROVE cached' \in AnyTicker /\ InCache(cached')
    <3>1. cached \in AnyTicker /\ InCache(cached) /\ cached' = Older(cached)
      BY <2>1, <2>3 DEF CacheInv
    <3>2. cached.held + 1 < CacheTTL
      BY <2>1, <2>3, <3>1 DEF AnyTicker
    <3> QED
      BY <3>1, <3>2, OlderCached
  <2> QED
    BY <2>2, <2>3 DEF CacheInv, ShownIsRecent
<1> QED
  BY <1>1, <1>2, <1>3, <1>4 DEF CacheNext

LEMMA CacheStep == CacheInv /\ [NotificationNext]_nvars => CacheInv'
<1> SUFFICES ASSUME CacheInv, [NotificationNext]_nvars PROVE CacheInv'
  OBVIOUS
<1>1. CASE TickerStep
  BY <1>1, CacheNextKeeps DEF TickerStep, CacheAlone, notifyvars
<1>2. ASSUME NEW m \in Messages, FormatMessage(m) PROVE CacheInv'
  <2>1. /\ coming' = [w \in Worker |-> NoTicker] /\ cached' = NoTicker
        /\ shown' \in {AgeOf(Valid), NoTicker, shown}
    BY <1>2 DEF FormatMessage
  <2>2. Recent(AgeOf(Valid))
    <3>1. CASE Valid = NoTicker
      BY <3>1 DEF AgeOf, Recent
    <3>2. CASE Valid # NoTicker
      <4>1. cached # NoTicker /\ cached.stamp < CacheMaxAge /\ Valid = cached
        BY <3>2 DEF Valid
      <4>2. cached.age < CacheMaxAge + QueueTime + Skew
        BY <4>1, CacheAssumption DEF CacheInv, AnyTicker, InCache
      <4> QED
        BY <3>2, <4>1, <4>2 DEF AgeOf, Recent
    <3> QED
      BY <3>1, <3>2
  <2> QED
    BY <2>1, <2>2 DEF CacheInv, ShownIsRecent, Recent
<1>3. ASSUME UNCHANGED <<coming, cached, shown>> PROVE CacheInv'
  BY <1>3 DEF CacheInv, ShownIsRecent
<1> QED
  BY <1>1, <1>2, <1>3 DEF NotificationNext, HandlerNext, SettingsChange, ReadTokens,
     ReadTelegram, CheckLimit, BotStep, SendingStep, notifyvars, cachevars, nvars

LEMMA InitCache == NotificationInit => CacheInv
BY DEF NotificationInit, CacheInit, CacheInv, ShownIsRecent, Recent

(* The ticker a message shows came no longer ago than tickerCacheMaxAge,   *)
(* the queue and the clocks allow, whichever worker wrote last.            *)
THEOREM ShownRecent == NotificationSpec => []ShownIsRecent
<1>1. CacheInv => ShownIsRecent
  BY DEF CacheInv
<1> QED
  BY <1>1, InitCache, CacheStep, PTL DEF NotificationSpec

-----------------------------------------------------------------------------
(* Types, and what the handler's choice of bots looks like on the way.     *)

ChoiceInv ==
  /\ step = "idle" => message = NoMessage /\ seenTokens = {} /\ seenTelegram = {}
  /\ step \in {"idle", "tokens"} => config = NoConfig
  /\ config = NoConfig \/ config.enabled
  /\ bots \subseteq Bot /\ enabled \subseteq bots
  /\ Global \in bots => bots = {Global}
  /\ step = "limit" => bots # {}
  /\ readsFailed \subseteq {"tokens", "telegram"}
  /\ changes \in 0..MaxChanges

(* No chat has more copies than its bot has begun attempts.                *)
CountsInv ==
  /\ \A b \in Bot : delivered[b] <= tries[b] /\ (at[b] = "post" => delivered[b] < tries[b])
  /\ errors \subseteq Bot /\ lostAnswers \subseteq Bot
  /\ cancelled \in BOOLEAN /\ returned \in BOOLEAN
  /\ result \in {"none", "ok", "error"}
  /\ sentCount \in 0..Cardinality(Bot)

LEMMA InitChoice == NotificationInit => ChoiceInv /\ CountsInv
<1> SUFFICES ASSUME NotificationInit PROVE ChoiceInv /\ CountsInv
  OBVIOUS
<1>1. Cardinality(Bot) \in Nat
  BY DeliveryAssumption, FS_CardinalityType
<1>2. ChoiceInv
  BY NotificationAssumption DEF NotificationInit, ChoiceInv
<1>3. \A b \in Bot : delivered[b] <= tries[b] /\ (at[b] = "post" => delivered[b] < tries[b])
  BY DEF NotificationInit, AtStart
<1>4. sentCount \in 0..Cardinality(Bot)
  BY <1>1 DEF NotificationInit
<1>5. /\ errors \subseteq Bot /\ lostAnswers \subseteq Bot
      /\ cancelled \in BOOLEAN /\ returned \in BOOLEAN /\ result = "none"
  BY Zenon DEF NotificationInit
<1>6. CountsInv
  BY <1>3, <1>4, <1>5 DEF CountsInv
<1> QED
  BY <1>2, <1>6

LEMMA EndsChoice ==
  ASSUME ChoiceInv, EndsSilently,
         config' = config, message' = message, changes' = changes,
         readsFailed' \subseteq {"tokens", "telegram"}
  PROVE  ChoiceInv'
BY DEF ChoiceInv, EndsSilently

LEMMA SendChoice ==
  ASSUME ChoiceInv, NEW list, SendTo(list), list.all # {}, list.all \subseteq Bot,
         list.on \subseteq list.all, Global \in list.all => list.all = {Global},
         config' = config, message' = message, changes' = changes,
         readsFailed' \subseteq {"tokens", "telegram"}
  PROVE  ChoiceInv'
<1>1. bots' = list.all /\ enabled' = list.on /\ step' = "limit"
  BY DEF SendTo
<1> QED
  BY <1>1 DEF ChoiceInv

LEMMA GlobalChoice ==
  ASSUME ChoiceInv, SendWithGlobalConfig, config' = config, message' = message,
         changes' = changes, readsFailed' \subseteq {"tokens", "telegram"}
  PROVE  ChoiceInv'
<1> DEFINE list == [all |-> {Global}, on |-> IF globalOn THEN {Global} ELSE {}]
<1>1. SendTo(list)
  BY DEF SendWithGlobalConfig
<1>2. list.all = {Global} /\ list.on \subseteq {Global}
  OBVIOUS
<1> HIDE DEF list
<1> QED
  BY <1>1, <1>2, NotificationAssumption, SendChoice

(* The bots of a configuration, or the default one: never the program's    *)
(* own notifier.                                                           *)
LEMMA BotsOfSettings ==
  ASSUME NEW c, IsConfig(c), NEW g \in Telegrams \cup {NoTelegram}
  PROVE  LET list == GetTelegramBots(c, g) IN
         list.all \subseteq Bot \ {Global} /\ list.on \subseteq list.all
<1>1. g.bot \in (Bot \ {Global}) \cup {NoBot}
  BY SettingsAssumption DEF NoTelegram
<1>2. CASE c # NoConfig /\ c.bots # {}
  BY <1>2 DEF IsConfig, GetTelegramBots
<1>3. CASE ~(c # NoConfig /\ c.bots # {})
  BY <1>1, <1>3 DEF GetTelegramBots, DefaultBots
<1> QED
  BY <1>2, <1>3

(* A message that passes has a configuration that is switched on, if any.  *)
LEMMA PassingConfig ==
  ASSUME NEW list \in TokenLists, NEW m, Found(m, list) # NoMatch, Passes(m, Found(m, list))
  PROVE  LET c == Found(m, list).config[m.stream] IN
         IsConfig(c) /\ (c = NoConfig \/ c.enabled)
<1>1. PICK i \in DOMAIN list : Found(m, list) = list[i]
  BY FoundListed
<1>2. m.stream \in list[i].streams
  BY <1>1 DEF Passes, IsStreamNotifyEnabled
<1>3. IsConfig(list[i].config[m.stream])
  BY <1>2, SettingsAssumption
<1> QED
  BY <1>1, <1>3 DEF Passes, IsStreamNotifyEnabled

LEMMA ReadTokensChoice == ASSUME NInv, ChoiceInv, ReadTokens PROVE ChoiceInv'
<1>1. /\ step = "tokens" /\ message' = message /\ changes' = changes
      /\ readsFailed \subseteq {"tokens", "telegram"} /\ tokens \in TokenLists
  BY DEF ReadTokens, settingsvars, ChoiceInv, NInv, ReadsInv
<1>2. ASSUME EndsSilently \/ SendWithGlobalConfig, config' = config,
             readsFailed' \subseteq {"tokens", "telegram"}
      PROVE  ChoiceInv'
  BY <1>1, <1>2, EndsChoice, GlobalChoice
<1>3. CASE NothingToRead
  BY <1>1, <1>2, <1>3 DEF NothingToRead
<1>4. CASE TokensUnread
  BY <1>1, <1>2, <1>4 DEF TokensUnread
<1>5. CASE TokensRead
  <2> DEFINE t == Found(message, tokens)
  <2>1. CASE t = NoMatch \/ ~Passes(message, t)
    BY <1>1, <1>2, <1>5, <2>1 DEF TokensRead, NotFound
  <2>2. CASE t # NoMatch /\ Passes(message, t)
    <3>1. /\ config' = t.config[message.stream] /\ step' = "telegram" /\ UNCHANGED dvars
          /\ readsFailed' = readsFailed
      BY <1>5, <2>2 DEF TokensRead
    <3>2. config' = NoConfig \/ config'.enabled
      BY <1>1, <2>2, <3>1, PassingConfig
    <3> QED
      BY <1>1, <3>1, <3>2 DEF ChoiceInv, dvars
  <2> QED
    BY <2>1, <2>2
<1> QED
  BY <1>3, <1>4, <1>5 DEF ReadTokens

LEMMA ReadTelegramChoice == ASSUME NInv, ChoiceInv, ReadTelegram PROVE ChoiceInv'
<1>1. /\ step = "telegram" /\ message' = message /\ changes' = changes /\ config' = config
      /\ readsFailed \subseteq {"tokens", "telegram"}
      /\ telegram \in Telegrams /\ seenTokens \subseteq TokenLists /\ Matched
  BY DEF ReadTelegram, settingsvars, ChoiceInv, NInv, ReadsInv
<1>2. IsConfig(config)
  BY <1>1, PassingConfig DEF Matched
<1>3. PICK g \in Telegrams \cup {NoTelegram} :
        /\ LET list == GetTelegramBots(config, g) IN
           IF list.all = {} THEN EndsSilently ELSE SendTo(list)
        /\ readsFailed' \subseteq {"tokens", "telegram"}
  BY <1>1 DEF ReadTelegram
<1> DEFINE list == GetTelegramBots(config, g)
<1>4. list.all \subseteq Bot \ {Global} /\ list.on \subseteq list.all
  BY <1>2, BotsOfSettings
<1>5. IF list.all = {} THEN EndsSilently ELSE SendTo(list)
  BY <1>3
<1> HIDE DEF list
<1>6. CASE list.all = {}
  BY <1>1, <1>3, <1>5, <1>6, EndsChoice
<1>7. CASE list.all # {}
  BY <1>1, <1>3, <1>4, <1>5, <1>7, SendChoice
<1> QED
  BY <1>6, <1>7

LEMMA ChoiceStep == NInv /\ ChoiceInv /\ [NotificationNext]_nvars => ChoiceInv'
<1> SUFFICES ASSUME NInv, ChoiceInv, [NotificationNext]_nvars PROVE ChoiceInv'
  OBVIOUS
<1>1. ASSUME NEW m \in Messages, FormatMessage(m) PROVE ChoiceInv'
  BY <1>1 DEF FormatMessage, dvars, ChoiceInv
<1>2. CASE CheckLimit
  <2>1. /\ step = "limit" /\ message' = message /\ config' = config
        /\ readsFailed' = readsFailed /\ changes' = changes
    BY <1>2 DEF CheckLimit, settingsvars
  <2>2. CASE EndsSilently
    BY <2>1, <2>2, EndsChoice DEF ChoiceInv
  <2>3. CASE StartSending
    BY <2>1, <2>3 DEF StartSending, ChoiceInv
  <2> QED
    BY <1>2, <2>2, <2>3 DEF CheckLimit
<1>3. CASE SettingsChange
  <2>1. /\ step \in {"tokens", "telegram"} /\ changes < MaxChanges /\ changes' = changes + 1
        /\ UNCHANGED <<step, message, config, bots, enabled, readsFailed>>
    BY <1>3 DEF SettingsChange, dvars, notifyvars
  <2>2. changes' \in 0..MaxChanges
    BY <2>1, NotificationAssumption DEF ChoiceInv
  <2> QED
    BY <2>1, <2>2 DEF ChoiceInv
<1>4. ASSUME UNCHANGED <<step, message, config, bots, enabled, readsFailed, settingsvars>>
      PROVE  ChoiceInv'
  BY <1>4 DEF ChoiceInv, settingsvars
<1>5. ASSUME NEW b \in Bot, BotStep(b) PROVE ChoiceInv'
  BY <1>4, <1>5 DEF BotStep, SendingStep, Post, PostReturns, Resume, settingsvars, notifyvars
<1>6. CASE SendingStep(Return) \/ SendingStep(CancelContext)
  BY <1>4, <1>6 DEF SendingStep, Return, CancelContext, settingsvars, notifyvars
<1>7. CASE TickerStep \/ UNCHANGED nvars
  BY <1>4, <1>7 DEF TickerStep, CacheAlone, nvars, dvars, settingsvars, notifyvars
<1> QED
  BY <1>1, <1>2, <1>3, <1>5, <1>6, <1>7, ReadTokensChoice, ReadTelegramChoice
     DEF NotificationNext, HandlerNext

(* The counts of a goroutine that takes a step.                            *)
LEMMA BotCounts ==
  ASSUME AttemptsInv, CountsInv, NEW b \in Bot, Post(b) \/ PostReturns(b) \/ Resume(b)
  PROVE  CountsInv'
<1>1. /\ at \in [Bot -> BotAt] /\ tries \in [Bot -> Nat] /\ delivered \in [Bot -> Nat]
      /\ delivered[b] <= tries[b] /\ (at[b] = "post" => delivered[b] < tries[b])
  BY DEF AttemptsInv, CountsInv
<1>2. /\ UNCHANGED <<cancelled, returned, result, sentCount>>
      /\ errors' \in {errors, errors \cup {b}} /\ lostAnswers' \in {lostAnswers, lostAnswers \cup {b}}
  BY DEF Post, PostReturns, PostFails, PostSucceeds, Resume
<1>3. ASSUME NEW c \in Bot
      PROVE  delivered'[c] <= tries'[c] /\ (at'[c] = "post" => delivered'[c] < tries'[c])
  <2>1. delivered[c] <= tries[c] /\ (at[c] = "post" => delivered[c] < tries[c])
    BY DEF CountsInv
  <2>2. tries[c] \in Nat /\ delivered[c] \in Nat
    BY <1>1
  <2>3. CASE Post(b)
    BY <1>1, <2>1, <2>2, <2>3 DEF Post, Moves
  <2>4. CASE PostReturns(b)
    <3>1. PICK s \in {"sent", "pause", "failed"} : at' = [at EXCEPT ![b] = s]
      BY <2>4 DEF PostReturns, PostFails, PostSucceeds, AfterError, Moves
    <3>2. /\ at[b] = "post" /\ tries' = tries
          /\ delivered' = [delivered EXCEPT ![b] = @ + 1] \/ delivered' = delivered
      BY <2>4 DEF PostReturns, Delivers
    <3> QED
      BY <1>1, <2>1, <2>2, <3>1, <3>2
  <2>5. CASE Resume(b)
    BY <1>1, <2>1, <2>2, <2>5 DEF Resume, Moves
  <2> QED
    BY <2>3, <2>4, <2>5
<1> QED
  BY <1>2, <1>3 DEF CountsInv

LEMMA CountsStep ==
  NInv /\ AttemptsInv /\ ChoiceInv /\ CountsInv /\ [NotificationNext]_nvars => CountsInv'
<1> SUFFICES ASSUME NInv, AttemptsInv, ChoiceInv, CountsInv, [NotificationNext]_nvars
             PROVE  CountsInv'
  OBVIOUS
<1>1. ASSUME NEW b \in Bot, BotStep(b) PROVE CountsInv'
  BY <1>1, BotCounts DEF BotStep, SendingStep
<1>2. CASE SendingStep(Return)
  <2>1. /\ UNCHANGED <<at, tries, delivered, cancelled, lostAnswers>>
        /\ errors' = {} /\ returned' = TRUE
        /\ result' \in {"ok", "error"}
        /\ sentCount' = Cardinality(bots) - Cardinality({})
    BY <1>2 DEF SendingStep, Return
  <2>2. bots \subseteq Bot
    BY DEF ChoiceInv
  <2>3. sentCount' \in 0..Cardinality(Bot)
    <3>1. Cardinality({}) = 0
      BY FS_EmptySet
    <3>2. IsFiniteSet(bots) /\ Cardinality(bots) <= Cardinality(Bot)
      BY <2>2, DeliveryAssumption, FS_Subset
    <3>3. Cardinality(bots) \in Nat /\ Cardinality(Bot) \in Nat
      BY <3>2, DeliveryAssumption, FS_CardinalityType
    <3> QED
      BY <2>1, <3>1, <3>2, <3>3
  <2> QED
    BY <2>1, <2>3 DEF CountsInv
<1>3. CASE SendingStep(CancelContext)
  BY <1>3 DEF SendingStep, CancelContext, CountsInv
<1>4. CASE CheckLimit /\ StartSending
  <2>1. /\ step = "limit"
        /\ UNCHANGED <<tries, delivered, cancelled, returned, result, sentCount, lostAnswers>>
        /\ errors' \in {errors, {Global}}
    BY <1>4 DEF CheckLimit, StartSending
  <2>2. \A b \in Bot : at'[b] # "post"
    <3>1. CASE at' = AtStart(enabled)
      BY <3>1 DEF AtStart
    <3>2. CASE at' = [AtStart({}) EXCEPT ![Global] = "failed"]
      BY <3>2 DEF AtStart
    <3> QED
      BY <1>4, <3>1, <3>2 DEF StartSending
  <2> QED
    BY <2>1, <2>2, NotificationAssumption DEF CountsInv
<1>5. ASSUME UNCHANGED <<at, tries, delivered, errors, cancelled, sentCount, lostAnswers>>,
             returned' \in {returned, TRUE}, result' \in {result, "ok"}
      PROVE  CountsInv'
  BY <1>5 DEF CountsInv
<1>6. CASE TickerStep \/ SettingsChange \/ (\E m \in Messages : FormatMessage(m)) \/ UNCHANGED nvars
  BY <1>5, <1>6 DEF TickerStep, CacheAlone, SettingsChange, FormatMessage, nvars, dvars
<1>7. CASE ReadTokens
  BY <1>5, <1>7 DEF ReadTokens, NothingToRead, TokensRead, TokensUnread, NotFound, SendTo,
                    SendWithGlobalConfig, EndsSilently, dvars
<1>8. CASE ReadTelegram
  BY <1>5, <1>8 DEF ReadTelegram, SendTo, EndsSilently
<1>9. CASE CheckLimit /\ EndsSilently
  BY <1>5, <1>9 DEF EndsSilently
<1> QED
  BY <1>1, <1>2, <1>3, <1>4, <1>6, <1>7, <1>8, <1>9
     DEF NotificationNext, HandlerNext, CheckLimit

(* NotificationTypeOK is an invariant: among the types, that no bot is     *)
(* tried or told more often than RetryCount allows, that nothing is sent   *)
(* under a configuration that is switched off, that the program's own      *)
(* notifier never sends beside others, and the bounds of a ticker's ages.  *)
THEOREM NotificationTyped == NotificationSpec => []NotificationTypeOK
<1>1. NInv /\ AttemptsInv /\ ChoiceInv /\ CountsInv /\ CacheInv => NotificationTypeOK
  <2> SUFFICES ASSUME NInv, AttemptsInv, ChoiceInv, CountsInv, CacheInv PROVE NotificationTypeOK
    OBVIOUS
  <2>1. DeliveryTypeOK
    <3>1. \A b \in Bot : tries[b] \in 0..(RetryCount + 1) /\ delivered[b] \in 0..(RetryCount + 1)
      BY DeliveryAssumption DEF AttemptsInv, CountsInv
    <3>2. /\ tries \in [Bot -> 0..(RetryCount + 1)] /\ delivered \in [Bot -> 0..(RetryCount + 1)]
          /\ at \in [Bot -> BotAt]
      BY <3>1 DEF AttemptsInv
    <3> QED
      BY <3>2 DEF DeliveryTypeOK, ChoiceInv, CountsInv
  <2>2. CacheTypeOK
    <3>1. ASSUME NEW t \in AnyTicker, OnItsWay(t) \/ InCache(t) PROVE t \in Ticker
      <4>1. /\ t.age \in 0..MaxTicks /\ t.stamp \in (-Skew)..(MaxTicks + Skew)
            /\ t.held \in 0..(CacheTTL + WriteTime)
        BY <3>1, CacheAssumption DEF AnyTicker, OnItsWay, InCache, MaxTicks
      <4> QED
        BY <4>1 DEF AnyTicker, Ticker
    <3>2. ASSUME NEW w \in Worker PROVE coming[w] \in Ticker \cup {NoTicker}
      BY <3>1 DEF CacheInv
    <3> QED
      BY <3>1, <3>2 DEF CacheInv, CacheTypeOK
  <2>3. /\ message \in Messages \cup {NoMessage} /\ step \in StepName
        /\ seenTokens \subseteq TokenLists /\ seenTelegram \subseteq Telegrams
        /\ IF step = "idle" THEN message = NoMessage
           ELSE tokens \in seenTokens /\ telegram \in seenTelegram
    BY DEF NInv, ReadsInv, ChoiceInv
  <2>4. (step = "limit" \/ bots # {}) => config = NoConfig \/ config.enabled
    BY DEF ChoiceInv
  <2> QED
    BY <2>1, <2>2, <2>3, <2>4 DEF NotificationTypeOK, ChoiceInv
<1>2. NotifyInv => NInv
  BY DEF NotifyInv
<1> QED
  BY <1>1, <1>2, InitNotification, NotificationStep, InitAttempts, AttemptsStep, InitChoice,
     ChoiceStep, CountsStep, InitCache, CacheStep, PTL DEF NotificationSpec
=============================================================================

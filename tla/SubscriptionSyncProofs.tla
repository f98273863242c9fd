------------------------ MODULE SubscriptionSyncProofs ------------------------
(***************************************************************************)
(* Proofs about modules SettingsStore and SubscriptionSync, for all        *)
(* requests, tokens, addresses, streams, forms and configuration files,    *)
(* however many requests are served at the same time, and whatever fails.  *)
(***************************************************************************)
EXTENDS SubscriptionSync, SequenceTheorems, FiniteSetTheorems, TLAPS

-----------------------------------------------------------------------------
(* Lists of tokens *)

LEMMA NatsHaveMin ==
  ASSUME NEW S \in SUBSET Nat, S # {} PROVE \E k \in S : \A j \in S : k <= j
<1> DEFINE Upto == {0..k : k \in S}
<1>1. PICK U \in Upto : \A V \in Upto : <<V, U>> \notin StrictSubsetOrdering(Nat)
  <2>1. ASSUME NEW k \in S PROVE 0..k \in FiniteSubsetsOf(Nat)
    <3>1. 0..k \in SUBSET Nat /\ k \in Int /\ 0 \in Int
      OBVIOUS
    <3>2. IsFiniteSet(0..k)
      BY <3>1, FS_Interval
    <3> QED
      BY <3>1, <3>2 DEF FiniteSubsetsOf
  <2>2. Upto \subseteq FiniteSubsetsOf(Nat) /\ Upto # {}
    BY <2>1
  <2>3. IsWellFoundedOn(StrictSubsetOrdering(Nat), FiniteSubsetsOf(Nat))
    BY FS_StrictSubsetOrderingWellFounded
  <2> HIDE DEF Upto
  <2> QED
    BY <2>2, <2>3, WFMin
<1>2. PICK k \in S : U = 0..k
  OBVIOUS
<1>3. ASSUME NEW j \in S, j < k PROVE FALSE
  <2>1. 0..j \subseteq 0..k /\ k \in 0..k /\ k \notin 0..j
    BY <1>3
  <2>2. <<0..j, U>> \in StrictSubsetOrdering(Nat)
    BY <1>2, <2>1 DEF StrictSubsetOrdering
  <2> QED
    BY <1>1, <2>2
<1> QED
  BY <1>3

(* The loops over the tokens end at the first one with the id.             *)
LEMMA FirstIndex ==
  ASSUME NEW tokens \in Seq(TokenSettings), NEW t, Exists(t, tokens)
  PROVE  /\ IndexOf(t, tokens) \in DOMAIN tokens
         /\ tokens[IndexOf(t, tokens)].id = t
         /\ tokens[IndexOf(t, tokens)] \in TokenSettings
         /\ GetToken(t, tokens) = tokens[IndexOf(t, tokens)]
         /\ \A j \in DOMAIN tokens : tokens[j].id = t => IndexOf(t, tokens) <= j
<1> DEFINE At == {i \in DOMAIN tokens : tokens[i].id = t}
<1>1. At \in SUBSET Nat /\ At # {}
  BY DEF Exists
<1>2. PICK k \in At : \A j \in At : k <= j
  BY <1>1, NatsHaveMin
<1>3. \E i \in DOMAIN tokens :
        tokens[i].id = t /\ \A j \in DOMAIN tokens : tokens[j].id = t => i <= j
  BY <1>2
<1>4. /\ IndexOf(t, tokens) \in DOMAIN tokens /\ tokens[IndexOf(t, tokens)].id = t
      /\ \A j \in DOMAIN tokens : tokens[j].id = t => IndexOf(t, tokens) <= j
  BY <1>3 DEF IndexOf
<1>5. \A i \in DOMAIN tokens : tokens[i] \in TokenSettings
  BY ElementOfSeq
<1> QED
  BY <1>4, <1>5 DEF GetToken

LEMMA GotToken ==
  ASSUME NEW tokens \in Seq(TokenSettings), NEW t
  PROVE  /\ GetToken(t, tokens) \in TokenSettings \cup {NoToken}
         /\ GetToken(t, tokens) # NoToken <=> Exists(t, tokens)
<1>1. CASE Exists(t, tokens)
  BY <1>1, FirstIndex, NullsAssumption
<1>2. CASE ~Exists(t, tokens)
  BY <1>2 DEF GetToken
<1> QED
  BY <1>1, <1>2

LEMMA Removed ==
  ASSUME NEW tokens \in Seq(TokenSettings), NEW i \in DOMAIN tokens
  PROVE  /\ RemoveAt(tokens, i) \in Seq(TokenSettings)
         /\ DOMAIN RemoveAt(tokens, i) = 1..(Len(tokens) - 1)
         /\ \A j \in 1..(Len(tokens) - 1) :
              RemoveAt(tokens, i)[j] = tokens[IF j < i THEN j ELSE j + 1]
<1> DEFINE n == Len(tokens)
           front == SubSeq(tokens, 1, i - 1)
           back == SubSeq(tokens, i + 1, n)
<1>0. n \in Nat /\ i \in 1..n
  BY LenProperties
<1>1. /\ front \in Seq(TokenSettings) /\ Len(front) = i - 1
      /\ \A j \in 1..(i - 1) : front[j] = tokens[j]
  <2>1. \A j \in 1..(i - 1) : tokens[j] \in TokenSettings
    BY <1>0, ElementOfSeq
  <2>2. /\ front \in Seq(TokenSettings)
        /\ Len(front) = IF 1 <= i - 1 THEN (i - 1) - 1 + 1 ELSE 0
        /\ \A j \in 1..((i - 1) - 1 + 1) : front[j] = tokens[1 + j - 1]
    BY <1>0, <2>1, SubSeqProperties
  <2> QED
    BY <1>0, <2>2
<1>2. /\ back \in Seq(TokenSettings) /\ Len(back) = n - i
      /\ \A j \in 1..(n - i) : back[j] = tokens[i + j]
  <2>1. \A j \in (i + 1)..n : tokens[j] \in TokenSettings
    BY <1>0, ElementOfSeq
  <2>2. /\ back \in Seq(TokenSettings)
        /\ Len(back) = IF i + 1 <= n THEN n - (i + 1) + 1 ELSE 0
        /\ \A j \in 1..(n - (i + 1) + 1) : back[j] = tokens[i + 1 + j - 1]
    BY <1>0, <2>1, SubSeqProperties
  <2> QED
    BY <1>0, <2>2
<1> HIDE DEF front, back
<1>3. /\ front \o back \in Seq(TokenSettings)
      /\ Len(front \o back) = Len(front) + Len(back)
      /\ \A j \in 1..(Len(front) + Len(back)) :
           (front \o back)[j] = IF j <= Len(front) THEN front[j] ELSE back[j - Len(front)]
  BY <1>1, <1>2, ConcatProperties
<1>4. RemoveAt(tokens, i) = front \o back
  BY DEF RemoveAt, front, back
<1>5. Len(front) + Len(back) = n - 1
  BY <1>0, <1>1, <1>2
<1>6. ASSUME NEW j \in 1..(n - 1)
      PROVE  (front \o back)[j] = tokens[IF j < i THEN j ELSE j + 1]
  <2>1. CASE j < i
    BY <1>0, <1>1, <1>3, <1>5, <2>1
  <2>2. CASE ~(j < i)
    <3>1. j \in Int /\ j <= n - 1 /\ j >= i /\ ~(j <= Len(front)) /\ j - (i - 1) \in 1..(n - i)
      BY <1>0, <1>1, <2>2
    <3>2. (front \o back)[j] = back[j - Len(front)]
      BY <1>3, <1>5, <3>1
    <3>3. i + (j - (i - 1)) = j + 1 /\ j - Len(front) = j - (i - 1)
      BY <1>0, <1>1, <3>1
    <3> QED
      BY <1>2, <2>2, <3>1, <3>2, <3>3
  <2> QED
    BY <2>1, <2>2
<1>7. DOMAIN (front \o back) = 1..(n - 1)
  BY <1>3, <1>5, LenProperties
<1> QED
  BY <1>3, <1>4, <1>6, <1>7

LEMMA Replaced ==
  ASSUME NEW tokens \in Seq(TokenSettings), NEW i, NEW new,
         i \in DOMAIN tokens => new \in TokenSettings
  PROVE  /\ [tokens EXCEPT ![i] = new] \in Seq(TokenSettings)
         /\ DOMAIN [tokens EXCEPT ![i] = new] = DOMAIN tokens
         /\ \A j \in DOMAIN tokens :
              [tokens EXCEPT ![i] = new][j] = IF j = i THEN new ELSE tokens[j]
<1>1. CASE i \in DOMAIN tokens
  BY <1>1, ExceptSeq, LenProperties
<1>2. CASE i \notin DOMAIN tokens
  <2>1. [tokens EXCEPT ![i] = new] = tokens
    BY <1>2
  <2> QED
    BY <1>2, <2>1
<1> QED
  BY <1>1, <1>2
-----------------------------------------------------------------------------
(* Requests, and what they make of the settings *)

(* The fields an operation looks at have the type it expects.              *)
LEMMA RequestFields ==
  ASSUME NEW r \in Requests
  PROVE  /\ r.op \in AllOps
         /\ r.op \notin {"telegram"} \cup StartOps => r.id \in Token
         /\ r.op \in {"add", "update"} => r.form \in Form
         /\ r.op \in {"notify", "stream"} => r.enabled \in BOOLEAN
         /\ r.op = "streams" => r.streams \in SUBSET Stream
         /\ r.op \in {"stream", "config"} => r.stream \in Stream
         /\ r.op = "telegram" => r.telegram \in Telegram
         /\ r.op \in StartOps => r.file \in ConfigFile
<1> USE StoreAssumption DEF AllOps, StartOps
<1>1. CASE r \in {[op |-> o, id |-> t, form |-> f] :
                    o \in Ops \cap {"add", "update"}, t \in Token, f \in Form}
  BY <1>1
<1>2. CASE r \in {[op |-> o, id |-> t] : o \in Ops \cap {"delete"}, t \in Token}
  BY <1>2
<1>3. CASE r \in {[op |-> o, id |-> t, enabled |-> b] :
                    o \in Ops \cap {"notify"}, t \in Token, b \in BOOLEAN}
  BY <1>3
<1>4. CASE r \in {[op |-> o, id |-> t, streams |-> ss] :
                    o \in Ops \cap {"streams"}, t \in Token, ss \in SUBSET Stream}
  BY <1>4
<1>5. CASE r \in {[op |-> o, id |-> t, stream |-> s, enabled |-> b] :
                    o \in Ops \cap {"stream"}, t \in Token, s \in Stream, b \in BOOLEAN}
  BY <1>5
<1>6. CASE r \in {[op |-> o, id |-> t, stream |-> s] :
                    o \in Ops \cap {"config"}, t \in Token, s \in Stream}
  BY <1>6
<1>7. CASE r \in {[op |-> o, telegram |-> g] : o \in Ops \cap {"telegram"}, g \in Telegram}
  BY <1>7
<1>8. CASE r \in {[op |-> o, file |-> f] : o \in Ops \cap StartOps, f \in ConfigFile}
  BY <1>8
<1> QED
  BY <1>1, <1>2, <1>3, <1>4, <1>5, <1>6, <1>7, <1>8 DEF Requests

LEMMA DefaultType == NewDefaultSettings \in Settings
<1>1. <<>> \in Seq(TokenSettings)
  BY EmptySeq
<1> QED
  BY <1>1, StoreAssumption DEF NewDefaultSettings, Settings

LEMMA FormTokenType ==
  ASSUME NEW t \in Token, NEW form \in Form PROVE ToTokenSettings(t, form) \in TokenSettings
<1>1. /\ form.address \in Address /\ form.streams \in SUBSET Stream /\ form.notify \in BOOLEAN
      /\ form.streamNotify # NoMap => form.streamNotify \in [Stream -> Toggle]
  BY StoreAssumption DEF TokenFormData
<1> DEFINE config == IF form.streamNotify # NoMap THEN form.streamNotify
                     ELSE [s \in Stream |-> IF s \notin form.streams THEN "unset"
                                            ELSE IF form.notify THEN "on" ELSE "off"]
<1>2. config \in [Stream -> Config]
  <2>1. CASE form.streamNotify # NoMap
    BY <1>1, <2>1 DEF Config
  <2>2. CASE form.streamNotify = NoMap
    BY <1>1, <2>2 DEF Config, Toggle
  <2> QED
    BY <2>1, <2>2
<1>3. ToTokenSettings(t, form) =
        [id |-> t, address |-> form.address, streams |-> form.streams,
         notify |-> form.notify, config |-> config]
  BY DEF ToTokenSettings
<1> HIDE DEF config
<1> QED
  BY <1>1, <1>2, <1>3 DEF TokenSettings

LEMMA ConfigTokensType ==
  ASSUME NEW file \in ConfigFile, NEW ids \in [DOMAIN file.tokens -> Token]
  PROVE  [tokens |-> ConfigTokens(file, ids), telegram |-> file.telegram] \in Settings
<1> DEFINE Listed == [address : Address, streams : SUBSET Stream]
           n == Len(file.tokens)
<1>1. file.tokens \in Seq(Listed) /\ file.telegram \in Telegram
  BY StoreAssumption DEF ConfigData
<1>2. n \in Nat /\ DOMAIN file.tokens = 1..n
  BY <1>1, LenProperties
<1>3. ASSUME NEW i \in 1..n PROVE ConfigTokens(file, ids)[i] \in TokenSettings
  <2>1. file.tokens[i] \in Listed /\ ids[i] \in Token
    BY <1>1, <1>2, ElementOfSeq
  <2>2. [s \in Stream |-> "unset"] \in [Stream -> Config]
    BY DEF Config, Toggle
  <2> QED
    BY <1>2, <2>1, <2>2 DEF ConfigTokens, TokenSettings
<1>4. ConfigTokens(file, ids) \in [1..n -> TokenSettings]
  <2>1. DOMAIN ConfigTokens(file, ids) = 1..n
    BY <1>2 DEF ConfigTokens
  <2>2. ConfigTokens(file, ids) = [i \in 1..n |-> ConfigTokens(file, ids)[i]]
    BY <1>2 DEF ConfigTokens
  <2> QED
    BY <1>3, <2>2
<1>5. ConfigTokens(file, ids) \in Seq(TokenSettings)
  BY <1>2, <1>4, SeqDef
<1> QED
  BY <1>1, <1>5 DEF Settings

ReplacingOps == {"update", "notify", "streams", "stream", "config"}

(* What an operation makes of the token it finds. *)
LEMMA NewTokenType ==
  ASSUME NEW r \in Requests, r.op \in ReplacingOps, NEW c, NEW token \in TokenSettings,
         r.op = "config" => c \in TokenSettings
  PROVE  /\ NewToken(r, c, token) \in TokenSettings
         /\ r.op \in {"notify", "streams", "stream"} =>
              NewToken(r, c, token).address = token.address
         /\ r.op = "config" => NewToken(r, c, token).address = c.address
<1>1. CASE r.op = "update"
  BY <1>1, RequestFields, FormTokenType DEF NewToken, StartOps
<1>2. CASE r.op = "notify"
  BY <1>2, RequestFields DEF NewToken, TokenSettings
<1>3. CASE r.op = "streams"
  <2>1. r.streams \in SUBSET Stream
    BY <1>3, RequestFields
  <2>2. \A s \in Stream : (IF s \in r.streams /\ token.config[s] = "unset"
                             THEN (IF token.notify THEN "on" ELSE "off")
                             ELSE token.config[s]) \in Config
    BY DEF TokenSettings, Config, Toggle
  <2>3. /\ WithStreams(token, r.streams) \in TokenSettings
        /\ WithStreams(token, r.streams).address = token.address
    BY <2>1, <2>2 DEF WithStreams, TokenSettings
  <2> QED
    BY <1>3, <2>3 DEF NewToken
<1>4. CASE r.op = "stream"
  BY <1>4, RequestFields DEF NewToken, TokenSettings, Config, Toggle
<1>5. CASE r.op = "config"
  BY <1>5, RequestFields DEF NewToken, TokenSettings, Config
<1> QED
  BY <1>1, <1>2, <1>3, <1>4, <1>5 DEF ReplacingOps

(* The list after an operation that is not refused: with a new token at    *)
(* its end, without the one at i, or with a new token instead of it.       *)
LEMMA ChangedList ==
  ASSUME NEW r \in Requests, r.op \notin {"telegram"} \cup StartOps,
         NEW tokens \in Seq(TokenSettings), ~Refused(r, tokens),
         NEW c, r.op = "config" => c \in TokenSettings
  PROVE  LET i == IndexOf(r.id, tokens) IN
         /\ ChangedTokens(r, c, tokens) \in Seq(TokenSettings)
         /\ r.op = "add" =>
              /\ ChangedTokens(r, c, tokens) = Append(tokens, ToTokenSettings(r.id, r.form))
              /\ ToTokenSettings(r.id, r.form) \in TokenSettings
         /\ r.op # "add" =>
              i \in DOMAIN tokens /\ tokens[i] \in TokenSettings
              /\ GetToken(r.id, tokens) = tokens[i]
         /\ r.op = "delete" => ChangedTokens(r, c, tokens) = RemoveAt(tokens, i)
         /\ r.op \in ReplacingOps =>
              /\ ChangedTokens(r, c, tokens) = [tokens EXCEPT ![i] = NewToken(r, c, tokens[i])]
              /\ NewToken(r, c, tokens[i]) \in TokenSettings
<1> DEFINE i == IndexOf(r.id, tokens)
<1>1. r.op \in {"add", "delete"} \cup ReplacingOps
  BY RequestFields DEF AllOps, StartOps, ReplacingOps
<1>2. CASE r.op = "add"
  <2>1. ToTokenSettings(r.id, r.form) \in TokenSettings
    BY <1>2, RequestFields, FormTokenType DEF StartOps
  <2>2. ChangedTokens(r, c, tokens) = Append(tokens, ToTokenSettings(r.id, r.form))
    BY <1>2 DEF ChangedTokens
  <2> QED
    BY <1>2, <2>1, <2>2, AppendProperties DEF ReplacingOps
<1>3. CASE r.op \in {"delete"} \cup ReplacingOps
  <2>1. Exists(r.id, tokens)
    BY <1>3 DEF Refused, StartOps, ReplacingOps
  <2>2. i \in DOMAIN tokens /\ tokens[i] \in TokenSettings /\ GetToken(r.id, tokens) = tokens[i]
    BY <2>1, FirstIndex
  <2> HIDE DEF i
  <2>3. CASE r.op = "delete"
    <3>1. ChangedTokens(r, c, tokens) = RemoveAt(tokens, i)
      BY <2>3 DEF ChangedTokens, i
    <3> QED
      BY <2>2, <2>3, <3>1, Removed DEF i, ReplacingOps
  <2>4. CASE r.op \in ReplacingOps
    <3>1. ChangedTokens(r, c, tokens) = [tokens EXCEPT ![i] = NewToken(r, c, tokens[i])]
      BY <2>4 DEF ChangedTokens, i, ReplacingOps
    <3>2. NewToken(r, c, tokens[i]) \in TokenSettings
      BY <2>2, <2>4, NewTokenType
    <3>3. ChangedTokens(r, c, tokens) \in Seq(TokenSettings)
      BY <3>1, <3>2, Replaced
    <3>4. r.op # "add" /\ r.op # "delete"
      BY <2>4 DEF ReplacingOps
    <3> QED
      BY <2>2, <3>1, <3>2, <3>3, <3>4 DEF i
  <2> QED
    BY <1>3, <2>3, <2>4
<1> QED
  BY <1>1, <1>2, <1>3

LEMMA ChangedType ==
  ASSUME NEW r \in Requests, r.op \notin StartOps,
         NEW s \in Settings, ~Refused(r, s.tokens),
         NEW c, r.op = "config" => c \in TokenSettings
  PROVE  Changed(r, c, s) \in Settings
<1>1. s.tokens \in Seq(TokenSettings) /\ s.telegram \in Telegram
  BY DEF Settings
<1>2. CASE r.op = "telegram"
  BY <1>1, <1>2, RequestFields DEF Changed, Settings
<1>3. CASE r.op # "telegram"
  <2>1. ChangedTokens(r, c, s.tokens) \in Seq(TokenSettings)
    BY <1>1, <1>3, ChangedList
  <2>2. Changed(r, c, s) = [s EXCEPT !.tokens = ChangedTokens(r, c, s.tokens)]
    BY <1>3 DEF Changed
  <2> QED
    BY <1>1, <2>1, <2>2 DEF Settings
<1> QED
  BY <1>2, <1>3

-----------------------------------------------------------------------------
(* Types of the store and of the requests *)

Peeking == {"delete", "notify", "stream", "config"}

(* Which operations get to a step. *)
StepFits(a) ==
  LET op == request[a].op IN
  /\ at[a] = "peek" => op \in Peeking
  /\ at[a] = "telegramFirst" => op = "telegram"
  /\ at[a] = "clear" => op = "reset"
  /\ at[a] = "exists" => op \in StartOps
  /\ at[a] = "load" => op \notin StartOps

(* What a request keeps to itself. *)
LocalOK ==
  /\ at \in [Admin -> StepName]
  /\ request \in [Admin -> Requests \cup {NoRequest}]
  /\ copy \in [Admin -> TokenSettings \cup {NoToken}]
  /\ mine \in [Admin -> Settings]
  /\ \A a \in Admin :
       /\ (at[a] = "idle") <=> (request[a] = NoRequest)
       /\ at[a] \notin {"idle", "peek"} /\ request[a].op \in {"notify", "stream", "config"} =>
            copy[a] # NoToken
       /\ StepFits(a)

SharedOK ==
  /\ settings \in Settings /\ stored \in BOOLEAN /\ telegramKey \in Telegram
  /\ stale \in [Admin -> BOOLEAN] /\ torn \in BOOLEAN
  /\ begun \in 0..MaxRequests

StoreSafe == SharedOK /\ LocalOK

LEMMA SafeStoreType == StoreSafe => StoreTypeOK
BY DEF StoreSafe, SharedOK, LocalOK, StoreTypeOK, Pending, InProgress

LEMMA PendingRequest ==
  ASSUME LocalOK, NEW a \in Admin, at[a] # "idle" PROVE request[a] \in Requests
BY DEF LocalOK

LEMMA InitSafe == StoreInit => StoreSafe
<1> SUFFICES ASSUME StoreInit PROVE StoreSafe OBVIOUS
<1>1. SharedOK
  <2>1. begun \in 0..MaxRequests
    BY StoreAssumption DEF StoreInit
  <2>2. settings \in Settings /\ telegramKey \in Telegram
    BY StoreAssumption, DefaultType DEF StoreInit
  <2> QED
    BY <2>1, <2>2 DEF StoreInit, SharedOK
<1>2. LocalOK
  BY DefaultType DEF StoreInit, LocalOK, StepName, StepFits
<1> QED
  BY <1>1, <1>2 DEF StoreSafe

(* Every step of a request changes only what is a's own, ... *)
LEMMA RespondsLocal ==
  ASSUME LocalOK, NEW a \in Admin, Responds(a) PROVE LocalOK'
<1>1. /\ at' \in [Admin -> StepName]
      /\ request' \in [Admin -> Requests \cup {NoRequest}]
      /\ copy' \in [Admin -> TokenSettings \cup {NoToken}]
      /\ mine' \in [Admin -> Settings]
  BY DefaultType DEF LocalOK, Responds, Goes, StepName
<1>2. at'[a] = "idle" /\ request'[a] = NoRequest
  BY DEF LocalOK, Responds, Goes
<1>3. ASSUME NEW b \in Admin, b # a
      PROVE  at'[b] = at[b] /\ request'[b] = request[b] /\ copy'[b] = copy[b]
  BY <1>3 DEF LocalOK, Responds, Goes
<1> QED
  BY <1>1, <1>2, <1>3 DEF LocalOK, StepFits

(* ... or goes on to the step after it. *)
LEMMA GoesLocal ==
  ASSUME LocalOK, NEW a \in Admin, NEW step \in StepName \ {"idle"}, Goes(a, step),
         NEW r \in Requests, request' = [request EXCEPT ![a] = r],
         NEW c \in TokenSettings \cup {NoToken}, copy' = [copy EXCEPT ![a] = c],
         NEW s \in Settings, mine' = [mine EXCEPT ![a] = s],
         r.op \in {"notify", "stream", "config"} /\ step # "peek" => c # NoToken,
         step = "peek" => r.op \in Peeking,
         step = "telegramFirst" => r.op = "telegram",
         step = "clear" => r.op = "reset",
         step = "exists" => r.op \in StartOps,
         step = "load" => r.op \notin StartOps
  PROVE  LocalOK'
<1>1. /\ at' \in [Admin -> StepName]
      /\ request' \in [Admin -> Requests \cup {NoRequest}]
      /\ copy' \in [Admin -> TokenSettings \cup {NoToken}]
      /\ mine' \in [Admin -> Settings]
  BY DEF LocalOK, Goes
<1>2. at'[a] = step /\ request'[a] = r /\ copy'[a] = c
  BY DEF LocalOK, Goes
<1>3. ASSUME NEW b \in Admin, b # a
      PROVE  at'[b] = at[b] /\ request'[b] = request[b] /\ copy'[b] = copy[b]
  BY <1>3 DEF LocalOK, Goes
<1>4. r # NoRequest
  BY NullsAssumption
<1>5. ASSUME NEW b \in Admin
      PROVE  (/\ (at[b] = "idle") <=> (request[b] = NoRequest)
              /\ at[b] \notin {"idle", "peek"} /\ request[b].op \in {"notify", "stream", "config"} =>
                   copy[b] # NoToken
              /\ StepFits(b))'
  <2>1. CASE b = a
    BY <1>2, <1>4, <2>1 DEF StepFits
  <2>2. CASE b # a
    BY <1>3, <2>2 DEF LocalOK, StepFits
  <2> QED
    BY <2>1, <2>2
<1> QED
  BY <1>1, <1>5 DEF LocalOK

(* The same when the request keeps its copy. *)
LEMMA ProceedsLocal ==
  ASSUME LocalOK, NEW a \in Admin, at[a] \notin {"idle", "peek"},
         NEW step \in StepName \ {"idle", "peek", "telegramFirst", "clear"}, Goes(a, step),
         UNCHANGED <<request, copy>>,
         NEW s \in Settings, mine' = [mine EXCEPT ![a] = s],
         step = "exists" => request[a].op \in StartOps,
         step = "load" => request[a].op \notin StartOps
  PROVE  LocalOK'
<1>1. request[a] \in Requests /\ copy[a] \in TokenSettings \cup {NoToken}
  BY PendingRequest DEF LocalOK
<1>2. request' = [request EXCEPT ![a] = request[a]] /\ copy' = [copy EXCEPT ![a] = copy[a]]
  BY DEF LocalOK
<1>3. request[a].op \in {"notify", "stream", "config"} => copy[a] # NoToken
  BY DEF LocalOK
<1> QED
  BY <1>1, <1>2, <1>3, GoesLocal

(* The same when it keeps, too, what it is going to write. *)
LEMMA KeepsMine ==
  ASSUME LocalOK, NEW a \in Admin PROVE mine[a] \in Settings /\ mine = [mine EXCEPT ![a] = mine[a]]
BY DEF LocalOK

LEMMA StaleType ==
  ASSUME SharedOK, NEW a \in Admin
  PROVE  Overtaken(a) \in [Admin -> BOOLEAN] /\ Reread(a) \in [Admin -> BOOLEAN]
BY DEF SharedOK, Overtaken, Reread, HasRead

LEMMA BeginSafe ==
  ASSUME StoreSafe, NEW a \in Admin, NEW r \in Requests, Begin(a, r) PROVE StoreSafe'
<1>1. LocalOK /\ SharedOK BY DEF StoreSafe
<1>2. r.op \in AllOps BY RequestFields
<1>3. LocalOK'
  <2>1. copy[a] \in TokenSettings \cup {NoToken} /\ mine[a] \in Settings
    BY <1>1 DEF LocalOK
  <2>2. copy' = [copy EXCEPT ![a] = copy[a]] /\ mine' = [mine EXCEPT ![a] = mine[a]]
    BY <1>1 DEF Begin, LocalOK
  <2>3. /\ FirstStep(r.op) \in StepName \ {"idle"}
        /\ r.op \in {"notify", "stream", "config"} => FirstStep(r.op) = "peek"
        /\ FirstStep(r.op) = "peek" => r.op \in Peeking
        /\ FirstStep(r.op) = "telegramFirst" => r.op = "telegram"
        /\ FirstStep(r.op) = "clear" => r.op = "reset"
        /\ FirstStep(r.op) = "exists" => r.op \in StartOps
        /\ FirstStep(r.op) = "load" => r.op \notin StartOps
    BY <1>2 DEF FirstStep, StepName, Peeking, AllOps, StartOps
  <2>4. request' = [request EXCEPT ![a] = r] /\ Goes(a, FirstStep(r.op))
    BY DEF Begin
  <2> QED
    BY <1>1, <2>1, <2>2, <2>3, <2>4, GoesLocal
<1>4. SharedOK'
  <2>1. begun' \in 0..MaxRequests
    BY <1>1, StoreAssumption DEF Begin, SharedOK
  <2> QED BY <1>1, <2>1 DEF Begin, SharedOK, store, history
<1> QED
  BY <1>3, <1>4 DEF StoreSafe

LEMMA PeekSafe ==
  ASSUME StoreSafe, NEW a \in Admin, Peek(a), UNCHANGED begun PROVE StoreSafe'
<1> DEFINE q == request[a]
           token == GetToken(q.id, settings.tokens)
<1>1. LocalOK /\ SharedOK BY DEF StoreSafe
<1>2. SharedOK'
  BY <1>1 DEF Peek, SharedOK, store, history
<1>3. CASE Responds(a)
  BY <1>1, <1>2, <1>3, RespondsLocal DEF StoreSafe
<1>4. CASE ~Responds(a)
  <2>1. at[a] = "peek" /\ q \in Requests /\ q.op \in Peeking
    BY <1>1, PendingRequest DEF Peek, LocalOK, StepFits
  <2>2. token \in TokenSettings \cup {NoToken}
    BY <1>1, GotToken DEF SharedOK, Settings
  <2>3. /\ q.op # "delete" => token # NoToken
        /\ copy' = [copy EXCEPT ![a] = token] /\ Goes(a, "load")
        /\ UNCHANGED <<request, mine>>
    BY <1>4, <2>1 DEF Peek, Peeking
  <2>4. request' = [request EXCEPT ![a] = q] /\ mine' = [mine EXCEPT ![a] = mine[a]]
    BY <1>1, <2>3 DEF LocalOK
  <2>5. "load" \in StepName \ {"idle"} /\ mine[a] \in Settings
    BY <1>1 DEF StepName, LocalOK
  <2>6. /\ q.op \in {"notify", "stream", "config"} => token # NoToken
        /\ q.op \notin StartOps
    BY <2>1, <2>3 DEF Peeking, StartOps
  <2>7. Goes(a, "load") /\ copy' = [copy EXCEPT ![a] = token]
    BY <2>3
  <2> HIDE DEF q, token
  <2>8. LocalOK'
    <3>1. LocalOK /\ q \in Requests
      BY <1>1, <2>1
    <3>2. /\ "load" = "peek" => q.op \in Peeking
          /\ "load" = "telegramFirst" => q.op = "telegram"
          /\ "load" = "clear" => q.op = "reset"
          /\ "load" = "exists" => q.op \in StartOps
      OBVIOUS
    <3>3. /\ q.op \in {"notify", "stream", "config"} /\ "load" # "peek" => token # NoToken
          /\ "load" = "load" => q.op \notin StartOps
      BY <2>6
    <3> QED
      BY <2>2, <2>4, <2>5, <2>7, <3>1, <3>2, <3>3, GoesLocal, Zenon
  <2> QED
    BY <1>2, <2>8 DEF StoreSafe
<1> QED
  BY <1>3, <1>4

LEMMA SetTelegramSafe ==
  ASSUME StoreSafe, NEW a \in Admin, SetTelegram(a), UNCHANGED begun PROVE StoreSafe'
<1>1. LocalOK /\ SharedOK BY DEF StoreSafe
<1>2. request[a] \in Requests /\ request[a].op = "telegram" /\ request[a].op \notin StartOps
  BY <1>1, PendingRequest DEF SetTelegram, LocalOK, StepFits, StartOps
<1>3. SharedOK'
  BY <1>1, <1>2, RequestFields DEF SetTelegram, SharedOK, history
<1>4. LocalOK'
  <2>1. "load" \in StepName \ {"idle", "peek", "telegramFirst", "clear"} /\ mine[a] \in Settings
    BY <1>1 DEF StepName, LocalOK
  <2>2. mine' = [mine EXCEPT ![a] = mine[a]]
    BY <1>1 DEF SetTelegram, LocalOK
  <2>3. at[a] \notin {"idle", "peek"} /\ Goes(a, "load") /\ UNCHANGED <<request, copy>>
    BY DEF SetTelegram
  <2>4. /\ "load" = "exists" => request[a].op \in StartOps
        /\ "load" = "load" => request[a].op \notin StartOps
    BY <1>2
  <2> QED
    BY <1>1, <2>1, <2>2, <2>3, <2>4, ProceedsLocal, Zenon
<1> QED
  BY <1>3, <1>4 DEF StoreSafe

LEMMA ClearAllSafe ==
  ASSUME StoreSafe, NEW a \in Admin, ClearAll(a), UNCHANGED begun PROVE StoreSafe'
<1>1. LocalOK /\ SharedOK BY DEF StoreSafe
<1>2. SharedOK'
  BY <1>1, DefaultType, StoreAssumption, StaleType DEF ClearAll, Cleared, SharedOK
<1>3. LocalOK'
  <2>1. "exists" \in StepName \ {"idle", "peek", "telegramFirst", "clear"} /\ mine[a] \in Settings
    BY <1>1 DEF StepName, LocalOK
  <2>2. mine' = [mine EXCEPT ![a] = mine[a]] /\ request[a].op = "reset"
    BY <1>1 DEF ClearAll, LocalOK, StepFits
  <2> QED
    BY <1>1, <2>1, <2>2, ProceedsLocal DEF ClearAll, StartOps
<1> QED
  BY <1>2, <1>3 DEF StoreSafe

LEMMA CheckExistsSafe ==
  ASSUME StoreSafe, NEW a \in Admin, CheckExists(a), UNCHANGED begun PROVE StoreSafe'
<1>1. LocalOK /\ SharedOK BY DEF StoreSafe
<1>2. SharedOK'
  BY <1>1, StaleType DEF CheckExists, SharedOK, store
<1>3. mine[a] \in Settings /\ mine = [mine EXCEPT ![a] = mine[a]]
  BY <1>1, KeepsMine
<1>4. at[a] = "exists" /\ request[a].file \in ConfigFile
  BY <1>1, PendingRequest, RequestFields DEF CheckExists, LocalOK, StepFits
<1>5. PICK step \in {"save", "done"}, s \in Settings :
        Goes(a, step) /\ mine' = [mine EXCEPT ![a] = s]
  <2>1. CASE Goes(a, "done") /\ UNCHANGED mine
    BY <1>3, <2>1
  <2>2. CASE /\ Goes(a, "save")
             /\ \E ids \in [DOMAIN request[a].file.tokens -> Token \ UsedIds] :
                  mine' = [mine EXCEPT ![a] = [tokens |-> ConfigTokens(request[a].file, ids),
                                               telegram |-> request[a].file.telegram]]
    <3>1. PICK ids \in [DOMAIN request[a].file.tokens -> Token] :
            mine' = [mine EXCEPT ![a] = [tokens |-> ConfigTokens(request[a].file, ids),
                                         telegram |-> request[a].file.telegram]]
      BY <2>2
    <3>2. [tokens |-> ConfigTokens(request[a].file, ids),
           telegram |-> request[a].file.telegram] \in Settings
      BY <1>4, ConfigTokensType
    <3> QED
      BY <2>2, <3>1, <3>2
  <2> QED
    BY <2>1, <2>2 DEF CheckExists
<1>6. LocalOK'
  <2>1. step \in StepName \ {"idle", "peek", "telegramFirst", "clear"}
    BY DEF StepName
  <2> QED
    BY <1>1, <1>5, <2>1, ProceedsLocal DEF CheckExists
<1> QED
  BY <1>2, <1>6 DEF StoreSafe

(* What GetSettings and the change in memory leave to be written. *)
LEMMA LoadedSettings ==
  ASSUME StoreSafe, NEW a \in Admin, Load(a), ~Refused(request[a], settings.tokens)
  PROVE  /\ request[a] \in Requests /\ request[a].op \notin StartOps
         /\ mine' = [mine EXCEPT ![a] = Changed(request[a], copy[a], settings)]
         /\ Changed(request[a], copy[a], settings) \in Settings
         /\ settings \in Settings /\ copy[a] \in TokenSettings \cup {NoToken}
         /\ request[a].op \in {"notify", "stream", "config"} => copy[a] \in TokenSettings
<1>1. at[a] = "load" /\ request[a] \in Requests /\ request[a].op \notin StartOps
  BY PendingRequest DEF Load, StoreSafe, LocalOK, StepFits
<1>2. /\ settings \in Settings /\ copy[a] \in TokenSettings \cup {NoToken}
      /\ request[a].op \in {"notify", "stream", "config"} => copy[a] # NoToken
  BY <1>1 DEF StoreSafe, LocalOK, SharedOK
<1>3. Changed(request[a], copy[a], settings) \in Settings
  BY <1>1, <1>2, ChangedType
<1> QED
  BY <1>1, <1>2, <1>3 DEF Load

LEMMA LoadSafe ==
  ASSUME StoreSafe, NEW a \in Admin, Load(a), UNCHANGED begun PROVE StoreSafe'
<1>1. LocalOK /\ SharedOK BY DEF StoreSafe
<1>2. SharedOK'
  <2>1. stale' \in [Admin -> BOOLEAN]
    BY <1>1, StaleType DEF Load, SharedOK
  <2> QED
    BY <1>1, <2>1 DEF Load, SharedOK, store
<1>3. CASE Refused(request[a], settings.tokens)
  BY <1>1, <1>2, <1>3, RespondsLocal DEF Load, StoreSafe
<1>4. CASE ~Refused(request[a], settings.tokens)
  <2>1. "save" \in StepName \ {"idle", "peek", "telegramFirst", "clear"}
    BY DEF StepName
  <2>2. LocalOK'
    BY <1>1, <1>4, <2>1, LoadedSettings, ProceedsLocal DEF Load
  <2> QED
    BY <1>2, <2>2 DEF StoreSafe
<1> QED
  BY <1>3, <1>4

LEMMA SaveSafe ==
  ASSUME StoreSafe, NEW a \in Admin, Save(a), UNCHANGED begun PROVE StoreSafe'
<1>1. LocalOK /\ SharedOK BY DEF StoreSafe
<1>2. mine[a] \in Settings /\ mine = [mine EXCEPT ![a] = mine[a]]
  BY <1>1, KeepsMine
<1>3. SharedOK'
  BY <1>1, <1>2, StaleType DEF Save, SharedOK
<1>4. LocalOK'
  <2>1. "saveTelegram" \in StepName \ {"idle", "peek", "telegramFirst", "clear"}
    BY DEF StepName
  <2> QED
    BY <1>1, <1>2, <2>1, ProceedsLocal DEF Save
<1> QED
  BY <1>3, <1>4 DEF StoreSafe

LEMMA SaveTelegramSafe ==
  ASSUME StoreSafe, NEW a \in Admin, SaveTelegram(a), UNCHANGED begun PROVE StoreSafe'
<1>1. LocalOK /\ SharedOK BY DEF StoreSafe
<1>2. mine[a] \in Settings /\ mine = [mine EXCEPT ![a] = mine[a]]
  BY <1>1, KeepsMine
<1>3. SharedOK'
  <2>1. telegramKey' \in Telegram /\ torn' \in BOOLEAN
    BY <1>1, <1>2 DEF SaveTelegram, SharedOK, Settings
  <2> QED
    BY <1>1, <2>1, StaleType DEF SaveTelegram, SharedOK
<1>4. LocalOK'
  <2>1. "done" \in StepName \ {"idle", "peek", "telegramFirst", "clear"}
    BY DEF StepName
  <2> QED
    BY <1>1, <1>2, <2>1, ProceedsLocal DEF SaveTelegram
<1> QED
  BY <1>3, <1>4 DEF StoreSafe

(* Whatever command the server carries out leaves settings. *)
LEMMA AppliedType ==
  ASSUME StoreSafe, NEW a \in Admin, Applied(a) \/ UNCHANGED store
  PROVE  settings' \in Settings /\ stored' \in BOOLEAN /\ telegramKey' \in Telegram
<1>1. LocalOK /\ SharedOK BY DEF StoreSafe
<1>2. mine[a] \in Settings /\ (at[a] = "telegramFirst" => request[a].telegram \in Telegram)
  BY <1>1, PendingRequest, RequestFields DEF LocalOK, StepFits
<1>3. CASE UNCHANGED store
  BY <1>1, <1>3 DEF store, SharedOK
<1>4. CASE Applied(a) /\ at[a] = "save"
  BY <1>1, <1>2, <1>4 DEF Applied, SharedOK
<1>5. CASE Applied(a) /\ at[a] = "telegramFirst"
  BY <1>1, <1>2, <1>5 DEF Applied, SharedOK
<1>6. CASE Applied(a) /\ at[a] = "saveTelegram"
  BY <1>1, <1>2, <1>6 DEF Applied, SharedOK, Settings
<1>7. CASE Applied(a) /\ at[a] = "clear"
  BY <1>1, <1>7, DefaultType, StoreAssumption DEF Applied, Cleared
<1>8. CASE Applied(a) /\ at[a] \notin {"save", "telegramFirst", "saveTelegram", "clear"}
  BY <1>3, <1>8 DEF Applied
<1> QED
  BY <1>3, <1>4, <1>5, <1>6, <1>7, <1>8

LEMMA SentAgainSafe ==
  ASSUME StoreSafe, NEW a \in Admin, SentAgain(a), UNCHANGED begun PROVE StoreSafe'
<1>1. LocalOK /\ SharedOK BY DEF StoreSafe
<1>2. stale' \in [Admin -> BOOLEAN]
  BY <1>1 DEF SentAgain, SharedOK, HasRead
<1>3. SharedOK'
  BY <1>1, <1>2, AppliedType DEF SentAgain, SharedOK
<1>4. LocalOK'
  BY <1>1 DEF SentAgain, local, LocalOK, StepFits
<1> QED
  BY <1>3, <1>4 DEF StoreSafe

LEMMA RedisFailsSafe ==
  ASSUME StoreSafe, NEW a \in Admin, RedisFails(a), UNCHANGED begun PROVE StoreSafe'
<1>1. LocalOK /\ SharedOK BY DEF StoreSafe
<1>2. SharedOK'
  <2>1. stale' \in [Admin -> BOOLEAN] /\ torn' \in BOOLEAN
    BY <1>1, StaleType DEF RedisFails, SharedOK, Writing
  <2> QED
    BY <1>1, <2>1, AppliedType DEF RedisFails, SharedOK
<1>3. CASE Responds(a)
  BY <1>1, <1>2, <1>3, RespondsLocal DEF StoreSafe
<1>4. CASE ~Responds(a)
  <2>1. Goes(a, GoesOnTo(a)) /\ UNCHANGED <<request, copy, mine>> /\ GoesOnTo(a) # "idle"
    BY <1>4 DEF RedisFails
  <2>2. request[a] \in Requests /\ request = [request EXCEPT ![a] = request[a]]
        /\ mine[a] \in Settings /\ mine = [mine EXCEPT ![a] = mine[a]]
        /\ copy[a] \in TokenSettings \cup {NoToken} /\ copy = [copy EXCEPT ![a] = copy[a]]
    BY <1>1, PendingRequest DEF RedisFails, LocalOK
  <2>3. \/ at[a] = "peek" /\ request[a].op = "delete" /\ GoesOnTo(a) = "load"
        \/ at[a] # "peek" /\ request[a].op \in StartOps /\ GoesOnTo(a) = "done"
    BY <1>1, <2>1 DEF GoesOnTo, LocalOK, StepFits
  <2>4. GoesOnTo(a) \in {"load", "done"} /\ GoesOnTo(a) \in StepName \ {"idle"}
    BY <2>3 DEF StepName
  <2>5. request[a].op \notin {"notify", "stream", "config"}
        /\ (GoesOnTo(a) = "load" => request[a].op \notin StartOps)
    BY <2>3 DEF StartOps
  <2> DEFINE step == GoesOnTo(a)
  <2>6. Goes(a, step) /\ step \in StepName \ {"idle"} /\ step \in {"load", "done"}
    BY <2>1, <2>4
  <2>7. step = "load" => request[a].op \notin StartOps
    BY <2>5
  <2>8. request' = [request EXCEPT ![a] = request[a]] /\ copy' = [copy EXCEPT ![a] = copy[a]]
        /\ mine' = [mine EXCEPT ![a] = mine[a]]
    BY <2>1, <2>2
  <2> HIDE DEF step
  <2>9. LocalOK'
    BY <1>1, <2>2, <2>5, <2>6, <2>7, <2>8, GoesLocal
  <2> QED
    BY <1>2, <2>9 DEF StoreSafe
<1> QED
  BY <1>3, <1>4

(* The response to a request that is done, with whatever call went before. *)
LEMMA AnswerSafe ==
  ASSUME StoreSafe, NEW a \in Admin, Responds(a), UNCHANGED <<store, history, begun>>
  PROVE  StoreSafe'
BY RespondsLocal DEF StoreSafe, SharedOK, store, history

LEMMA CrashSafe ==
  ASSUME StoreSafe, NEW A \in SUBSET Admin, Crash(A), UNCHANGED begun PROVE StoreSafe'
<1>1. LocalOK /\ SharedOK BY DEF StoreSafe
<1>2. SharedOK'
  <2>1. stale' \in [Admin -> BOOLEAN] /\ torn' \in BOOLEAN
    BY <1>1 DEF Crash, SharedOK, Writing
  <2> QED
    BY <1>1, <2>1 DEF Crash, SharedOK, store
<1>3. /\ at' \in [Admin -> StepName]
      /\ request' \in [Admin -> Requests \cup {NoRequest}]
      /\ copy' \in [Admin -> TokenSettings \cup {NoToken}]
      /\ mine' \in [Admin -> Settings]
  BY <1>1, DefaultType DEF Crash, LocalOK, StepName
<1>4. ASSUME NEW b \in Admin
      PROVE  (/\ (at[b] = "idle") <=> (request[b] = NoRequest)
              /\ at[b] \notin {"idle", "peek"} /\ request[b].op \in {"notify", "stream", "config"} =>
                   copy[b] # NoToken
              /\ StepFits(b))'
  <2>1. CASE b \in A
    BY <2>1 DEF Crash, StepFits
  <2>2. CASE b \notin A
    <3>1. at'[b] = at[b] /\ request'[b] = request[b] /\ copy'[b] = copy[b]
      BY <2>2 DEF Crash
    <3> QED
      BY <1>1, <3>1 DEF LocalOK, StepFits
  <2> QED
    BY <2>1, <2>2
<1>5. LocalOK'
  BY <1>3, <1>4 DEF LocalOK
<1> QED
  BY <1>2, <1>5 DEF StoreSafe

LEMMA StoreStepSafe ==
  ASSUME StoreSafe, NEW a \in Admin, StoreStep(a) PROVE StoreSafe'
BY PeekSafe, SetTelegramSafe, ClearAllSafe, CheckExistsSafe, LoadSafe, SaveSafe,
   SaveTelegramSafe, SentAgainSafe, RedisFailsSafe DEF StoreStep

LEMMA SameSafe == StoreSafe /\ UNCHANGED svars => StoreSafe'
BY DEF svars, store, local, history, StoreSafe, SharedOK, LocalOK, StepFits

LEMMA StoreNextSafe == StoreSafe /\ [StoreNext]_svars => StoreSafe'
<1> SUFFICES ASSUME StoreSafe, [StoreNext]_svars PROVE StoreSafe' OBVIOUS
<1>1. ASSUME NEW a \in Admin, Acknowledge(a), UNCHANGED begun PROVE StoreSafe'
  BY <1>1, AnswerSafe DEF Acknowledge
<1> QED
  BY <1>1, BeginSafe, StoreStepSafe, CrashSafe, SameSafe DEF StoreNext

LEMMA StoreAlwaysSafe == StoreSpec => []StoreSafe
BY InitSafe, StoreNextSafe, PTL DEF StoreSpec

(* StoreTypeOK is an invariant of the settings alone, however many         *)
(* requests are served at the same time, of however many instances.        *)
THEOREM StoreTyped == StoreSpec => []StoreTypeOK
BY StoreAlwaysSafe, SafeStoreType, PTL

-----------------------------------------------------------------------------
(* What a request that was not overtaken can rely on *)

(* Until alert:settings is written by another request, what a has read,    *)
(* or written, is what is there.                                           *)
Current(a) ==
  ~stale[a] =>
    /\ at[a] = "load" /\ request[a].op = "config" =>
         copy[a] = GetToken(request[a].id, settings.tokens)
    /\ at[a] = "save" => WriteIsCurrent(a)
    /\ at[a] = "saveTelegram" => settings.telegram = mine[a].telegram

(* A step of one request leaves what is another's own alone, ... *)
Untouched(b) ==
  /\ at'[b] = at[b] /\ request'[b] = request[b]
  /\ copy'[b] = copy[b] /\ mine'[b] = mine[b]

LEMMA RespondsAlone ==
  ASSUME LocalOK, NEW a \in Admin, Responds(a) PROVE \A b \in Admin \ {a} : Untouched(b)
BY DEF LocalOK, Responds, Goes, Untouched

LEMMA StepsAlone ==
  ASSUME LocalOK, NEW a \in Admin, StoreStep(a)
  PROVE  at[a] \notin {"idle", "done"} /\ \A b \in Admin \ {a} : Untouched(b)
<1>1. CASE Responds(a)
  <2>1. at[a] \notin {"idle", "done"}
    BY DEF StoreStep, Peek, SetTelegram, ClearAll, CheckExists, Load, Save, SaveTelegram,
           SentAgain, RedisFails
  <2> QED
    BY <1>1, <2>1, RespondsAlone
<1>2. CASE Peek(a) /\ ~Responds(a)
  BY <1>2 DEF LocalOK, Peek, Goes, Untouched
<1>3. CASE SetTelegram(a) \/ ClearAll(a) \/ CheckExists(a) \/ Save(a) \/ SaveTelegram(a)
  BY <1>3 DEF LocalOK, SetTelegram, ClearAll, CheckExists, Save, SaveTelegram, Goes, Untouched
<1>4. CASE Load(a) /\ ~Responds(a)
  BY <1>4 DEF LocalOK, Load, Goes, Untouched
<1>5. CASE SentAgain(a)
  BY <1>5 DEF SentAgain, local, Untouched
<1>6. CASE RedisFails(a) /\ ~Responds(a)
  BY <1>6 DEF LocalOK, RedisFails, Goes, Untouched
<1> QED
  BY <1>1, <1>2, <1>3, <1>4, <1>5, <1>6 DEF StoreStep

(* ... and tells it if it writes alert:settings under its feet.            *)
Warned(b) ==
  ~stale'[b] => ~stale[b] /\ (HasRead(b) => settings' = settings /\ stored' = stored)

LEMMA StepWarns ==
  ASSUME StoreSafe, NEW a \in Admin, StoreStep(a), NEW b \in Admin \ {a} PROVE Warned(b)
<1> USE DEF StoreSafe, SharedOK
<1>1. CASE Peek(a) \/ SetTelegram(a)
  BY <1>1 DEF Peek, SetTelegram, store, history, Warned
<1>2. CASE CheckExists(a) \/ Load(a)
  BY <1>2 DEF CheckExists, Load, Reread, store, Warned
<1>3. CASE SaveTelegram(a)
  BY <1>3 DEF SaveTelegram, Reread, Warned
<1>4. CASE ClearAll(a) \/ Save(a)
  BY <1>4 DEF ClearAll, Save, Overtaken, Warned
<1>5. CASE SentAgain(a)
  <2>1. CASE at[a] \in {"clear", "save"}
    BY <1>5, <2>1 DEF SentAgain, Warned
  <2>2. CASE at[a] \notin {"clear", "save"}
    BY <1>5, <2>2 DEF SentAgain, Applied, store, Warned
  <2> QED
    BY <2>1, <2>2
<1>6. CASE RedisFails(a)
  <2>1. CASE UNCHANGED store /\ stale' = Reread(a)
    BY <2>1 DEF Reread, store, Warned
  <2>2. CASE at[a] \in {"clear", "save"} /\ stale' = Overtaken(a)
    BY <2>2 DEF Overtaken, Warned
  <2>3. CASE at[a] \notin {"clear", "save"} /\ Applied(a) /\ stale' = Reread(a)
    BY <1>6, <2>3 DEF RedisFails, Applied, Reread, store, Warned
  <2> QED
    BY <1>6, <2>1, <2>2, <2>3 DEF RedisFails
<1> QED
  BY <1>1, <1>2, <1>3, <1>4, <1>5, <1>6 DEF StoreStep

LEMMA CurrentStays ==
  ASSUME NEW b \in Admin, Current(b), Untouched(b), Warned(b) PROVE Current(b)'
<1> SUFFICES ASSUME ~stale'[b] PROVE Current(b)'
  BY DEF Current
<1>1. ~stale[b] /\ (HasRead(b) => settings' = settings /\ stored' = stored)
  BY DEF Warned
<1>2. CASE HasRead(b)
  BY <1>1, <1>2 DEF Current, Untouched, WriteIsCurrent
<1>3. CASE ~HasRead(b)
  BY <1>3 DEF Current, Untouched, HasRead
<1> QED
  BY <1>2, <1>3

(* a's own steps: what it reads is what is there.                          *)
LEMMA OwnCurrent ==
  ASSUME StoreSafe, NEW a \in Admin, Current(a), StoreStep(a) PROVE Current(a)'
<1> USE DEF StoreSafe, LocalOK
<1>1. CASE Responds(a)
  BY <1>1 DEF Responds, Goes, Current
<1>2. CASE Peek(a) /\ ~Responds(a)
  <2>1. /\ at'[a] = "load" /\ request' = request /\ settings' = settings
        /\ copy'[a] = GetToken(request[a].id, settings.tokens)
    BY <1>2 DEF Peek, Goes, store
  <2> QED
    BY <2>1 DEF Current
<1>3. CASE SetTelegram(a)
  <2>1. at'[a] = "load" /\ request' = request /\ request[a].op = "telegram"
    BY <1>3 DEF SetTelegram, Goes, StepFits
  <2> QED
    BY <2>1 DEF Current
<1>4. CASE ClearAll(a) \/ SaveTelegram(a)
  <2>1. at'[a] \in {"exists", "done"}
    BY <1>4 DEF ClearAll, SaveTelegram, Goes
  <2> QED
    BY <2>1 DEF Current
<1>5. CASE CheckExists(a)
  <2>1. \/ at'[a] = "done"
        \/ at'[a] = "save" /\ ~stored' /\ request'[a].op \in StartOps
    BY <1>5 DEF CheckExists, Goes, StepFits, store
  <2> QED
    BY <2>1 DEF Current, WriteIsCurrent
<1>6. CASE Load(a) /\ ~Responds(a)
  <2>1. /\ ~Refused(request[a], settings.tokens)
        /\ mine' = [mine EXCEPT ![a] = Changed(request[a], copy[a], settings)]
        /\ Goes(a, "save") /\ UNCHANGED <<request, copy, store>>
        /\ request[a].op = "config" => stale' = stale
    BY <1>6 DEF Load
  <2>2. at[a] = "load" /\ request[a].op \notin StartOps
    BY <1>6 DEF Load, StepFits
  <2>3. /\ at'[a] = "save" /\ settings' = settings
        /\ mine'[a] = Changed(request[a], copy[a], settings)
    BY <2>1 DEF Goes, store
  <2>4. ~stale'[a] /\ request[a].op = "config" =>
          copy[a] = GetToken(request[a].id, settings.tokens)
    BY <2>1, <2>2 DEF Current
  <2>5. ~stale'[a] => WriteIsCurrent(a)'
    <3>1. request'[a] = request[a] /\ copy'[a] = copy[a]
      BY <2>1
    <3> QED
      BY <2>1, <2>2, <2>3, <2>4, <3>1 DEF WriteIsCurrent
  <2> QED
    BY <2>3, <2>5 DEF Current
<1>7. CASE Save(a)
  BY <1>7 DEF Save, Goes, Current
<1>8. CASE SentAgain(a)
  <2>1. at'[a] = at[a] /\ at[a] # "load"
    BY <1>8 DEF SentAgain, local
  <2>2. CASE at[a] \in {"clear", "save"}
    BY <1>8, <2>1, <2>2 DEF SentAgain, HasRead, Current
  <2>3. CASE at[a] \notin {"clear", "save"}
    BY <1>8, <2>1, <2>3 DEF SentAgain, Applied, local, store, Current
  <2> QED
    BY <2>2, <2>3
<1>9. CASE RedisFails(a) /\ ~Responds(a)
  <2>1. at'[a] = GoesOnTo(a) /\ GoesOnTo(a) # "idle" /\ request' = request
    BY <1>9 DEF RedisFails, Goes
  <2>2. \/ at'[a] = "load" /\ request'[a].op = "delete"
        \/ at'[a] = "done"
    BY <2>1 DEF GoesOnTo
  <2> QED
    BY <2>2 DEF Current
<1> QED
  BY <1>1, <1>2, <1>3, <1>4, <1>5, <1>6, <1>7, <1>8, <1>9 DEF StoreStep

-----------------------------------------------------------------------------
(* The two keys *)

KeysAgree == telegramKey = settings.telegram \/ torn \/ \E a \in Admin : Writing(a)

LEMMA WritingStays ==
  ASSUME NEW b \in Admin, Untouched(b), Writing(b) PROVE Writing(b)'
BY DEF Untouched, Writing

LEMMA KeysStep ==
  ASSUME StoreSafe, NEW a \in Admin, Current(a), KeysAgree, StoreStep(a) PROVE KeysAgree'
<1> USE DEF StoreSafe, LocalOK
<1>0. \A b \in Admin \ {a} : Untouched(b)
  BY StepsAlone
(* What is left to show when neither key nor torn changes. *)
<1>1. ASSUME UNCHANGED <<settings, telegramKey>>, torn => torn', Writing(a) => torn' \/ Writing(a)'
      PROVE  KeysAgree'
  <2>1. ASSUME NEW b \in Admin, Writing(b) PROVE torn' \/ \E c \in Admin : Writing(c)'
    BY <1>0, <1>1, <2>1, WritingStays
  <2> QED
    BY <1>1, <2>1 DEF KeysAgree
<1>2. CASE Peek(a)
  BY <1>1, <1>2 DEF Peek, store, history, Writing
<1>3. CASE SetTelegram(a)
  <2>1. Writing(a)'
    BY <1>3 DEF SetTelegram, Goes, StepFits, Writing
  <2> QED
    BY <2>1 DEF KeysAgree
<1>4. CASE ClearAll(a)
  BY <1>4 DEF ClearAll, Cleared, NewDefaultSettings, KeysAgree
<1>5. CASE CheckExists(a)
  BY <1>1, <1>5 DEF CheckExists, store, Writing
<1>6. CASE Load(a) /\ Refused(request[a], settings.tokens)
  <2>1. request[a].op # "telegram"
    BY <1>6 DEF Refused
  <2> QED
    BY <1>1, <1>6, <2>1 DEF Load, store, Writing
<1>7. CASE (Load(a) /\ ~Refused(request[a], settings.tokens)) \/ Save(a)
  <2>1. Writing(a)'
    BY <1>7 DEF Load, Save, Goes, Writing
  <2> QED
    BY <2>1 DEF KeysAgree
<1>8. CASE SaveTelegram(a)
  BY <1>8 DEF SaveTelegram, Current, SharedOK, KeysAgree
<1>9. CASE SentAgain(a)
  <2>1. CASE at[a] = "clear"
    BY <1>9, <2>1 DEF SentAgain, Applied, Cleared, NewDefaultSettings, KeysAgree
  <2>2. CASE at[a] # "clear"
    <3>1. Writing(a)'
      BY <1>9, <2>2 DEF SentAgain, local, Writing
    <3> QED
      BY <3>1 DEF KeysAgree
  <2> QED
    BY <2>1, <2>2
<1>10. CASE RedisFails(a)
  <2>1. CASE Writing(a)
    BY <1>10, <2>1 DEF RedisFails, KeysAgree
  <2>2. CASE ~Writing(a) /\ UNCHANGED store
    BY <1>1, <1>10, <2>2 DEF RedisFails, store
  <2>3. CASE ~Writing(a) /\ ~UNCHANGED store
    <3>1. at[a] = "clear" /\ Cleared
      BY <1>10, <2>3 DEF RedisFails, Applied, Writing
    <3> QED
      BY <3>1 DEF Cleared, NewDefaultSettings, KeysAgree
  <2> QED
    BY <2>1, <2>2, <2>3
<1> QED
  BY <1>2, <1>3, <1>4, <1>5, <1>6, <1>7, <1>8, <1>9, <1>10 DEF StoreStep

-----------------------------------------------------------------------------
(* Together *)

StoreInv == StoreSafe /\ (\A a \in Admin : Current(a)) /\ KeysAgree

LEMMA StoreStepInv ==
  ASSUME StoreInv, NEW a \in Admin, StoreStep(a) PROVE StoreInv'
<1>1. StoreSafe /\ LocalOK /\ \A b \in Admin : Current(b)
  BY DEF StoreInv, StoreSafe
<1>2. StoreSafe' /\ KeysAgree'
  BY <1>1, StoreStepSafe, KeysStep DEF StoreInv
<1>3. ASSUME NEW b \in Admin PROVE Current(b)'
  <2>1. CASE b = a
    BY <1>1, <2>1, OwnCurrent
  <2>2. CASE b # a
    BY <1>1, <2>2, StepsAlone, StepWarns, CurrentStays
  <2> QED
    BY <2>1, <2>2
<1> QED
  BY <1>2, <1>3 DEF StoreInv

(* Steps that touch neither the store nor the history, and leave a idle or *)
(* at its first step. *)
LEMMA OutsideInv ==
  ASSUME StoreInv, StoreSafe', NEW a \in Admin, UNCHANGED <<store, history>>,
         \A b \in Admin \ {a} : Untouched(b),
         at[a] \in {"idle", "done"},
         at'[a] \in {"idle", "peek", "telegramFirst", "exists", "clear", "load"},
         at'[a] = "load" => request'[a].op # "config"
  PROVE  StoreInv'
<1>1. ASSUME NEW b \in Admin PROVE Current(b)'
  <2>1. CASE b = a
    BY <2>1 DEF Current
  <2>2. CASE b # a
    <3>1. Warned(b) /\ Current(b) /\ Untouched(b)
      BY <2>2 DEF Warned, store, history, StoreInv
    <3> QED
      BY <3>1, CurrentStays
  <2> QED
    BY <2>1, <2>2
<1>2. ASSUME NEW b \in Admin, Writing(b) PROVE Writing(b)'
  <2>1. b # a
    BY <1>2 DEF Writing
  <2> QED
    BY <1>2, <2>1, WritingStays
<1>3. KeysAgree'
  BY <1>2 DEF StoreInv, KeysAgree, store, history
<1> QED
  BY <1>1, <1>3 DEF StoreInv

LEMMA BeginInv ==
  ASSUME StoreInv, NEW a \in Admin, NEW r \in Requests, Begin(a, r) PROVE StoreInv'
<1>1. StoreSafe /\ LocalOK
  BY DEF StoreInv, StoreSafe
<1>2. StoreSafe'
  BY <1>1, BeginSafe
<1>3. \A b \in Admin \ {a} : Untouched(b)
  BY <1>1 DEF Begin, Goes, LocalOK, Untouched
<1>4. at'[a] = FirstStep(r.op) /\ request'[a] = r
  BY <1>1 DEF Begin, Goes, LocalOK
<1>5. /\ FirstStep(r.op) \in {"peek", "telegramFirst", "exists", "clear", "load"}
      /\ FirstStep(r.op) = "load" => r.op # "config"
  BY DEF FirstStep
<1> QED
  BY <1>2, <1>3, <1>4, <1>5, OutsideInv DEF Begin

LEMMA AnswerInv ==
  ASSUME StoreInv, NEW a \in Admin, at[a] = "done", Responds(a),
         UNCHANGED <<store, history, begun>>
  PROVE  StoreInv'
<1>1. StoreSafe /\ LocalOK
  BY DEF StoreInv, StoreSafe
<1>2. StoreSafe'
  BY <1>1, AnswerSafe
<1>3. (\A b \in Admin \ {a} : Untouched(b)) /\ at'[a] = "idle"
  BY <1>1, RespondsAlone DEF Responds, Goes, LocalOK
<1> QED
  BY <1>2, <1>3, OutsideInv

LEMMA CrashInv ==
  ASSUME StoreInv, NEW A \in SUBSET Admin, Crash(A), UNCHANGED begun PROVE StoreInv'
<1>1. StoreSafe'
  BY CrashSafe DEF StoreInv
<1>2. \A b \in Admin \ A : Untouched(b) /\ stale'[b] = stale[b]
  BY DEF Crash, Untouched, StoreInv, StoreSafe, SharedOK
<1>3. ASSUME NEW b \in Admin PROVE Current(b)'
  <2>1. CASE b \in A
    BY <2>1 DEF Crash, Current
  <2>2. CASE b \notin A
    <3>1. Warned(b) /\ Current(b) /\ Untouched(b)
      BY <1>2, <2>2 DEF Warned, Crash, store, StoreInv
    <3> QED
      BY <3>1, CurrentStays
  <2> QED
    BY <2>1, <2>2
<1>4. ASSUME NEW b \in Admin, Writing(b) PROVE torn' \/ Writing(b)'
  BY <1>2, <1>4, WritingStays DEF Crash
<1>5. KeysAgree'
  BY <1>4 DEF StoreInv, KeysAgree, Crash, store
<1> QED
  BY <1>1, <1>3, <1>5 DEF StoreInv

LEMMA InitInv == StoreInit => StoreInv
BY InitSafe DEF StoreInit, StoreInv, Current, KeysAgree, NewDefaultSettings

LEMMA SameInv == StoreInv /\ UNCHANGED svars => StoreInv'
<1> SUFFICES ASSUME StoreInv, UNCHANGED svars PROVE StoreInv' OBVIOUS
<1>1. StoreSafe'
  BY SameSafe DEF StoreInv
<1>2. ASSUME NEW b \in Admin PROVE Current(b)' /\ (Writing(b) => Writing(b)')
  <2>1. Untouched(b) /\ Warned(b) /\ Current(b)
    BY DEF Untouched, Warned, svars, store, local, history, StoreInv
  <2> QED
    BY <2>1, CurrentStays, WritingStays
<1> QED
  BY <1>1, <1>2 DEF StoreInv, KeysAgree, svars, store, history

LEMMA StoreNextInv == StoreInv /\ [StoreNext]_svars => StoreInv'
<1> SUFFICES ASSUME StoreInv, [StoreNext]_svars PROVE StoreInv' OBVIOUS
<1>1. ASSUME NEW a \in Admin, Acknowledge(a), UNCHANGED begun PROVE StoreInv'
  BY <1>1, AnswerInv DEF Acknowledge
<1> QED
  BY <1>1, BeginInv, StoreStepInv, CrashInv, SameInv DEF StoreNext

LEMMA StoreInvariant == StoreSpec => []StoreInv
BY InitInv, StoreNextInv, PTL DEF StoreSpec

(* A request that nobody has overtaken writes its change of what is stored *)
(* at that time: with any number of requests, starts and instances at the  *)
(* same time, commands sent twice, failing and dying, an update is lost    *)
(* only to a write between another request's read and its write.           *)
THEOREM UpdatesNotLost == StoreSpec => []LostOnlyToStaleWrites
<1>1. StoreInv => LostOnlyToStaleWrites
  BY DEF StoreInv, Current, LostOnlyToStaleWrites
<1> QED
  BY <1>1, StoreInvariant, PTL

(* The copy of the Telegram settings agrees with them whenever nobody is   *)
(* writing, unless the last write of the two was cut in half or overtaken. *)
THEOREM TelegramCopied == StoreSpec => []TelegramAgrees
<1>1. StoreInv => TelegramAgrees
  BY DEF StoreInv, KeysAgree, TelegramAgrees
<1> QED
  BY <1>1, StoreInvariant, PTL

-----------------------------------------------------------------------------
(* Addresses *)

Unique(tokens) ==
  \A i, j \in DOMAIN tokens : tokens[i].address = tokens[j].address => i = j

LEMMA AddedUnique ==
  ASSUME NEW tokens \in Seq(TokenSettings), Unique(tokens),
         NEW new \in TokenSettings, ~HasAddress(new.address, tokens)
  PROVE  Unique(Append(tokens, new))
<1> DEFINE n == Len(tokens)
           list == Append(tokens, new)
<1>1. n \in Nat /\ DOMAIN tokens = 1..n
  BY LenProperties
<1>2. /\ DOMAIN list = 1..(n + 1) /\ list[n + 1] = new
      /\ \A i \in 1..n : list[i] = tokens[i]
  BY <1>1, AppendProperties, LenProperties
<1> HIDE DEF list
<1>3. \A i \in 1..n : list[i].address # list[n + 1].address
  BY <1>1, <1>2 DEF HasAddress
<1>4. \A i \in 1..(n + 1) : i = n + 1 \/ i \in 1..n
  BY <1>1
<1>5. ASSUME NEW i \in DOMAIN list, NEW j \in DOMAIN list, list[i].address = list[j].address
      PROVE  i = j
  <2>1. CASE i \in 1..n /\ j \in 1..n
    BY <1>1, <1>2, <1>5, <2>1 DEF Unique
  <2>2. CASE i = n + 1 /\ j = n + 1
    BY <2>2
  <2>3. CASE ~(i = n + 1 <=> j = n + 1)
    BY <1>2, <1>3, <1>4, <1>5, <2>3
  <2> QED
    BY <1>2, <1>4, <2>1, <2>2, <2>3
<1>6. Unique(list)
  BY <1>5 DEF Unique
<1> QED
  BY <1>6 DEF list

LEMMA RemovedUnique ==
  ASSUME NEW tokens \in Seq(TokenSettings), Unique(tokens), NEW i \in DOMAIN tokens
  PROVE  Unique(RemoveAt(tokens, i))
<1> DEFINE n == Len(tokens)
           list == RemoveAt(tokens, i)
           From(j) == IF j < i THEN j ELSE j + 1
<1>1. n \in Nat /\ DOMAIN tokens = 1..n
  BY LenProperties
<1>2. /\ DOMAIN list = 1..(n - 1)
      /\ \A j \in 1..(n - 1) : list[j] = tokens[From(j)]
  BY Removed
<1> HIDE DEF list
<1>3. ASSUME NEW j \in DOMAIN list, NEW k \in DOMAIN list, list[j].address = list[k].address
      PROVE  j = k
  <2>1. From(j) \in DOMAIN tokens /\ From(k) \in DOMAIN tokens
    BY <1>1, <1>2
  <2>2. tokens[From(j)].address = tokens[From(k)].address
    BY <1>2, <1>3
  <2>3. From(j) = From(k)
    BY <2>1, <2>2 DEF Unique
  <2> QED
    BY <1>1, <1>2, <2>3
<1>4. Unique(list)
  BY <1>3 DEF Unique
<1> QED
  BY <1>4 DEF list

(* Of the operations that are not refused, only an update may give a token *)
(* the address of another one.                                             *)
LEMMA ChangedUnique ==
  ASSUME NEW r \in Requests, r.op \notin {"update"} \cup StartOps,
         NEW s \in Settings, ~Refused(r, s.tokens), Unique(s.tokens),
         NEW c, r.op = "config" => c = GetToken(r.id, s.tokens)
  PROVE  Unique(Changed(r, c, s).tokens)
<1> DEFINE tokens == s.tokens
           i == IndexOf(r.id, tokens)
<1>1. tokens \in Seq(TokenSettings)
  BY DEF Settings
<1>2. CASE r.op = "telegram"
  <2>1. Changed(r, c, s).tokens = tokens
    BY <1>2 DEF Changed, Settings
  <2> QED
    BY <2>1
<1>3. CASE r.op # "telegram"
  <2>1. Changed(r, c, s).tokens = ChangedTokens(r, c, tokens)
    BY <1>3 DEF Changed, Settings
  <2>2. r.op \notin {"telegram"} \cup StartOps
    BY <1>3
  <2>3. r.op = "config" => c \in TokenSettings
    <3>1. r.op = "config" => Exists(r.id, tokens)
      BY DEF Refused, StartOps
    <3> QED
      BY <1>1, <3>1, FirstIndex
  <2>4. r.op \in {"add", "delete"} \cup ReplacingOps
    BY <2>2, RequestFields DEF AllOps, StartOps, ReplacingOps
  <2>5. CASE r.op = "add"
    <3>1. /\ ChangedTokens(r, c, tokens) = Append(tokens, ToTokenSettings(r.id, r.form))
          /\ ToTokenSettings(r.id, r.form) \in TokenSettings
      BY <1>1, <2>2, <2>3, <2>5, ChangedList
    <3>2. ~HasAddress(ToTokenSettings(r.id, r.form).address, tokens)
      BY <2>5 DEF Refused, ToTokenSettings
    <3> QED
      BY <1>1, <2>1, <3>1, <3>2, AddedUnique
  <2>6. CASE r.op = "delete"
    <3>1. ChangedTokens(r, c, tokens) = RemoveAt(tokens, i) /\ i \in DOMAIN tokens
      BY <1>1, <2>2, <2>3, <2>6, ChangedList
    <3> QED
      BY <1>1, <2>1, <3>1, RemovedUnique
  <2>7. CASE r.op \in ReplacingOps
    <3> DEFINE new == NewToken(r, c, tokens[i])
    <3>1. /\ ChangedTokens(r, c, tokens) = [tokens EXCEPT ![i] = new]
          /\ i \in DOMAIN tokens /\ tokens[i] \in TokenSettings
          /\ GetToken(r.id, tokens) = tokens[i]
      <4>1. r.op # "add"
        BY <2>7 DEF ReplacingOps
      <4> QED
        BY <1>1, <2>2, <2>3, <2>7, <4>1, ChangedList
    <3>2. r.op \in {"notify", "streams", "stream", "config"}
      BY <2>7 DEF ReplacingOps
    <3>3. new \in TokenSettings /\ new.address = tokens[i].address
      BY <2>3, <2>7, <3>1, <3>2, NewTokenType
    <3> HIDE DEF new
    <3>4. /\ DOMAIN [tokens EXCEPT ![i] = new] = DOMAIN tokens
          /\ \A j \in DOMAIN tokens : [tokens EXCEPT ![i] = new][j].address = tokens[j].address
      BY <1>1, <3>3, Replaced
    <3>5. Unique([tokens EXCEPT ![i] = new])
      BY <3>4 DEF Unique
    <3> QED
      BY <2>1, <3>1, <3>5
  <2> QED
    BY <2>4, <2>5, <2>6, <2>7
<1> QED
  BY <1>2, <1>3

(* What a step of a makes of alert:settings. *)
LEMMA Written ==
  ASSUME NEW a \in Admin, StoreStep(a)
  PROVE  \/ settings' = settings
         \/ settings' = NewDefaultSettings
         \/ at[a] = "save" /\ settings' = mine[a]
<1>1. CASE Peek(a) \/ SetTelegram(a) \/ CheckExists(a) \/ Load(a) \/ SaveTelegram(a)
  BY <1>1 DEF Peek, SetTelegram, CheckExists, Load, SaveTelegram, store
<1>2. CASE ClearAll(a) \/ Save(a)
  BY <1>2 DEF ClearAll, Cleared, Save
<1>3. CASE SentAgain(a) \/ RedisFails(a)
  <2>1. UNCHANGED store \/ Applied(a)
    BY <1>3 DEF SentAgain, RedisFails
  <2> QED
    BY <2>1 DEF Applied, Cleared, store
<1> QED
  BY <1>1, <1>2, <1>3 DEF StoreStep

LEMMA DuplicateStep ==
  ASSUME StoreInv, NEW a \in Admin, StoreStep(a), UniqueAddress, ~UniqueAddress'
  PROVE  /\ at[a] = "save" /\ settings' = mine[a]
         /\ request[a].op \in {"update"} \cup StartOps \/ stale[a]
<1>1. settings' # settings
  BY DEF UniqueAddress
<1>2. settings' # NewDefaultSettings
  BY DEF UniqueAddress, NewDefaultSettings
<1>3. at[a] = "save" /\ settings' = mine[a]
  BY <1>1, <1>2, Written
<1>4. ASSUME request[a].op \notin {"update"} \cup StartOps, ~stale[a] PROVE FALSE
  <2> DEFINE r == request[a]
             c == IF r.op = "config" THEN GetToken(r.id, settings.tokens) ELSE copy[a]
  <2>1. r \in Requests /\ settings \in Settings
    BY <1>3, PendingRequest DEF StoreInv, StoreSafe, SharedOK
  <2>2. ~Refused(r, settings.tokens) /\ mine[a] = Changed(r, c, settings)
    BY <1>3, <1>4 DEF StoreInv, Current, WriteIsCurrent
  <2>3. Unique(settings.tokens)
    BY DEF UniqueAddress, Unique
  <2>4. r.op = "config" => c = GetToken(r.id, settings.tokens)
    OBVIOUS
  <2> HIDE DEF r, c
  <2>5. r.op \notin {"update"} \cup StartOps
    BY <1>4 DEF r
  <2>6. Unique(Changed(r, c, settings).tokens)
    BY <2>1, <2>2, <2>3, <2>4, <2>5, ChangedUnique
  <2> QED
    BY <1>3, <2>2, <2>6 DEF Unique, UniqueAddress
<1> QED
  BY <1>3, <1>4

(* Two tokens get the same address only by an update, by a start with its  *)
(* list from the configuration file, or by a request that was overtaken:   *)
(* AddToken's check of the list it has read is enough for the rest.        *)
THEOREM DuplicatesExplained == StoreSpec => DuplicatesHaveACause
<1>1. StoreInv /\ [StoreNext]_svars =>
        [UniqueAddress /\ ~UniqueAddress' =>
           \E a \in Admin : /\ at[a] = "save" /\ settings' = mine[a]
                            /\ request[a].op \in {"update"} \cup StartOps \/ stale[a]]_svars
  <2> SUFFICES ASSUME StoreInv, [StoreNext]_svars, UniqueAddress, ~UniqueAddress'
               PROVE  \E a \in Admin : /\ at[a] = "save" /\ settings' = mine[a]
                                       /\ request[a].op \in {"update"} \cup StartOps \/ stale[a]
    OBVIOUS
  <2>1. settings' # settings
    BY DEF UniqueAddress
  <2>2. \E a \in Admin : StoreStep(a)
    BY <2>1 DEF StoreNext, Begin, Acknowledge, Crash, svars, store
  <2> QED
    BY <2>2, DuplicateStep
<1> QED
  BY <1>1, StoreInvariant, PTL DEF StoreSpec, DuplicatesHaveACause

-----------------------------------------------------------------------------
(* One instance: types of the subscriptions, and who is alone *)

LEMMA ChannelsType ==
  ASSUME NEW tokens, \A i \in DOMAIN tokens : /\ tokens[i].address \in Address
                                              /\ tokens[i].streams \in SUBSET Stream
  PROVE  Channels(tokens) \subseteq Channel
BY DEF Channels, Channel

LEMMA SettingsChannels ==
  ASSUME NEW s \in Settings PROVE Channels(s.tokens) \subseteq Channel
<1>1. s.tokens \in Seq(TokenSettings)
  BY DEF Settings
<1>2. \A i \in DOMAIN s.tokens : s.tokens[i] \in TokenSettings
  BY <1>1, ElementOfSeq, LenProperties
<1> QED
  BY <1>2, ChannelsType DEF TokenSettings

LEMMA FileChannels ==
  ASSUME NEW file \in ConfigFile PROVE Channels(file.tokens) \subseteq Channel
<1> DEFINE Listed == [address : Address, streams : SUBSET Stream]
<1>1. file.tokens \in Seq(Listed)
  BY StoreAssumption DEF ConfigData
<1>2. \A i \in DOMAIN file.tokens : file.tokens[i] \in Listed
  BY <1>1, ElementOfSeq, LenProperties
<1> QED
  BY <1>2, ChannelsType

SyncOK ==
  /\ tracked \subseteq Channel /\ active \subseteq Channel
  /\ holder \in Admin \cup {NoAdmin}
  /\ IF holder = NoAdmin THEN active = {} ELSE at[holder] = "done" /\ Call(holder) = "sync"
  /\ up \in BOOLEAN /\ alone \in BOOLEAN /\ astray \in BOOLEAN

Starts(a) == request[a].op \in StartOps

(* A start runs alone, and so does what is not astray.                     *)
AloneInv ==
  /\ alone => \A a, b \in InProgress : a = b
  /\ \A a \in InProgress : Starts(a) => ~up /\ alone
  /\ ~astray /\ InProgress # {} => alone

SyncSafe == StoreSafe /\ SyncOK /\ AloneInv

LEMMA SafeSyncType == SyncSafe => SyncTypeOK
BY SafeStoreType DEF SyncSafe, SyncOK, AloneInv, Starts, Pending, SyncTypeOK

LEMMA InitSyncSafe == SyncInit => SyncSafe
BY InitSafe DEF SyncInit, StoreInit, SyncSafe, SyncOK, AloneInv, InProgress

LEMMA AtInProgress ==
  ASSUME LocalOK PROVE \A a \in Admin : a \in InProgress <=> at[a] # "idle"
BY DEF LocalOK, InProgress

(* What the calls of a handler that is done are about. *)
LEMMA CallFields ==
  ASSUME LocalOK, NEW a \in Admin, at[a] = "done"
  PROVE  /\ Call(a) \in {"sync", "none", "leaveToken", "leave", "join", "start"}
         /\ Call(a) \in {"leaveToken", "leave", "join"} => copy[a] \in TokenSettings
         /\ Call(a) \in {"leave", "join"} =>
              request[a].op = "stream" /\ request[a].stream \in Stream
         /\ Call(a) = "start" => Starts(a) /\ request[a].file \in ConfigFile
<1> DEFINE op == request[a].op
<1>1. request[a] \in Requests
  BY PendingRequest
<1>2. /\ copy[a] \in TokenSettings \cup {NoToken}
      /\ op \in {"notify", "stream"} => copy[a] # NoToken
  BY DEF LocalOK
<1>3. /\ op \in AllOps /\ (op = "stream" => request[a].stream \in Stream)
      /\ op \in StartOps => request[a].file \in ConfigFile
  BY <1>1, RequestFields
<1>4. CASE op \in {"update", "add", "streams", "config", "telegram"}
  BY <1>4 DEF Call, StartOps
<1>5. CASE op = "delete"
  BY <1>2, <1>5 DEF Call, StartOps
<1>6. CASE op = "notify"
  BY <1>2, <1>6 DEF Call, StartOps
<1>7. CASE op = "stream"
  BY <1>2, <1>3, <1>7 DEF Call, StartOps
<1>8. CASE op \in StartOps
  BY <1>3, <1>8 DEF Call, StartOps, Starts
<1> QED
  BY <1>3, <1>4, <1>5, <1>6, <1>7, <1>8 DEF AllOps, StartOps

LEMMA SameCall ==
  ASSUME NEW a \in Admin, request'[a] = request[a], copy'[a] = copy[a] PROVE Call(a)' = Call(a)
BY DEF Call

LEMMA TrackedAfterType ==
  ASSUME SyncSafe, NEW a \in Admin, at[a] = "done" PROVE TrackedAfter(a) \subseteq Channel
<1>1. tracked \subseteq Channel
  BY DEF SyncSafe, SyncOK
<1>2. Call(a) = "join" => <<copy[a].address, request[a].stream>> \in Channel
  BY CallFields DEF SyncSafe, StoreSafe, TokenSettings, Channel
<1> QED
  BY <1>1, <1>2 DEF TrackedAfter

(* The response of a goes with the end of its call.  *)
LEMMA AnswerSync ==
  ASSUME SyncSafe, NEW a \in Admin, at[a] = "done", Responds(a),
         UNCHANGED <<store, history, begun>>, tracked' \subseteq Channel,
         \/ holder = a /\ holder' = NoAdmin /\ active' = {}
         \/ holder # a /\ UNCHANGED <<holder, active>>,
         up' \in BOOLEAN, Starts(a) \/ up' = up,
         alone' = alone, astray' \in BOOLEAN, astray => astray' \/ alone
  PROVE  SyncSafe'
<1>1. StoreSafe' /\ LocalOK /\ LocalOK'
  BY AnswerSafe DEF SyncSafe, StoreSafe
<1>2. /\ \A b \in Admin \ {a} : at'[b] = at[b] /\ request'[b] = request[b] /\ Call(b)' = Call(b)
      /\ at'[a] = "idle"
  BY <1>1, RespondsAlone, SameCall DEF Untouched, Responds, Goes, LocalOK
<1>3. SyncOK'
  BY <1>1, <1>2, SyncAssumption DEF SyncSafe, SyncOK
<1>4. a \in InProgress /\ InProgress' = InProgress \ {a}
  BY <1>1, <1>2, AtInProgress DEF InProgress, LocalOK
<1>5. AloneInv'
  <2>1. alone => InProgress' = {}
    BY <1>4 DEF SyncSafe, AloneInv
  <2>2. ASSUME NEW b \in InProgress', Starts(b)' PROVE FALSE
    <3>1. b \in Admin \ {a} /\ b \in InProgress /\ Starts(b)
      BY <1>2, <1>4, <2>2 DEF Starts, InProgress
    <3> QED
      BY <1>4, <3>1, <2>1 DEF SyncSafe, AloneInv
  <2>3. ~astray' /\ InProgress' # {} => alone
    BY <1>4 DEF SyncSafe, AloneInv
  <2> QED
    BY <2>1, <2>2, <2>3 DEF AloneInv
<1> QED
  BY <1>1, <1>3, <1>5 DEF SyncSafe

LEMMA RequestSync ==
  ASSUME SyncSafe, NEW a \in Admin, NEW r \in Requests, Request(a, r) PROVE SyncSafe'
<1>1. StoreSafe /\ LocalOK /\ StoreSafe' /\ LocalOK' /\ at[a] = "idle"
  BY BeginSafe DEF SyncSafe, StoreSafe, Request, Begin
<1>2. /\ \A b \in Admin \ {a} : at'[b] = at[b] /\ request'[b] = request[b] /\ Call(b)' = Call(b)
      /\ request'[a] = r /\ at'[a] # "idle"
  <2>1. \A b \in Admin \ {a} : at'[b] = at[b] /\ request'[b] = request[b] /\ copy'[b] = copy[b]
    BY <1>1 DEF Request, Begin, Goes, LocalOK
  <2>2. request'[a] = r /\ at'[a] # "idle"
    BY <1>1, NullsAssumption DEF Request, Begin, Goes, LocalOK
  <2> QED
    BY <2>1, <2>2, SameCall
<1>3. a \notin InProgress /\ InProgress' = InProgress \cup {a}
  BY <1>1, <1>2, AtInProgress DEF InProgress, LocalOK
<1>4. SyncOK'
  <2>1. alone' \in BOOLEAN /\ astray' \in BOOLEAN
    BY DEF Request, SyncSafe, SyncOK
  <2>2. holder # a
    BY <1>1, SyncAssumption DEF SyncSafe, SyncOK
  <2> QED
    BY <1>2, <2>1, <2>2 DEF SyncSafe, SyncOK, Request
<1>5. AloneInv'
  <2>1. alone' => InProgress' = {a}
    BY <1>3 DEF Request
  <2>2. ASSUME NEW b \in InProgress', Starts(b)' PROVE ~up' /\ alone'
    <3>1. CASE b = a
      BY <1>2, <2>2, <3>1 DEF Request, Starts
    <3>2. CASE b # a
      <4>1. b \in InProgress /\ Starts(b)
        BY <1>2, <1>3, <2>2, <3>2 DEF Starts, InProgress
      <4> QED
        BY <4>1 DEF SyncSafe, AloneInv, Request
    <3> QED
      BY <3>1, <3>2
  <2>3. ~astray' => alone'
    BY DEF Request
  <2> QED
    BY <2>1, <2>2, <2>3 DEF AloneInv
<1> QED
  BY <1>1, <1>4, <1>5 DEF SyncSafe

(* A command changes who is in progress only by ending its own request.    *)
LEMMA CommandProgress ==
  ASSUME LocalOK, NEW a \in Admin, StoreStep(a)
  PROVE  /\ a \in InProgress /\ InProgress' \subseteq InProgress
         /\ \A b \in InProgress \ {a} : b \in InProgress'
         /\ \A b \in InProgress' : request'[b] = request[b]
<1>1. at[a] \notin {"idle", "done"} /\ \A b \in Admin \ {a} : Untouched(b)
  BY StepsAlone
<1>2. a \in InProgress
  BY <1>1, AtInProgress
<1>3. request'[a] \in {request[a], NoRequest}
  BY DEF StoreStep, Peek, SetTelegram, ClearAll, CheckExists, Load, Save, SaveTelegram, SentAgain,
         RedisFails, Responds, local, LocalOK
<1> QED
  BY <1>1, <1>2, <1>3 DEF InProgress, Untouched

LEMMA CommandSync == ASSUME SyncSafe, NEW a \in Admin, Command(a) PROVE SyncSafe'
<1>1. StoreSafe' /\ LocalOK /\ StoreStep(a)
  BY StoreStepSafe DEF SyncSafe, StoreSafe, Command
<1>2. astray' \in BOOLEAN /\ (astray => astray') /\ UNCHANGED <<tracked, holder, active, up, alone>>
  BY DEF Command, SyncSafe, SyncOK
<1>3. SyncOK'
  <2>1. CASE holder = NoAdmin
    BY <1>2, <2>1 DEF SyncSafe, SyncOK
  <2>2. CASE holder # NoAdmin
    <3>1. PICK h \in Admin : holder = h /\ at[h] = "done" /\ Call(h) = "sync"
      BY <2>2 DEF SyncSafe, SyncOK
    <3>2. Untouched(h)
      BY <1>1, <3>1, StepsAlone
    <3>3. holder' = h /\ at'[h] = "done" /\ Call(h)' = "sync"
      BY <1>2, <3>1, <3>2, SameCall DEF Untouched
    <3> QED
      BY <1>2, <2>2, <3>1, <3>3 DEF SyncSafe, SyncOK, Call
  <2> QED
    BY <2>1, <2>2
<1>4. AloneInv'
  <2>1. InProgress' \subseteq InProgress /\ \A b \in InProgress' : Starts(b)' <=> Starts(b)
    BY <1>1, CommandProgress DEF Starts
  <2> QED
    BY <1>2, <2>1 DEF SyncSafe, AloneInv
<1> QED
  BY <1>1, <1>3, <1>4 DEF SyncSafe

LEMMA SyncReadsSafe == ASSUME SyncSafe, NEW a \in Admin, SyncReads(a) PROVE SyncSafe'
<1>1. UNCHANGED svars /\ UNCHANGED <<tracked, up, alone, astray>> /\ holder' = a
  BY DEF SyncReads
<1>2. StoreSafe'
  BY <1>1, SameSafe DEF SyncSafe
<1>3. Call(a)' = "sync" /\ at'[a] = "done"
  BY <1>1 DEF SyncReads, svars, local, Call
<1>4. active' \subseteq Channel
  BY SettingsChannels DEF SyncReads, SyncSafe, StoreSafe, SharedOK
<1>5. SyncOK'
  BY <1>1, <1>3, <1>4, SyncAssumption DEF SyncSafe, SyncOK, Call
<1>6. AloneInv'
  BY <1>1 DEF SyncSafe, AloneInv, InProgress, Starts, svars, local
<1> QED
  BY <1>2, <1>5, <1>6 DEF SyncSafe

LEMMA DiesSync == ASSUME SyncSafe, Dies PROVE SyncSafe'
<1>1. StoreSafe'
  BY CrashSafe DEF Dies, SyncSafe
<1>2. \A b \in Admin : request'[b] = NoRequest
  BY DEF Dies, Crash
<1>3. InProgress' = {}
  BY <1>2 DEF InProgress
<1>4. SyncOK' /\ AloneInv'
  BY <1>3 DEF SyncSafe, SyncOK, AloneInv, Dies
<1> QED
  BY <1>1, <1>4 DEF SyncSafe

LEMMA HolderSyncs ==
  ASSUME SyncSafe, NEW a \in Admin, holder = a PROVE at[a] = "done" /\ Call(a) = "sync"
BY SyncAssumption DEF SyncSafe, SyncOK

(* Every other step of a request is the response to it.                    *)
LEMMA CallsSync ==
  ASSUME SyncSafe, NEW a \in Admin,
         Started(a) \/ StartedFromConfig(a) \/ SyncApplies(a) \/ SyncFails(a) \/ OneCall(a)
  PROVE  SyncSafe' /\ Acknowledge(a) /\ UNCHANGED begun
<1>1. at[a] = "done" /\ LocalOK
  BY HolderSyncs DEF Started, StartedFromConfig, SyncApplies, SyncFails, OneCall,
                     SyncSafe, StoreSafe
<1>2. Acknowledge(a) /\ UNCHANGED <<store, history, begun>> /\ UNCHANGED alone
  BY <1>1 DEF Started, StartedFromConfig, SyncApplies, SyncFails, OneCall, Acknowledge
<1>3. Responds(a)
  BY <1>2 DEF Acknowledge
<1>4. CASE Started(a) \/ StartedFromConfig(a)
  <2>1. Starts(a) /\ request[a].file \in ConfigFile /\ holder # a
    BY <1>1, <1>4, CallFields, HolderSyncs DEF Started, StartedFromConfig
  <2>2. tracked' \subseteq Channel
    BY <1>4, <2>1, SettingsChannels, FileChannels
       DEF Started, StartedFromConfig, SyncSafe, StoreSafe, SharedOK
  <2>3. alone
    BY <1>1, <2>1, AtInProgress DEF SyncSafe, AloneInv
  <2>4. up' \in BOOLEAN /\ astray' \in BOOLEAN /\ UNCHANGED <<holder, active>>
    BY <1>4 DEF Started, StartedFromConfig
  <2> QED
    BY <1>1, <1>2, <1>3, <2>1, <2>2, <2>3, <2>4, AnswerSync
<1>5. CASE SyncApplies(a)
  <2>1. tracked' \subseteq Channel /\ up' = up /\ astray' \in BOOLEAN /\ (astray => astray' \/ alone)
    BY <1>5 DEF SyncApplies, SyncSafe, SyncOK
  <2>2. up' \in BOOLEAN /\ holder = a /\ holder' = NoAdmin /\ active' = {}
    BY <1>5, <2>1 DEF SyncApplies, SyncSafe, SyncOK
  <2> QED
    BY <1>1, <1>2, <1>3, <2>1, <2>2, AnswerSync
<1>6. CASE SyncFails(a)
  <2>1. holder # a /\ UNCHANGED <<tracked, holder, active, up>> /\ astray' = TRUE
    BY <1>6, SyncAssumption DEF SyncFails
  <2>2. tracked' \subseteq Channel /\ up' \in BOOLEAN
    BY <2>1 DEF SyncSafe, SyncOK
  <2> QED
    BY <1>1, <1>2, <1>3, <2>1, <2>2, AnswerSync
<1>7. CASE OneCall(a)
  <2>1. holder # a
    BY <1>7, HolderSyncs DEF OneCall
  <2>2. tracked' \subseteq Channel /\ UNCHANGED <<holder, active, up>>
    BY <1>7, TrackedAfterType DEF OneCall
  <2>3. up' \in BOOLEAN /\ astray' \in BOOLEAN /\ (astray => astray')
    BY <1>7, <2>2 DEF OneCall, SyncSafe, SyncOK, LeavesForOthers
  <2> QED
    BY <1>1, <1>2, <1>3, <2>1, <2>2, <2>3, AnswerSync
<1> QED
  BY <1>2, <1>4, <1>5, <1>6, <1>7

LEMMA SyncNextSafe == SyncSafe /\ [SyncNext]_syncvars => SyncSafe'
<1> SUFFICES ASSUME SyncSafe, [SyncNext]_syncvars PROVE SyncSafe' OBVIOUS
<1>1. CASE UNCHANGED syncvars
  <2>1. StoreSafe'
    BY <1>1, SameSafe DEF syncvars, SyncSafe
  <2>2. SyncOK' /\ AloneInv'
    BY <1>1 DEF syncvars, yvars, svars, local, SyncSafe, SyncOK, AloneInv, InProgress, Starts, Call
  <2> QED
    BY <2>1, <2>2 DEF SyncSafe
<1> QED
  BY <1>1, RequestSync, CommandSync, SyncReadsSafe, CallsSync, DiesSync DEF SyncNext

LEMMA SyncAlwaysSafe == SyncSpec => []SyncSafe
BY InitSyncSafe, SyncNextSafe, PTL DEF SyncSpec

(* SyncTypeOK is an invariant, however many requests are served at the     *)
(* same time: in particular, who holds the subscription manager's mutex is *)
(* a handler whose operation has succeeded, nobody releases it for         *)
(* another, and the web interface is not served before the start is over.  *)
THEOREM SyncTyped == SyncSpec => []SyncTypeOK
BY SyncAlwaysSafe, SafeSyncType, PTL

(* What handlers and start do to the subscriptions leaves the settings and *)
(* their requests as module SettingsStore has them: what holds there holds *)
(* in the instance.                                                        *)
THEOREM SyncIsStore == SyncSpec => StoreSpec
<1>1. SyncInit => StoreInit
  BY DEF SyncInit
<1>2. SyncSafe /\ [SyncNext]_syncvars => [StoreNext]_svars
  <2> SUFFICES ASSUME SyncSafe, [SyncNext]_syncvars PROVE [StoreNext]_svars OBVIOUS
  <2>1. ASSUME NEW a \in Admin, NEW r \in Requests, Request(a, r) PROVE StoreNext
    BY <2>1 DEF Request, StoreNext
  <2>2. ASSUME NEW a \in Admin, Command(a) PROVE StoreNext
    BY <2>2 DEF Command, StoreNext
  <2>3. ASSUME NEW a \in Admin, SyncReads(a) PROVE UNCHANGED svars
    BY <2>3 DEF SyncReads
  <2>4. ASSUME NEW a \in Admin,
               Started(a) \/ StartedFromConfig(a) \/ SyncApplies(a) \/ SyncFails(a) \/ OneCall(a)
        PROVE  StoreNext
    BY <2>4, CallsSync DEF StoreNext
  <2>5. Dies => StoreNext
    BY DEF Dies, StoreNext
  <2>6. UNCHANGED syncvars => UNCHANGED svars
    BY DEF syncvars
  <2> QED
    BY <2>1, <2>2, <2>3, <2>4, <2>5, <2>6 DEF SyncNext
<1> QED
  BY <1>1, <1>2, SyncAlwaysSafe, PTL DEF SyncSpec, StoreSpec

-----------------------------------------------------------------------------
(* Channels of a list of tokens *)

Has(token) == {token.address} \X token.streams
Asks(token) == Configured(token, {"unset", "on"})

(* What is subscribed is what is asked for, and more only of tokens there. *)
Fits(tokens, channels) ==
  /\ \A i \in DOMAIN tokens : Asks(tokens[i]) \subseteq channels
  /\ \A x \in channels : \E i \in DOMAIN tokens : x \in Has(tokens[i])

LEMMA FitsMeans ==
  ASSUME Fits(settings.tokens, tracked)
  PROVE  /\ ConfiguredChannels({"unset", "on"}) \subseteq tracked
         /\ tracked \subseteq Channels(settings.tokens)
BY DEF Fits, Asks, Has, ConfiguredChannels, Channels

LEMMA ChannelsFit == ASSUME NEW tokens PROVE Fits(tokens, Channels(tokens))
BY DEF Fits, Asks, Has, Configured, Channels

LEMMA AddedFits ==
  ASSUME NEW tokens \in Seq(TokenSettings), NEW new \in TokenSettings, ~new.notify,
         NEW channels, Fits(tokens, channels)
  PROVE  Fits(Append(tokens, new), channels)
<1> DEFINE n == Len(tokens)
           list == Append(tokens, new)
<1>1. n \in Nat /\ DOMAIN tokens = 1..n
  BY LenProperties
<1>2. /\ DOMAIN list = 1..(n + 1) /\ list[n + 1] = new
      /\ \A i \in 1..n : list[i] = tokens[i]
  BY <1>1, AppendProperties, LenProperties
<1> HIDE DEF list
<1>3. \A i \in 1..(n + 1) : i = n + 1 \/ i \in 1..n
  BY <1>1
<1>4. Asks(new) = {}
  BY DEF Asks, Configured
<1>5. \A i \in DOMAIN list : Asks(list[i]) \subseteq channels
  BY <1>1, <1>2, <1>3, <1>4 DEF Fits
<1>6. ASSUME NEW x \in channels PROVE \E i \in DOMAIN list : x \in Has(list[i])
  <2>1. PICK i \in 1..n : x \in Has(tokens[i])
    BY <1>1 DEF Fits
  <2>2. i \in DOMAIN list /\ list[i] = tokens[i]
    BY <1>1, <1>2, <2>1
  <2> QED
    BY <2>1, <2>2
<1>7. Fits(list, channels)
  BY <1>5, <1>6 DEF Fits
<1> QED
  BY <1>7 DEF list

(* Without the token at i and its channels. *)
LEMMA RemovedFits ==
  ASSUME NEW tokens \in Seq(TokenSettings), NEW i \in DOMAIN tokens,
         NEW channels, Fits(tokens, channels),
         \A j \in DOMAIN RemoveAt(tokens, i) :
           RemoveAt(tokens, i)[j].address # tokens[i].address
  PROVE  Fits(RemoveAt(tokens, i), channels \ TokenChannels(tokens[i]))
<1> DEFINE n == Len(tokens)
           list == RemoveAt(tokens, i)
           left == channels \ TokenChannels(tokens[i])
           From(j) == IF j < i THEN j ELSE j + 1
<1>1. n \in Nat /\ DOMAIN tokens = 1..n /\ i \in 1..n
  BY LenProperties
<1>2. /\ DOMAIN list = 1..(n - 1)
      /\ \A j \in 1..(n - 1) : list[j] = tokens[From(j)]
  BY Removed
<1>3. \A j \in DOMAIN list : list[j].address # tokens[i].address
  OBVIOUS
<1> HIDE DEF list
<1>4. ASSUME NEW j \in DOMAIN list PROVE Asks(list[j]) \subseteq left
  <2>1. From(j) \in DOMAIN tokens
    BY <1>1, <1>2
  <2>2. Asks(list[j]) \subseteq channels
    BY <1>2, <2>1 DEF Fits
  <2>3. \A x \in Asks(list[j]) : x \notin TokenChannels(tokens[i])
    BY <1>3 DEF Asks, Configured, TokenChannels
  <2> QED
    BY <2>2, <2>3
<1>5. ASSUME NEW x \in left PROVE \E j \in DOMAIN list : x \in Has(list[j])
  <2>1. PICK k \in DOMAIN tokens : x \in Has(tokens[k])
    BY DEF Fits
  <2>2. tokens[i].streams \subseteq Stream
    <3>1. tokens[i] \in TokenSettings
      BY <1>1, ElementOfSeq
    <3> QED
      BY <3>1 DEF TokenSettings
  <2>3. k # i
    BY <2>1, <2>2 DEF Has, TokenChannels
  <2>4. CASE k < i
    <3>1. k \in DOMAIN list /\ list[k] = tokens[k]
      BY <1>1, <1>2, <2>4
    <3> QED
      BY <2>1, <3>1
  <2>5. CASE ~(k < i)
    <3>1. k - 1 \in DOMAIN list /\ ~(k - 1 < i) /\ k - 1 + 1 = k
      BY <1>1, <1>2, <2>3, <2>5
    <3>2. list[k - 1] = tokens[k]
      BY <1>2, <3>1
    <3> QED
      BY <2>1, <3>1, <3>2
  <2> QED
    BY <2>4, <2>5
<1>6. Fits(list, left)
  BY <1>4, <1>5 DEF Fits
<1> QED
  BY <1>6 DEF list

(* With another token at i, of the same channels.                          *)
LEMMA ReplacedFits ==
  ASSUME NEW tokens \in Seq(TokenSettings), NEW i \in DOMAIN tokens,
         NEW new \in TokenSettings, Has(new) = Has(tokens[i]),
         NEW channels, Fits(tokens, channels),
         NEW after, Asks(new) \subseteq after,
         \A j \in DOMAIN tokens \ {i} : Asks(tokens[j]) \subseteq after,
         after \subseteq channels \cup Has(new)
  PROVE  Fits([tokens EXCEPT ![i] = new], after)
<1> DEFINE list == [tokens EXCEPT ![i] = new]
<1>1. /\ DOMAIN list = DOMAIN tokens
      /\ \A j \in DOMAIN tokens : list[j] = IF j = i THEN new ELSE tokens[j]
  BY Replaced
<1> HIDE DEF list
<1>2. \A j \in DOMAIN list : Asks(list[j]) \subseteq after
  BY <1>1
<1>3. ASSUME NEW x \in after PROVE \E j \in DOMAIN list : x \in Has(list[j])
  <2>1. PICK j \in DOMAIN tokens : x \in Has(tokens[j])
    BY DEF Fits
  <2>2. Has(list[j]) = Has(tokens[j])
    BY <1>1
  <2> QED
    BY <1>1, <2>1, <2>2
<1>4. Fits(list, after)
  BY <1>2, <1>3 DEF Fits
<1> QED
  BY <1>4 DEF list

(* A list with the same ids has the first one of each at the same place.   *)
LEMMA SameIndex ==
  ASSUME NEW tokens \in Seq(TokenSettings), NEW t, Exists(t, tokens),
         NEW new \in TokenSettings, new.id = t
  PROVE  IndexOf(t, [tokens EXCEPT ![IndexOf(t, tokens)] = new]) = IndexOf(t, tokens)
<1> DEFINE i == IndexOf(t, tokens)
           list == [tokens EXCEPT ![i] = new]
<1>1. /\ i \in DOMAIN tokens /\ tokens[i].id = t
      /\ \A j \in DOMAIN tokens : tokens[j].id = t => i <= j
  BY FirstIndex
<1> HIDE DEF i
<1>2. /\ list \in Seq(TokenSettings) /\ DOMAIN list = DOMAIN tokens
      /\ \A j \in DOMAIN tokens : list[j].id = tokens[j].id
  BY <1>1, Replaced
<1> HIDE DEF list
<1>3. Exists(t, list)
  BY <1>1, <1>2 DEF Exists
<1> DEFINE k == IndexOf(t, list)
<1>4. /\ k \in DOMAIN list /\ list[k].id = t
      /\ \A j \in DOMAIN list : list[j].id = t => k <= j
  BY <1>2, <1>3, FirstIndex
<1> HIDE DEF k
<1>5. DOMAIN tokens \subseteq Nat
  BY LenProperties
<1>6. k <= i /\ i <= k
  BY <1>1, <1>2, <1>4
<1>7. k = i
  BY <1>1, <1>2, <1>4, <1>5, <1>6
<1> QED
  BY <1>7 DEF k, list, i

-----------------------------------------------------------------------------
(* What a request leaves to its call *)

(* Once the call is made with these tokens, the subscriptions fit them.    *)
LeavesOthers(a, tokens) ==
  /\ Call(a) \in {"leaveToken", "leave"}
  /\ \E j \in DOMAIN tokens :
       /\ tokens[j].address = copy[a].address
       /\ request[a].op = "delete" \/ j # IndexOf(request[a].id, tokens)

AfterCall(a, tokens) ==
  \/ Call(a) = "sync" \/ request[a].op = "streams" \/ LeavesOthers(a, tokens)
  \/ Fits(tokens, TrackedAfter(a))

LEMMA SwitchedOff ==
  ASSUME NEW tokens \in Seq(TokenSettings), NEW t, Exists(t, tokens), Fits(tokens, tracked),
         NEW a \in Admin, request[a].op = "notify", request[a].id = t, ~request[a].enabled,
         copy[a] = GetToken(t, tokens)
  PROVE  AfterCall(a, [tokens EXCEPT ![IndexOf(t, tokens)] =
                         [tokens[IndexOf(t, tokens)] EXCEPT !.notify = FALSE]])
<1> DEFINE i == IndexOf(t, tokens)
           new == [tokens[i] EXCEPT !.notify = FALSE]
           list == [tokens EXCEPT ![i] = new]
           after == tracked \ TokenChannels(copy[a])
<1>1. i \in DOMAIN tokens /\ tokens[i] \in TokenSettings /\ tokens[i].id = t /\ copy[a] = tokens[i]
  BY FirstIndex
<1>2. Call(a) = "leaveToken" /\ TrackedAfter(a) = after
  BY DEF Call, TrackedAfter, StartOps
<1>3. /\ new \in TokenSettings /\ new.id = t /\ Has(new) = Has(tokens[i])
      /\ new.address = tokens[i].address /\ Asks(new) = {}
  BY <1>1 DEF TokenSettings, Has, Asks, Configured
<1>4. IndexOf(t, list) = i
  BY <1>3, SameIndex
<1> HIDE DEF new
<1>5. /\ DOMAIN list = DOMAIN tokens
      /\ \A j \in DOMAIN tokens : list[j] = IF j = i THEN new ELSE tokens[j]
  BY <1>1, <1>3, Replaced
<1> HIDE DEF i
<1>6. ASSUME ~LeavesOthers(a, list) PROVE Fits(list, after)
  <2>1. \A j \in DOMAIN tokens \ {i} : tokens[j].address # copy[a].address
    BY <1>2, <1>4, <1>5, <1>6 DEF LeavesOthers
  <2>2. ASSUME NEW j \in DOMAIN tokens \ {i} PROVE Asks(tokens[j]) \subseteq after
    <3>1. Asks(tokens[j]) \subseteq tracked
      BY DEF Fits
    <3>2. \A x \in Asks(tokens[j]) : x \notin TokenChannels(copy[a])
      BY <2>1 DEF Asks, Configured, TokenChannels
    <3> QED
      BY <3>1, <3>2
  <2>3. after \subseteq tracked \cup Has(new)
    OBVIOUS
  <2> HIDE DEF after
  <2> QED
    BY <1>1, <1>3, <2>2, <2>3, ReplacedFits
<1> QED
  BY <1>2, <1>6 DEF AfterCall, new, i

(* The token whose stream s gets the configuration c.                      *)
LEMMA ConfigFields ==
  ASSUME NEW token \in TokenSettings, NEW s \in Stream, NEW c \in Config
  PROVE  LET new == [token EXCEPT !.config[s] = c] IN
         /\ new \in TokenSettings /\ new.id = token.id /\ new.address = token.address
         /\ new.streams = token.streams /\ new.notify = token.notify
         /\ \A u \in Stream : new.config[u] = IF u = s THEN c ELSE token.config[u]
BY DEF TokenSettings

LEMMA StreamToggled ==
  ASSUME NEW tokens \in Seq(TokenSettings), NEW t, Exists(t, tokens), Fits(tokens, tracked),
         NEW a \in Admin, request[a].op = "stream", request[a].id = t,
         NEW s \in Stream, request[a].stream = s, request[a].enabled \in BOOLEAN,
         copy[a] = GetToken(t, tokens), s \in copy[a].streams,
         NEW new \in TokenSettings, new.id = t, new.address = copy[a].address,
         new.streams = copy[a].streams, new.notify = copy[a].notify,
         \A u \in Stream : new.config[u] =
           IF u = s THEN IF request[a].enabled THEN "on" ELSE "off" ELSE copy[a].config[u]
  PROVE  AfterCall(a, [tokens EXCEPT ![IndexOf(t, tokens)] = new])
<1> DEFINE i == IndexOf(t, tokens)
           list == [tokens EXCEPT ![i] = new]
           x == <<copy[a].address, s>>
<1>1. i \in DOMAIN tokens /\ tokens[i] \in TokenSettings /\ tokens[i].id = t /\ copy[a] = tokens[i]
  BY FirstIndex
<1>2. /\ new.address = tokens[i].address
      /\ new.streams = tokens[i].streams /\ new.notify = tokens[i].notify
      /\ \A u \in Stream : new.config[u] =
           IF u = s THEN IF request[a].enabled THEN "on" ELSE "off" ELSE tokens[i].config[u]
  BY <1>1
<1>3. Has(new) = Has(tokens[i]) /\ x \in Has(new)
  BY <1>1, <1>2 DEF Has
<1>4. IndexOf(t, list) = i
  BY <1>2, SameIndex
<1>5. /\ DOMAIN list = DOMAIN tokens
      /\ \A j \in DOMAIN tokens : list[j] = IF j = i THEN new ELSE tokens[j]
  BY <1>1, <1>2, Replaced
<1>6. tokens[i].streams \subseteq Stream
  BY <1>1 DEF TokenSettings
<1>7. \A j \in DOMAIN tokens : Asks(tokens[j]) \subseteq tracked
  BY DEF Fits
<1> HIDE DEF i
<1>8. CASE request[a].enabled
  <2>1. Call(a) = "join" /\ TrackedAfter(a) = tracked \cup {x}
    BY <1>8 DEF Call, TrackedAfter, StartOps
  <2>2. Asks(new) \subseteq Asks(tokens[i]) \cup {x}
    BY <1>1, <1>2, <1>6 DEF Asks, Configured
  <2>3. Fits(list, tracked \cup {x})
    <3>1. Asks(new) \subseteq tracked \cup {x}
      BY <1>1, <1>7, <2>2
    <3>2. \A j \in DOMAIN tokens \ {i} : Asks(tokens[j]) \subseteq tracked \cup {x}
      BY <1>7
    <3>3. tracked \cup {x} \subseteq tracked \cup Has(new)
      BY <1>3
    <3> QED
      BY <1>1, <1>2, <1>3, <3>1, <3>2, <3>3, ReplacedFits
  <2> QED
    BY <2>1, <2>3 DEF AfterCall, i
<1>9. CASE ~request[a].enabled
  <2>1. Call(a) = "leave" /\ TrackedAfter(a) = tracked \ {x}
    BY <1>9 DEF Call, TrackedAfter, StartOps
  <2>2. Asks(new) \subseteq Asks(tokens[i]) \ {x}
    BY <1>1, <1>2, <1>6, <1>9 DEF Asks, Configured
  <2>3. ASSUME ~LeavesOthers(a, list) PROVE Fits(list, tracked \ {x})
    <3>1. \A j \in DOMAIN tokens \ {i} : tokens[j].address # copy[a].address
      BY <1>4, <1>5, <2>1, <2>3 DEF LeavesOthers
    <3>2. ASSUME NEW j \in DOMAIN tokens \ {i} PROVE Asks(tokens[j]) \subseteq tracked \ {x}
      <4>1. x \notin Asks(tokens[j])
        BY <3>1 DEF Asks, Configured
      <4> QED
        BY <1>7, <4>1
    <3>3. Asks(new) \subseteq tracked \ {x}
      BY <1>1, <1>7, <2>2
    <3>4. tracked \ {x} \subseteq tracked \cup Has(new)
      OBVIOUS
    <3> QED
      BY <1>1, <1>2, <1>3, <3>2, <3>3, <3>4, ReplacedFits
  <2> QED
    BY <2>1, <2>3 DEF AfterCall, i
<1> QED
  BY <1>8, <1>9

LEMMA Reconfigured ==
  ASSUME NEW tokens \in Seq(TokenSettings), NEW i \in DOMAIN tokens, Fits(tokens, tracked),
         NEW s \in Stream, NEW new, new = [tokens[i] EXCEPT !.config[s] = "own"]
  PROVE  Fits([tokens EXCEPT ![i] = new], tracked)
<1>1. tokens[i] \in TokenSettings /\ "own" \in Config
  BY ElementOfSeq, LenProperties DEF Config
<1>2. /\ new \in TokenSettings /\ new.address = tokens[i].address
      /\ new.streams = tokens[i].streams /\ new.notify = tokens[i].notify
      /\ \A u \in Stream : new.config[u] = IF u = s THEN "own" ELSE tokens[i].config[u]
  BY <1>1, ConfigFields
<1>3. Has(new) = Has(tokens[i])
  BY <1>2 DEF Has
<1>4. Asks(new) \subseteq Asks(tokens[i])
  <2>1. tokens[i].streams \subseteq Stream
    BY <1>1 DEF TokenSettings
  <2> QED
    BY <1>2, <2>1 DEF Asks, Configured
<1>5. \A j \in DOMAIN tokens : Asks(tokens[j]) \subseteq tracked
  BY DEF Fits
<1>6. Asks(new) \subseteq tracked /\ tracked \subseteq tracked \cup Has(new)
  BY <1>4, <1>5
<1> QED
  BY <1>2, <1>3, <1>5, <1>6, ReplacedFits

(* The settings that a request which runs alone is going to write fit the  *)
(* subscriptions once its handler has made its call.                       *)
LEMMA LoadedFits ==
  ASSUME NEW a \in Admin, NEW r \in Requests, request[a] = r, r.op \notin StartOps,
         NEW s \in Settings, ~Refused(r, s.tokens), Fits(s.tokens, tracked),
         r.op \in Peeking => copy[a] = GetToken(r.id, s.tokens)
  PROVE  AfterCall(a, Changed(r, copy[a], s).tokens)
<1> DEFINE tokens == s.tokens
           i == IndexOf(r.id, tokens)
           list == Changed(r, copy[a], s).tokens
<1>1. tokens \in Seq(TokenSettings)
  BY DEF Settings
<1>2. r.op \in AllOps
  BY RequestFields
<1>3. CASE r.op = "telegram"
  <2>1. list = tokens
    BY <1>3 DEF Changed, Settings
  <2>2. Call(a) = "none" /\ TrackedAfter(a) = tracked
    BY <1>3 DEF Call, TrackedAfter, StartOps
  <2> QED
    BY <2>1, <2>2 DEF AfterCall
<1>4. CASE r.op \in {"update", "streams"} \/ (r.op \in {"add"} /\ r.form.notify)
           \/ (r.op = "notify" /\ r.enabled)
  <2>1. Call(a) = "sync" \/ r.op = "streams"
    BY <1>4 DEF Call
  <2> QED
    BY <2>1 DEF AfterCall
<1>5. ASSUME r.op \in {"add", "delete", "notify", "stream", "config"}
      PROVE  /\ list = ChangedTokens(r, copy[a], tokens)
             /\ r.op = "config" => copy[a] \in TokenSettings
             /\ r.op \notin {"telegram"} \cup StartOps
  <2>1. list = ChangedTokens(r, copy[a], tokens)
    BY <1>5 DEF Changed, Settings
  <2>2. r.op = "config" => Exists(r.id, tokens)
    BY DEF Refused, StartOps
  <2>3. r.op = "config" => copy[a] \in TokenSettings
    BY <1>1, <2>2, FirstIndex DEF Peeking
  <2> QED
    BY <1>5, <2>1, <2>3
<1>6. CASE r.op = "add" /\ ~r.form.notify
  <2> DEFINE new == ToTokenSettings(r.id, r.form)
  <2>1. list = Append(tokens, new) /\ new \in TokenSettings
    BY <1>1, <1>5, <1>6, ChangedList
  <2>2. ~new.notify
    BY <1>6 DEF ToTokenSettings
  <2> HIDE DEF new
  <2>3. Fits(list, tracked)
    BY <1>1, <2>1, <2>2, AddedFits
  <2>4. Call(a) = "none" /\ TrackedAfter(a) = tracked
    BY <1>6 DEF Call, TrackedAfter, StartOps
  <2> QED
    BY <2>3, <2>4 DEF AfterCall
<1>7. ASSUME r.op \in {"delete", "notify", "stream", "config"}
      PROVE  /\ i \in DOMAIN tokens /\ tokens[i] \in TokenSettings /\ copy[a] = tokens[i]
             /\ Exists(r.id, tokens) /\ copy[a] = GetToken(r.id, tokens) /\ copy[a] # NoToken
  <2>1. Exists(r.id, tokens)
    BY <1>7 DEF Refused, StartOps
  <2> QED
    BY <1>1, <1>7, <2>1, FirstIndex, NullsAssumption DEF Peeking
<1>8. CASE r.op = "delete"
  <2>1. list = RemoveAt(tokens, i)
    BY <1>1, <1>5, <1>8, ChangedList
  <2>2. Call(a) = "leaveToken" /\ TrackedAfter(a) = tracked \ TokenChannels(tokens[i])
    BY <1>7, <1>8 DEF Call, TrackedAfter, StartOps
  <2>3. i \in DOMAIN tokens /\ copy[a] = tokens[i]
    BY <1>7, <1>8
  <2> HIDE DEF i
  <2>4. ASSUME ~LeavesOthers(a, list) PROVE Fits(list, TrackedAfter(a))
    <3>1. \A j \in DOMAIN list : list[j].address # tokens[i].address
      BY <1>8, <2>2, <2>3, <2>4 DEF LeavesOthers
    <3> QED
      BY <1>1, <2>1, <2>2, <2>3, <3>1, RemovedFits
  <2> QED
    BY <2>4 DEF AfterCall
<1>9. ASSUME r.op \in {"notify", "stream", "config"}
      PROVE  list = [tokens EXCEPT ![i] = NewToken(r, copy[a], tokens[i])]
  <2>1. list = ChangedTokens(r, copy[a], tokens)
    BY <1>5, <1>9
  <2> HIDE DEF list
  <2> QED
    BY <1>9, <2>1 DEF ChangedTokens
<1>10. CASE r.op = "notify" /\ ~r.enabled
  <2>1. r.enabled = FALSE
    BY <1>10, RequestFields
  <2>2. NewToken(r, copy[a], tokens[i]) = [tokens[i] EXCEPT !.notify = FALSE]
    BY <1>10, <2>1 DEF NewToken
  <2>3. list = [tokens EXCEPT ![i] = [tokens[i] EXCEPT !.notify = FALSE]]
    BY <1>9, <1>10, <2>2
  <2>4. Exists(r.id, tokens) /\ copy[a] = GetToken(r.id, tokens)
    BY <1>7, <1>10
  <2> HIDE DEF list
  <2>5. AfterCall(a, [tokens EXCEPT ![i] = [tokens[i] EXCEPT !.notify = FALSE]])
    BY <1>1, <1>10, <2>4, SwitchedOff
  <2> QED
    BY <2>3, <2>5 DEF list
<1>11. CASE r.op = "stream"
  <2> DEFINE value == IF r.enabled THEN "on" ELSE "off"
             new == NewToken(r, copy[a], tokens[i])
  <2>1. new = [tokens[i] EXCEPT !.config[r.stream] = value]
    BY <1>11 DEF NewToken
  <2>2. r.stream \in Stream /\ r.enabled \in BOOLEAN /\ value \in Config
    BY <1>11, RequestFields DEF Config, Toggle
  <2>3. Exists(r.id, tokens) /\ copy[a] = GetToken(r.id, tokens) /\ copy[a] = tokens[i]
        /\ tokens[i] \in TokenSettings /\ tokens[i].id = r.id
    BY <1>1, <1>7, <1>11, FirstIndex
  <2>4. r.stream \in copy[a].streams
    BY <1>11, <2>3 DEF Refused, StartOps
  <2>5. list = [tokens EXCEPT ![i] = new]
    BY <1>9, <1>11
  <2> HIDE DEF value, new, list
  <2>6. /\ new \in TokenSettings /\ new.id = r.id /\ new.address = copy[a].address
        /\ new.streams = copy[a].streams /\ new.notify = copy[a].notify
        /\ \A u \in Stream : new.config[u] = IF u = r.stream THEN value ELSE copy[a].config[u]
    BY <2>1, <2>2, <2>3, ConfigFields
  <2>7. AfterCall(a, [tokens EXCEPT ![i] = new])
    <3> HIDE DEF tokens
    <3>1. Fits(tokens, tracked)
      BY DEF tokens
    <3>2. \A u \in Stream : new.config[u] =
            IF u = r.stream THEN IF request[a].enabled THEN "on" ELSE "off" ELSE copy[a].config[u]
      BY <2>6 DEF value
    <3>3. request[a].op = "stream" /\ request[a].id = r.id /\ request[a].stream = r.stream
          /\ request[a].enabled \in BOOLEAN
      BY <1>11, <2>2
    <3> QED
      BY ONLY <1>1, <2>2, <2>3, <2>4, <2>6, <3>1, <3>2, <3>3, StreamToggled, a \in Admin
  <2> QED
    BY <2>5, <2>7 DEF list
<1>12. CASE r.op = "config"
  <2> DEFINE new == NewToken(r, copy[a], tokens[i])
  <2>1. i \in DOMAIN tokens /\ copy[a] = tokens[i]
    BY <1>7, <1>12
  <2>2. new = [tokens[i] EXCEPT !.config[r.stream] = "own"]
    BY <1>12, <2>1 DEF NewToken
  <2>3. r.stream \in Stream
    BY <1>12, RequestFields
  <2>4. list = [tokens EXCEPT ![i] = new]
    BY <1>9, <1>12
  <2> HIDE DEF new, list, i
  <2>5. Fits([tokens EXCEPT ![i] = new], tracked)
    BY <1>1, <2>1, <2>2, <2>3, Reconfigured
  <2>6. Call(a) = "none" /\ TrackedAfter(a) = tracked
    BY <1>12 DEF Call, TrackedAfter, StartOps
  <2>7. Fits(list, tracked)
    BY <2>4, <2>5
  <2>8. AfterCall(a, list)
    BY <2>6, <2>7 DEF AfterCall
  <2> QED
    BY <2>8 DEF list
<1> QED
  BY <1>2, <1>3, <1>4, <1>6, <1>8, <1>10, <1>11, <1>12, RequestFields DEF AllOps, StartOps

-----------------------------------------------------------------------------
(* Subscriptions that fit the settings *)

(* While a request runs alone: until its write the subscriptions fit, from *)
(* the reading of the settings on they do once its call is made.           *)
FitsAt(a) ==
  /\ at[a] \in {"peek", "telegramFirst", "load"} => Fits(settings.tokens, tracked)
  /\ at[a] = "load" /\ request[a].op \in Peeking =>
       copy[a] = GetToken(request[a].id, settings.tokens)
  /\ at[a] = "save" => AfterCall(a, mine[a].tokens)
  /\ at[a] \in {"saveTelegram", "done"} => AfterCall(a, settings.tokens)

FitInv ==
  up /\ ~astray =>
    /\ InProgress = {} => Fits(settings.tokens, tracked)
    /\ \A a \in InProgress : FitsAt(a)

(* What SyncSubscriptions has read is still what is stored. *)
ActiveInv == holder # NoAdmin /\ alone => active = Channels(settings.tokens)

SyncInv == SyncSafe /\ FitInv /\ ActiveInv

LEMMA SameAfter ==
  ASSUME NEW a \in Admin, request'[a] = request[a], copy'[a] = copy[a], tracked' = tracked
  PROVE  /\ mine'[a] = mine[a] /\ AfterCall(a, mine[a].tokens) => AfterCall(a, mine[a].tokens)'
         /\ settings' = settings /\ AfterCall(a, settings.tokens) => AfterCall(a, settings.tokens)'
         /\ settings' = mine[a] /\ AfterCall(a, mine[a].tokens) => AfterCall(a, settings.tokens)'
         /\ \A list : mine'[a].tokens = list /\ AfterCall(a, list) => AfterCall(a, mine[a].tokens)'
<1>1. Call(a)' = Call(a)
  BY SameCall
<1>2. TrackedAfter(a)' = TrackedAfter(a)
  BY <1>1 DEF TrackedAfter
<1> QED
  BY <1>1, <1>2 DEF AfterCall, LeavesOthers

(* The last request is answered. *)
LEMMA AnswerFits ==
  ASSUME SyncSafe, NEW a \in Admin, alone, a \in InProgress, Responds(a),
         up' /\ ~astray' => Fits(settings'.tokens, tracked')
  PROVE  FitInv'
<1>1. \A b \in Admin : request'[b] = NoRequest
  BY DEF SyncSafe, StoreSafe, LocalOK, AloneInv, InProgress, Responds
<1>2. InProgress' = {}
  BY <1>1 DEF InProgress
<1> QED
  BY <1>2 DEF FitInv

(* The only request there is goes on. *)
LEMMA OnlyFits ==
  ASSUME SyncSafe, NEW a \in Admin, alone, a \in InProgress, InProgress' \subseteq InProgress,
         a \in InProgress', up' /\ ~astray' => FitsAt(a)'
  PROVE  FitInv'
<1>1. InProgress' = {a}
  BY DEF SyncSafe, AloneInv
<1> QED
  BY <1>1 DEF FitInv

LEMMA RequestFits ==
  ASSUME SyncInv, NEW a \in Admin, NEW r \in Requests, Request(a, r) PROVE FitInv'
<1> SUFFICES ASSUME up', ~astray' PROVE InProgress' # {} /\ \A b \in InProgress' : FitsAt(b)'
  BY DEF FitInv
<1> USE DEF SyncInv, SyncSafe, StoreSafe, LocalOK
<1>1. up /\ ~astray /\ InProgress = {} /\ r.op \notin StartOps
  BY DEF Request
<1>2. Fits(settings'.tokens, tracked')
  BY <1>1 DEF FitInv, Request, Begin, store
<1>3. request'[a] = r /\ at'[a] = FirstStep(r.op)
  BY DEF Request, Begin, Goes
<1>4. InProgress' = {a}
  BY <1>1, <1>3, NullsAssumption DEF InProgress, Request, Begin
<1>5. /\ at'[a] \in {"peek", "telegramFirst", "load"}
      /\ at'[a] = "load" => request'[a].op \notin Peeking
  BY <1>1, <1>3 DEF FirstStep, StartOps, Peeking
<1>6. FitsAt(a)'
  BY <1>2, <1>5 DEF FitsAt
<1> QED
  BY <1>4, <1>6

LEMMA CommandFits ==
  ASSUME SyncInv, NEW a \in Admin, Command(a) PROVE FitInv'
<1> SUFFICES ASSUME up', ~astray' PROVE FitInv'
  BY DEF FitInv
<1>1. /\ up /\ ~astray /\ StoreStep(a)
      /\ UNCHANGED <<tracked, holder, active, up, alone>>
  BY DEF Command
<1>2. StoreSafe /\ LocalOK /\ SyncSafe
  BY DEF SyncInv, SyncSafe, StoreSafe
<1>3. /\ a \in InProgress /\ InProgress' \subseteq InProgress
      /\ a \in InProgress' => request'[a] = request[a]
  BY <1>1, <1>2, CommandProgress
<1>4. alone /\ FitsAt(a) /\ request[a].op \notin StartOps
  BY <1>1, <1>3 DEF SyncInv, FitInv, SyncSafe, AloneInv, Starts
<1>5. at[a] \notin {"clear", "exists"}
  BY <1>2, <1>4 DEF LocalOK, StepFits, StartOps
<1>6. ASSUME Responds(a), Fits(settings'.tokens, tracked) PROVE FitInv'
  BY <1>1, <1>2, <1>3, <1>4, <1>6, AnswerFits
<1>7. ASSUME UNCHANGED request, FitsAt(a)' PROVE FitInv'
  <2>1. a \in InProgress'
    BY <1>3, <1>7 DEF InProgress
  <2> QED
    BY <1>2, <1>3, <1>4, <1>7, <2>1, OnlyFits
<1>8. CASE Peek(a)
  <2>1. at[a] = "peek" /\ UNCHANGED settings /\ Fits(settings'.tokens, tracked)
    BY <1>4, <1>8 DEF Peek, store, FitsAt
  <2>2. CASE Responds(a)
    BY <1>6, <2>1, <2>2
  <2>3. CASE ~Responds(a)
    <3>1. /\ copy' = [copy EXCEPT ![a] = GetToken(request[a].id, settings.tokens)]
          /\ Goes(a, "load") /\ UNCHANGED request
      BY <1>8, <2>3 DEF Peek
    <3>2. at'[a] = "load" /\ copy'[a] = GetToken(request[a].id, settings.tokens)
      BY <1>2, <3>1 DEF LocalOK, Goes
    <3>3. FitsAt(a)'
      BY <1>1, <2>1, <3>1, <3>2 DEF FitsAt
    <3> QED
      BY <1>7, <3>1, <3>3
  <2> QED
    BY <2>2, <2>3
<1>9. CASE SetTelegram(a)
  <2>1. UNCHANGED <<request, settings>> /\ at[a] = "telegramFirst" /\ at'[a] = "load"
    BY <1>2, <1>9 DEF SetTelegram, Goes, LocalOK
  <2>2. request[a].op \notin Peeking
    BY <1>2, <2>1 DEF LocalOK, StepFits, Peeking
  <2>3. FitsAt(a)'
    BY <1>1, <1>4, <2>1, <2>2 DEF FitsAt
  <2> QED
    BY <1>7, <2>1, <2>3
<1>10. CASE Load(a)
  <2>1. at[a] = "load" /\ UNCHANGED settings /\ Fits(settings.tokens, tracked)
    BY <1>4, <1>10 DEF Load, store, FitsAt
  <2>2. CASE Refused(request[a], settings.tokens)
    <3>1. Responds(a)
      BY <1>10, <2>2 DEF Load
    <3> QED
      BY <1>6, <2>1, <3>1
  <2>3. CASE ~Refused(request[a], settings.tokens)
    <3>1. /\ request[a] \in Requests /\ settings \in Settings
          /\ mine' = [mine EXCEPT ![a] = Changed(request[a], copy[a], settings)]
      BY <1>2, <1>10, <2>3, LoadedSettings
    <3>2. request[a].op \in Peeking => copy[a] = GetToken(request[a].id, settings.tokens)
      BY <1>4, <2>1 DEF FitsAt
    <3>3. AfterCall(a, Changed(request[a], copy[a], settings).tokens)
      BY <1>4, <2>1, <2>3, <3>1, <3>2, LoadedFits
    <3>4. UNCHANGED <<request, copy>> /\ at'[a] = "save"
      BY <1>2, <1>10, <2>3 DEF Load, Goes, LocalOK
    <3>5. mine'[a].tokens = Changed(request[a], copy[a], settings).tokens
      BY <1>2, <3>1 DEF LocalOK
    <3>6. AfterCall(a, mine[a].tokens)'
      BY <1>1, <3>3, <3>4, <3>5, SameAfter
    <3>7. FitsAt(a)'
      BY <3>4, <3>6 DEF FitsAt
    <3> QED
      BY <1>7, <3>4, <3>7
  <2> QED
    BY <2>2, <2>3
<1>11. CASE Save(a)
  <2>1. /\ at[a] = "save" /\ at'[a] = "saveTelegram" /\ settings' = mine[a]
        /\ UNCHANGED <<request, copy>>
    BY <1>2, <1>11 DEF Save, Goes, LocalOK
  <2>2. AfterCall(a, settings.tokens)'
    BY <1>1, <1>4, <2>1, SameAfter DEF FitsAt
  <2>3. FitsAt(a)'
    BY <2>1, <2>2 DEF FitsAt
  <2> QED
    BY <1>7, <2>1, <2>3
<1>12. CASE SaveTelegram(a)
  <2>1. /\ at[a] = "saveTelegram" /\ at'[a] = "done"
        /\ UNCHANGED <<request, copy, settings>>
    BY <1>2, <1>12 DEF SaveTelegram, Goes, LocalOK
  <2>2. AfterCall(a, settings.tokens)'
    BY <1>1, <1>4, <2>1, SameAfter DEF FitsAt
  <2>3. FitsAt(a)'
    BY <2>1, <2>2 DEF FitsAt
  <2> QED
    BY <1>7, <2>1, <2>3
<1>13. CASE SentAgain(a)
  <2>1. UNCHANGED <<at, request, copy, mine>>
    BY <1>13 DEF SentAgain, local
  <2>2. CASE at[a] = "save"
    <3>1. AfterCall(a, mine[a].tokens)'
      BY <1>1, <1>4, <2>1, <2>2, SameAfter DEF FitsAt
    <3>2. FitsAt(a)'
      BY <2>1, <2>2, <3>1 DEF FitsAt
    <3> QED
      BY <1>7, <2>1, <3>2
  <2>3. CASE at[a] \in {"telegramFirst", "saveTelegram"}
    <3>1. UNCHANGED settings
      BY <1>13, <2>3 DEF SentAgain, Applied
    <3>2. at[a] = "saveTelegram" => AfterCall(a, settings.tokens)'
      BY <1>1, <1>4, <2>1, <3>1, SameAfter DEF FitsAt
    <3>3. FitsAt(a)'
      BY <1>1, <1>4, <2>1, <2>3, <3>1, <3>2 DEF FitsAt
    <3> QED
      BY <1>7, <2>1, <3>3
  <2> QED
    BY <1>5, <1>13, <2>2, <2>3 DEF SentAgain
<1>14. CASE RedisFails(a)
  <2>1. at[a] \in {"peek", "telegramFirst", "load"} /\ GoesOnTo(a) # "load"
    BY <1>1, <1>5, <1>14 DEF Command, RedisFails
  <2>2. GoesOnTo(a) = "idle"
    BY <2>1 DEF GoesOnTo
  <2>3. Responds(a)
    BY <1>14, <2>2 DEF RedisFails
  <2>4. settings' = settings
    BY <1>14, <2>1 DEF RedisFails, Applied, store
  <2>5. Fits(settings'.tokens, tracked)
    BY <1>4, <2>1, <2>4 DEF FitsAt
  <2> QED
    BY <1>6, <2>3, <2>5
<1> QED
  BY <1>1, <1>5, <1>8, <1>9, <1>10, <1>11, <1>12, <1>13, <1>14
     DEF StoreStep, ClearAll, CheckExists

LEMMA CallsFit ==
  ASSUME SyncInv, NEW a \in Admin,
         Started(a) \/ StartedFromConfig(a) \/ SyncApplies(a) \/ SyncFails(a) \/ OneCall(a)
  PROVE  FitInv'
<1> SUFFICES ASSUME up', ~astray' PROVE FitInv'
  BY DEF FitInv
<1>1. LocalOK /\ SyncSafe /\ at[a] = "done" /\ a \in InProgress /\ Responds(a)
  <2>1. LocalOK /\ SyncSafe
    BY DEF SyncInv, SyncSafe, StoreSafe
  <2>2. Acknowledge(a)
    BY <2>1, CallsSync
  <2> QED
    BY <2>1, <2>2, AtInProgress DEF Acknowledge
<1>2. ASSUME alone, Fits(settings'.tokens, tracked') PROVE FitInv'
  BY <1>1, <1>2, AnswerFits
<1>3. CASE Started(a)
  <2>1. alone
    BY <1>1, <1>3, CallFields DEF Started, SyncSafe, AloneInv
  <2>2. settings' = settings /\ tracked' = Channels(settings.tokens)
    BY <1>3 DEF Started, store
  <2> QED
    BY <1>2, <2>1, <2>2, ChannelsFit
<1>4. CASE SyncApplies(a)
  <2>1. settings' = settings /\ tracked' = active /\ alone
    BY <1>1, <1>4 DEF SyncApplies, store, SyncSafe, AloneInv
  <2>2. active = Channels(settings.tokens)
    BY <1>4, <2>1, SyncAssumption DEF SyncInv, ActiveInv, SyncApplies
  <2> QED
    BY <1>2, <2>1, <2>2, ChannelsFit
<1>5. CASE OneCall(a)
  <2>1. /\ up /\ ~astray /\ request[a].op # "streams" /\ ~LeavesForOthers(a)
        /\ settings' = settings /\ tracked' = TrackedAfter(a) /\ Call(a) # "sync"
    BY <1>5 DEF OneCall, store
  <2>2. alone /\ FitsAt(a)
    BY <1>1, <2>1 DEF SyncInv, FitInv, SyncSafe, AloneInv
  <2>3. ~LeavesOthers(a, settings.tokens)
    BY <2>1 DEF LeavesOthers, LeavesForOthers
  <2>4. Fits(settings.tokens, TrackedAfter(a))
    BY <1>1, <2>1, <2>2, <2>3 DEF FitsAt, AfterCall
  <2> QED
    BY <1>2, <2>1, <2>2, <2>4
<1> QED
  BY <1>3, <1>4, <1>5 DEF StartedFromConfig, SyncFails

LEMMA NextFits == SyncInv /\ [SyncNext]_syncvars => FitInv'
<1> SUFFICES ASSUME SyncInv, [SyncNext]_syncvars PROVE FitInv' OBVIOUS
<1>1. ASSUME UNCHANGED <<svars, tracked, up, alone, astray>> PROVE FitInv'
  <2>1. UNCHANGED <<settings, at, request, copy, mine>> /\ InProgress' = InProgress
    BY <1>1 DEF svars, store, local, InProgress
  <2>2. ASSUME NEW a \in Admin, FitsAt(a) PROVE FitsAt(a)'
    <3>1. /\ AfterCall(a, mine[a].tokens) => AfterCall(a, mine[a].tokens)'
          /\ AfterCall(a, settings.tokens) => AfterCall(a, settings.tokens)'
      BY <1>1, <2>1, SameAfter
    <3> QED
      BY <1>1, <2>1, <2>2, <3>1 DEF FitsAt
  <2> QED
    BY <1>1, <2>1, <2>2 DEF SyncInv, FitInv, InProgress
<1>2. CASE UNCHANGED syncvars
  BY <1>1, <1>2 DEF syncvars, yvars
<1>3. ASSUME NEW a \in Admin, SyncReads(a) PROVE FitInv'
  BY <1>1, <1>3 DEF SyncReads
<1>4. ASSUME Dies PROVE FitInv'
  BY <1>4 DEF Dies, FitInv
<1> QED
  BY <1>2, <1>3, <1>4, RequestFits, CommandFits, CallsFit DEF SyncNext

LEMMA NextActive == SyncInv /\ [SyncNext]_syncvars => ActiveInv'
<1> SUFFICES ASSUME SyncInv, [SyncNext]_syncvars PROVE ActiveInv' OBVIOUS
<1>0. LocalOK /\ SyncSafe
  BY DEF SyncInv, SyncSafe, StoreSafe
<1>1. ASSUME UNCHANGED <<settings, holder, active, alone>> PROVE ActiveInv'
  BY <1>1 DEF SyncInv, ActiveInv
<1>2. ASSUME NEW a \in Admin, NEW r \in Requests, Request(a, r) PROVE ActiveInv'
  <2>1. holder' = holder /\ alone' = (InProgress = {})
    BY <1>2 DEF Request
  <2>2. ASSUME holder # NoAdmin PROVE ~alone'
    <3>1. PICK h \in Admin : at[h] = "done"
      BY <1>0, <2>2 DEF SyncSafe, SyncOK
    <3> QED
      BY <1>0, <2>1, <3>1, AtInProgress
  <2> QED
    BY <2>1, <2>2 DEF ActiveInv
<1>3. ASSUME NEW a \in Admin, Command(a) PROVE ActiveInv'
  <2>1. UNCHANGED <<holder, active, alone>> /\ a \in InProgress /\ at[a] # "done"
    BY <1>0, <1>3, CommandProgress, StepsAlone DEF Command
  <2>2. ASSUME holder # NoAdmin PROVE ~alone
    <3>1. PICK h \in Admin : at[h] = "done"
      BY <1>0, <2>2 DEF SyncSafe, SyncOK
    <3>2. h \in InProgress /\ h # a
      BY <1>0, <2>1, <3>1, AtInProgress
    <3> QED
      BY <1>0, <2>1, <3>2 DEF SyncSafe, AloneInv
  <2> QED
    BY <2>1, <2>2 DEF ActiveInv
<1>4. ASSUME NEW a \in Admin, SyncReads(a) PROVE ActiveInv'
  BY <1>4 DEF SyncReads, svars, store, ActiveInv
<1>5. ASSUME NEW a \in Admin, SyncApplies(a) PROVE ActiveInv'
  BY <1>5 DEF SyncApplies, ActiveInv
<1>6. ASSUME NEW a \in Admin,
             Started(a) \/ StartedFromConfig(a) \/ SyncFails(a) \/ OneCall(a)
      PROVE  ActiveInv'
  BY <1>1, <1>6 DEF Started, StartedFromConfig, SyncFails, OneCall, store
<1>7. ASSUME Dies PROVE ActiveInv'
  BY <1>7 DEF Dies, ActiveInv
<1>8. CASE UNCHANGED syncvars
  BY <1>1, <1>8 DEF syncvars, yvars, svars, store
<1> QED
  BY <1>2, <1>3, <1>4, <1>5, <1>6, <1>7, <1>8 DEF SyncNext

LEMMA SyncInvariant == SyncSpec => []SyncInv
<1>1. SyncInit => SyncInv
  BY InitSyncSafe DEF SyncInit, SyncInv, FitInv, ActiveInv
<1>2. SyncInv /\ [SyncNext]_syncvars => SyncInv'
  BY SyncNextSafe, NextFits, NextActive DEF SyncInv
<1> QED
  BY <1>1, <1>2, PTL DEF SyncSpec

(* Between requests every stream of a token that is switched on is         *)
(* subscribed, with any number of requests, tokens and processes, unless   *)
(* the subscriptions may be astray: a request overlapped or failed half    *)
(* way, or left channels of another token, and none has synchronised alone *)
(* since.                                                                  *)
THEOREM WantedSubscribed == SyncSpec => []WantedIsSubscribed
<1>1. SyncInv => WantedIsSubscribed
  BY FitsMeans DEF SyncInv, FitInv, WantedIsSubscribed, Quiet
<1> QED
  BY <1>1, SyncInvariant, PTL

(* Under the same conditions nothing is subscribed that no token asks for. *)
THEOREM NothingElseSubscribed == SyncSpec => []SubscribedIsConfigured
<1>1. SyncInv => SubscribedIsConfigured
  BY FitsMeans DEF SyncInv, FitInv, SubscribedIsConfigured, Quiet
<1> QED
  BY <1>1, SyncInvariant, PTL

(* What holds of the settings under concurrent requests holds of those of  *)
(* an instance.                                                            *)
THEOREM InstanceAsStore ==
  SyncSpec => []LostOnlyToStaleWrites /\ []TelegramAgrees /\ DuplicatesHaveACause
BY SyncIsStore, UpdatesNotLost, TelegramCopied, DuplicatesExplained
=============================================================================

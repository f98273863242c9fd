---------------------------- MODULE WsClientProofs ----------------------------
(***************************************************************************)
(* Proofs about module WsClient, for any channels, connections, retries    *)
(* and faults.  What is said of the list of tracked channels needs that    *)
(* calls follow each other: the subscription manager makes them under its  *)
(* mutex, that is, there is one caller.                                    *)
(***************************************************************************)
EXTENDS WsClient, TLAPS

(* The read loop goes on only while attempts are left. *)
RetryInv == reader # "exited" => retryCount <= MaxRetries

LEMMA Loops ==
  /\ ReaderAt = {"top", "read", "failed", "peerClosed", "reconnect", "retry", "wait",
                 "dial", "install", "setup", "exited"}
  /\ \A c \in Caller : c \in Writer
  /\ Pinger \in Writer /\ Closer \in Writer
  BY DEF ReaderAt, Writer

LEMMA ReaderTypes ==
  ASSUME WsTypeOK, RetryInv, ReaderStep
  PROVE  WsTypeOK' /\ RetryInv'
<1> USE WsBoundAssumption
<1> USE DEF WsTypeOK, RetryInv, ReaderAt, shared, subs, rvars, cvars, ReaderGoes, ReaderExits
<1>1. CASE ReadLoopTop
  BY <1>1 DEF ReadLoopTop
<1>2. CASE ReadReturns
  BY <1>2 DEF ReadReturns
<1>3. CASE AfterReadError
  BY <1>3 DEF AfterReadError
<1>4. CASE ReconnectBegins
  BY <1>4 DEF ReconnectBegins
<1>5. CASE NextAttempt
  <2>1. retryCount \in Nat /\ retryCount <= MaxRetries
    BY <1>5 DEF NextAttempt
  <2>2. retryCount' \in 0..(MaxRetries + 1)
    BY <1>5, <2>1 DEF NextAttempt
  <2>3. RetryInv'
    BY <1>5, <2>1 DEF NextAttempt
  <2>4. isConnected' \in BOOLEAN /\ reader' \in ReaderAt \ {"read", "install"}
    <3>1. CASE retryCount' > MaxRetries
      BY <1>5, <3>1 DEF NextAttempt
    <3>2. CASE ~(retryCount' > MaxRetries)
      BY <1>5, <3>2 DEF NextAttempt
    <3> QED
      BY <3>1, <3>2
  <2>5. readConn' = readConn
    BY <1>5 DEF NextAttempt
  <2> QED
    BY <1>5, <2>2, <2>3, <2>4, <2>5 DEF NextAttempt
<1>6. CASE WaitToDial
  BY <1>6 DEF WaitToDial
<1>7. CASE DialSucceeds
  BY <1>7 DEF DialSucceeds, NewConn, Conn, LinkState
<1>8. CASE DialFails
  BY <1>8 DEF DialFails
<1>9. CASE InstallConn
  BY <1>9 DEF InstallConn
<1>10. CASE SetupPingPong
  BY <1>10 DEF SetupPingPong
<1> QED
  BY <1>1, <1>2, <1>3, <1>4, <1>5, <1>6, <1>7, <1>8, <1>9, <1>10 DEF ReaderStep

LEMMA OtherTypes ==
  ASSUME WsTypeOK, RetryInv,
         \/ PingBegins \/ PingEnds \/ PingExits
         \/ \E c \in Caller : \/ \E r \in Request : CallBegins(c, r[1], r[2])
                              \/ CallSends(c) \/ CallTracks(c)
         \/ Cancel \/ CloserStep
         \/ \E k \in Conn : \/ LinkEnds(k, "read", "broken")
                            \/ LinkEnds(k, "peerClose", "shut")
         \/ UNCHANGED wsvars
  PROVE  WsTypeOK' /\ RetryInv'
<1> USE WsBoundAssumption, Loops
<1> USE DEF WsTypeOK, RetryInv, shared, subs, rvars, cvars, BeginWrite, EndWrite
<1>1. CASE PingBegins \/ PingEnds \/ PingExits
  BY <1>1 DEF PingBegins, PingEnds, PingExits
<1>2. ASSUME NEW c \in Caller, NEW r \in Request, CallBegins(c, r[1], r[2])
      PROVE  WsTypeOK' /\ RetryInv'
  <2>1. [at |-> "write", op |-> r[1], channels |-> r[2]] \in Job
    BY DEF Request, Job
  <2> QED
    BY <1>2, <2>1 DEF CallBegins
<1>3. ASSUME NEW c \in Caller, CallSends(c) PROVE WsTypeOK' /\ RetryInv'
  <2>1. job' \in [Caller -> Job]
    BY <1>3 DEF CallSends, Job, NoJob
  <2>2. served' \in [Conn -> SUBSET Channel]
    BY <1>3 DEF CallSends, Served, Job
  <2> QED
    BY <1>3, <2>1, <2>2 DEF CallSends
<1>4. ASSUME NEW c \in Caller, CallTracks(c) PROVE WsTypeOK' /\ RetryInv'
  <2>1. job' \in [Caller -> Job] /\ tracked' \subseteq Channel
    BY <1>4 DEF CallTracks, Job, NoJob
  <2> QED
    BY <1>4, <2>1 DEF CallTracks
<1>5. CASE Cancel
  BY <1>5 DEF Cancel
<1>6. CASE CloseBegins
  BY <1>6 DEF CloseBegins, CloserAt
<1>7. CASE CloseUnsubscribes
  BY <1>7 DEF CloseUnsubscribes, CloserAt, Served
<1>8. CASE CloseClears
  BY <1>8 DEF CloseClears, CloserAt
<1>9. CASE CloseCloses
  <2>1. CASE conn = 0
    BY <1>9, <2>1 DEF CloseCloses, CloserAt
  <2>2. CASE conn # 0
    <3>1. panic' \in {"none", "nil", "write"}
      BY <1>9, <2>2 DEF CloseCloses
    <3>2. link' \in [Conn -> LinkState] /\ served' \in [Conn -> SUBSET Channel]
      BY <1>9, <2>2 DEF CloseCloses, LinkState
    <3>3. /\ conn' = 0 /\ isConnected' = FALSE /\ done' = TRUE /\ closer' = "returned"
          /\ UNCHANGED <<retryCount, cancelled, tracked, reader, readConn, pinger, job,
                         leaving, writing>>
      BY <1>9, <2>2 DEF CloseCloses
    <3>4. conn' \in 0..MaxConn /\ closer' \in CloserAt
      BY <3>3 DEF CloserAt
    <3> HIDE <1>9
    <3> QED
      BY <3>1, <3>2, <3>3, <3>4
  <2> QED
    BY <2>1, <2>2
<1>10. ASSUME NEW k \in Conn,
              LinkEnds(k, "read", "broken") \/ LinkEnds(k, "peerClose", "shut")
       PROVE  WsTypeOK' /\ RetryInv'
  BY <1>10 DEF LinkEnds, LinkState
<1>11. CASE UNCHANGED wsvars
  BY <1>11 DEF wsvars
<1> QED
  BY <1>1, <1>2, <1>3, <1>4, <1>5, <1>6, <1>7, <1>8, <1>9, <1>10, <1>11 DEF CloserStep

LEMMA WsTypeStep == WsTypeOK /\ RetryInv /\ [WsNext]_wsvars => WsTypeOK' /\ RetryInv'
  BY ReaderTypes, OtherTypes DEF WsNext

LEMMA WsTypeInit == WsInit => WsTypeOK /\ RetryInv
<1> SUFFICES ASSUME WsInit PROVE WsTypeOK /\ RetryInv
  OBVIOUS
<1> USE WsBoundAssumption DEF WsInit
<1>1. isConnected \in BOOLEAN /\ done \in BOOLEAN /\ cancelled \in BOOLEAN
  BY Zenon
<1>2. job \in [Caller -> Job]
  BY DEF Job, NoJob
<1> QED
  BY <1>1, <1>2 DEF WsTypeOK, RetryInv, Conn, LinkState, ReaderAt, CloserAt

(* Every value the client keeps stays in its type; above all, the attempts *)
(* are counted to their maximum and no further, and the read loop reads    *)
(* from and installs connections that exist.                               *)
THEOREM WsTypeCorrect == WsSpec => []WsTypeOK
<1>1. WsSpec => [](WsTypeOK /\ RetryInv)
  BY WsTypeInit, WsTypeStep, PTL DEF WsSpec
<1> QED
  BY <1>1, PTL

-----------------------------------------------------------------------------
(* Why the read loop may be at its end: a close frame that it met stays on *)
(* its connection unless Close is under way.                               *)
ExitInv ==
  reader \in {"peerClosed", "exited"} =>
    \/ Stopping
    \/ reader = "exited" /\ retryCount > MaxRetries
    \/ readConn \in Conn /\ link[readConn] = "shut"

LEMMA ExitStep == WsTypeOK /\ ExitInv /\ [WsNext]_wsvars => ExitInv'
<1> SUFFICES ASSUME WsTypeOK, ExitInv, [WsNext]_wsvars PROVE ExitInv'
  OBVIOUS
<1> USE WsBoundAssumption
<1> USE DEF ExitInv, Conn, Stopping, shared, subs, rvars, cvars,
            ReaderGoes, ReaderExits
<1>1. CASE ReadLoopTop
  BY <1>1 DEF ReadLoopTop
<1>2. CASE ReadReturns
  BY <1>2 DEF ReadReturns, WsTypeOK
<1>3. CASE AfterReadError
  BY <1>3 DEF AfterReadError
<1>4. CASE ReconnectBegins \/ WaitToDial \/ DialFails \/ InstallConn \/ SetupPingPong
  BY <1>4 DEF ReconnectBegins, WaitToDial, DialFails, InstallConn, SetupPingPong
<1>5. CASE NextAttempt
  BY <1>5 DEF NextAttempt
<1>6. CASE DialSucceeds
  BY <1>6 DEF DialSucceeds
<1>7. CASE PingBegins \/ PingEnds \/ PingExits
  BY <1>7 DEF PingBegins, PingEnds, PingExits
<1>8. ASSUME NEW c \in Caller, NEW r \in Request, CallBegins(c, r[1], r[2]) PROVE ExitInv'
  BY <1>8 DEF CallBegins
<1>9. ASSUME NEW c \in Caller, CallSends(c) \/ CallTracks(c) PROVE ExitInv'
  BY <1>9 DEF CallSends, CallTracks
<1>10. CASE Cancel \/ CloseBegins \/ CloseUnsubscribes \/ CloseClears
  BY <1>10 DEF Cancel, CloseBegins, CloseUnsubscribes, CloseClears
<1>11. CASE CloseCloses
  <2>1. done' = TRUE
    BY <1>11 DEF CloseCloses
  <2> QED
    BY <2>1
<1>12. ASSUME NEW k \in Conn,
              LinkEnds(k, "read", "broken") \/ LinkEnds(k, "peerClose", "shut")
       PROVE  ExitInv'
  <2>1. /\ UNCHANGED <<reader, readConn, done, cancelled, retryCount>>
        /\ \A j \in Conn : link[j] = "shut" => link'[j] = "shut"
    BY <1>12 DEF LinkEnds, WsTypeOK
  <2> QED
    BY <2>1
<1>13. CASE UNCHANGED wsvars
  BY <1>13 DEF wsvars
<1> QED
  BY <1>1, <1>2, <1>3, <1>4, <1>5, <1>6, <1>7, <1>8, <1>9, <1>10, <1>11, <1>12, <1>13
     DEF WsNext, ReaderStep, CloserStep

(* The read loop ends only because the program stops, its attempts are     *)
(* used up, or the server closed the connection itself.                    *)
THEOREM ReadsOn == WsSpec => []ReadsUntilServerCloses
<1>1. WsInit => ExitInv
  BY DEF WsInit, ExitInv
<1>2. WsSpec => [](WsTypeOK /\ RetryInv /\ ExitInv)
  BY <1>1, WsTypeInit, WsTypeStep, ExitStep, PTL DEF WsSpec
<1>3. ExitInv => ReadsUntilServerCloses
  BY DEF ExitInv, ReadsUntilServerCloses
<1> QED
  BY <1>2, <1>3, PTL

-----------------------------------------------------------------------------
(* A connection that is not open streams nothing, a connection that was    *)
(* dialled but not installed has not been written to, and nobody writes to *)
(* another connection than the first before a second one is installed.     *)
ServedOpen == \A k \in Conn : link[k] # "open" => served[k] = {}
Dialled ==
  /\ link[1] # "none"
  /\ conn # 0 => link[conn] # "none"
  /\ \A w \in Writer : writing[w] # 0 => link[writing[w]] # "none"
NotInstalled ==
  reader = "install" =>
    /\ readConn # conn /\ readConn # 1
    /\ link[readConn] # "none" /\ served[readConn] = {}
    /\ \A w \in Writer : writing[w] # readConn
FirstWritten == conn = 1 => \A w \in Writer : writing[w] \in {0, 1}

ConnInv == ServedOpen /\ Dialled /\ NotInstalled /\ FirstWritten

LEMMA ConnStep == WsTypeOK /\ ConnInv /\ [WsNext]_wsvars => ConnInv'
<1> SUFFICES ASSUME WsTypeOK, ConnInv, [WsNext]_wsvars PROVE ConnInv'
  OBVIOUS
<1> USE WsBoundAssumption, Loops
<1> USE DEF WsTypeOK, ConnInv, ServedOpen, Dialled, NotInstalled, FirstWritten, Conn,
            shared, subs, rvars, cvars, ReaderGoes, ReaderExits, BeginWrite, EndWrite
<1>1. CASE ReadLoopTop
  BY <1>1 DEF ReadLoopTop
<1>2. CASE ReadReturns
  BY <1>2 DEF ReadReturns
<1>3. CASE AfterReadError
  BY <1>3 DEF AfterReadError
<1>4. CASE ReconnectBegins \/ WaitToDial \/ DialFails \/ SetupPingPong \/ NextAttempt
  BY <1>4 DEF ReconnectBegins, WaitToDial, DialFails, SetupPingPong, NextAttempt
<1>5. CASE InstallConn
  BY <1>5 DEF InstallConn
<1>6. CASE DialSucceeds
  <2>1. PICK k \in Conn : /\ link[k] = "none" /\ link' = [link EXCEPT ![k] = "open"]
                          /\ readConn' = k
    BY <1>6 DEF DialSucceeds, NewConn
  <2>2. /\ UNCHANGED <<conn, served, writing>> /\ link'[k] = "open"
        /\ \A j \in Conn \ {k} : link'[j] = link[j]
    BY <1>6, <2>1 DEF DialSucceeds
  <2>3. k # conn /\ k # 1 /\ served[k] = {} /\ \A w \in Writer : writing[w] # k
    BY <2>1
  <2> HIDE <1>6
  <2> QED
    BY <2>1, <2>2, <2>3
<1>7. CASE PingBegins \/ PingEnds \/ PingExits
  BY <1>7 DEF PingBegins, PingEnds, PingExits
<1>8. ASSUME NEW c \in Caller, NEW r \in Request, CallBegins(c, r[1], r[2]) PROVE ConnInv'
  BY <1>8 DEF CallBegins
<1>9. ASSUME NEW c \in Caller, CallSends(c) PROVE ConnInv'
  <2> DEFINE n == writing[c]
  <2>1. /\ UNCHANGED <<conn, link, reader, readConn>>
        /\ \A w \in Writer : writing'[w] \in {writing[w], 0}
    BY <1>9 DEF CallSends
  <2>2. \/ served' = served
        \/ link[n] = "open" /\ served' = [served EXCEPT ![n] = served[n] \cup job[c].channels]
        \/ link[n] = "open" /\ served' = [served EXCEPT ![n] = served[n] \ job[c].channels]
    BY <1>9 DEF CallSends, Served, Reaches
  <2>3. \A k \in Conn : served'[k] # {} => served'[k] = served[k] \/ (k = n /\ link[n] = "open")
    BY <2>2
  <2>4. \A w \in Writer : writing[w] # readConn \/ reader # "install"
    OBVIOUS
  <2> HIDE <1>9
  <2>5. ServedOpen' /\ Dialled' /\ FirstWritten'
    BY <2>1, <2>3
  <2>6. ASSUME reader = "install"
        PROVE  /\ readConn \in Conn /\ served'[readConn] = {}
               /\ \A w \in Writer : writing'[w] # readConn
    <3>1. readConn \in Conn /\ served[readConn] = {} /\ readConn # n
      BY <2>4, <2>6 DEF Writer
    <3>2. served'[readConn] = {}
      BY <2>3, <3>1
    <3>3. \A w \in Writer : writing'[w] # readConn
      BY <2>1, <2>4, <2>6, <3>1
    <3> QED
      BY <3>1, <3>2, <3>3
  <2>7. NotInstalled'
    BY <2>1, <2>6
  <2> QED
    BY <2>5, <2>7
<1>10. ASSUME NEW c \in Caller, CallTracks(c) PROVE ConnInv'
  BY <1>10 DEF CallTracks
<1>11. CASE Cancel \/ CloseClears
  BY <1>11 DEF Cancel, CloseClears
<1>12. CASE CloseBegins
  BY <1>12 DEF CloseBegins
<1>13. CASE CloseUnsubscribes
  BY <1>13 DEF CloseUnsubscribes, Served
<1>14. CASE CloseCloses
  BY <1>14 DEF CloseCloses
<1>15. ASSUME NEW k \in Conn,
              LinkEnds(k, "read", "broken") \/ LinkEnds(k, "peerClose", "shut")
       PROVE  ConnInv'
  <2>1. /\ UNCHANGED <<conn, reader, readConn, writing>> /\ served' = [served EXCEPT ![k] = {}]
        /\ \E x \in {"broken", "shut"} : link' = [link EXCEPT ![k] = x]
    BY <1>15 DEF LinkEnds
  <2>2. \A j \in Conn : /\ served'[j] \in {{}, served[j]}
                        /\ j = k => link'[j] # "none" /\ served'[j] = {}
                        /\ j # k => link'[j] = link[j] /\ served'[j] = served[j]
    BY <2>1
  <2> HIDE <1>15
  <2> QED
    BY <2>1, <2>2
<1>16. CASE UNCHANGED wsvars
  BY <1>16 DEF wsvars
<1> QED
  BY <1>1, <1>2, <1>3, <1>4, <1>5, <1>6, <1>7, <1>8, <1>9, <1>10, <1>11, <1>12, <1>13,
     <1>14, <1>15, <1>16 DEF WsNext, ReaderStep, CloserStep

-----------------------------------------------------------------------------
(* The list as it will be when the call of c, if it has sent its message,  *)
(* has updated it.                                                         *)
ListOf(c) ==
  IF job[c].at # "track" THEN tracked
  ELSE IF job[c].op = "sub" THEN tracked \cup job[c].channels
       ELSE tracked \ job[c].channels

(* A call that is writing writes to the current connection, or that one is *)
(* new and nothing was ever subscribed on it.                              *)
WriteInv(c) ==
  job[c].at = "write" /\ Alive =>
    /\ writing[c] # 0
    /\ conn # 0 /\ writing[c] # conn => served[conn] = {}

ServedInv(c) ==
  conn # 0 /\ closer \in {"idle", "unsubscribe", "clear"} => served[conn] \subseteq ListOf(c)

FirstInv(c) ==
  conn = 1 /\ link[1] = "open" /\ closer = "idle" => ListOf(c) \subseteq served[1]

CallInv(c) == WriteInv(c) /\ ServedInv(c) /\ FirstInv(c)

(* The only caller's own steps. *)
LEMMA CallKeeps ==
  ASSUME WsTypeOK, ConnInv, NEW c \in Caller, CallInv(c), Alive,
         \/ \E r \in Request : CallBegins(c, r[1], r[2])
         \/ CallSends(c) \/ CallTracks(c)
  PROVE  CallInv(c)'
<1> USE WsBoundAssumption, Loops
<1> USE DEF CallInv, WriteInv, ServedInv, FirstInv, ListOf, Alive, Conn, shared, subs
<1>1. ASSUME NEW r \in Request, CallBegins(c, r[1], r[2]) PROVE CallInv(c)'
  <2>1. /\ job[c].at = "idle" /\ job'[c].at = "write" /\ conn # 0
        /\ UNCHANGED <<conn, link, closer, tracked, served>>
        /\ panic' = "write" \/ writing'[c] = conn
    BY <1>1 DEF CallBegins, BeginWrite, cvars, WsTypeOK
  <2> QED
    BY <2>1
<1>2. CASE CallSends(c)
  <2> DEFINE n == writing[c]
             X == job[c].channels
  <2>1. /\ job[c].at = "write" /\ n \in Conn
        /\ UNCHANGED <<conn, link, closer, tracked, panic>>
        /\ conn # 0 /\ n # conn => served[conn] = {}
        /\ conn = 1 => n = 1
        /\ job[c].op \in {"sub", "unsub"}
    BY <1>2 DEF CallSends, cvars, WsTypeOK, ConnInv, FirstWritten, Job
  <2>2. CASE Sent(c) /\ job'[c].at = "track" /\ job'[c].op = job[c].op /\ job'[c].channels = X
             /\ served' = IF Reaches(c) THEN Served(job[c].op, X, n) ELSE served
    <3>1. link[n] # "open" => served[n] = {}
      BY <2>1 DEF ConnInv, ServedOpen
    <3>2. CASE job[c].op = "sub"
      <4>1. \A k \in Conn : served'[k] = IF k = n /\ Reaches(c) THEN served[k] \cup X ELSE served[k]
        BY <2>1, <2>2, <3>2 DEF Served, WsTypeOK
      <4>2. ListOf(c) = tracked /\ ListOf(c)' = tracked \cup X
        BY <2>1, <2>2, <3>2
      <4>3. ServedInv(c)'
        <5>1. ASSUME conn # 0, closer \in {"idle", "unsubscribe", "clear"}
              PROVE  served'[conn] \subseteq tracked \cup X
          <6>1. conn \in Conn /\ served[conn] \subseteq tracked
            BY <2>1, <5>1 DEF WsTypeOK
          <6>2. CASE Reaches(c) /\ n = conn
            BY <4>1, <6>1, <6>2
          <6>3. CASE n # conn
            BY <2>1, <4>1, <5>1, <6>1, <6>3
          <6>4. CASE ~Reaches(c) /\ n = conn
            BY <3>1, <4>1, <6>1, <6>4 DEF Reaches
          <6> QED
            BY <6>2, <6>3, <6>4
        <5> QED
          BY <2>1, <4>2, <5>1
      <4>4. FirstInv(c)'
        BY <2>1, <2>2, <4>1, <4>2 DEF Reaches
      <4> QED
        BY <2>2, <4>3, <4>4
    <3>3. CASE job[c].op = "unsub"
      <4>1. \A k \in Conn : served'[k] = IF k = n /\ Reaches(c) THEN served[k] \ X ELSE served[k]
        BY <2>1, <2>2, <3>3 DEF Served, WsTypeOK
      <4>2. ListOf(c) = tracked /\ ListOf(c)' = tracked \ X
        BY <2>1, <2>2, <3>3
      <4>3. ServedInv(c)'
        <5>1. ASSUME conn # 0, closer \in {"idle", "unsubscribe", "clear"}
              PROVE  served'[conn] \subseteq tracked \ X
          <6>1. conn \in Conn /\ served[conn] \subseteq tracked
            BY <2>1, <5>1 DEF WsTypeOK
          <6>2. CASE Reaches(c) /\ n = conn
            BY <4>1, <6>1, <6>2
          <6>3. CASE n # conn
            BY <2>1, <4>1, <5>1, <6>1, <6>3
          <6>4. CASE ~Reaches(c) /\ n = conn
            BY <3>1, <4>1, <6>1, <6>4 DEF Reaches
          <6> QED
            BY <6>2, <6>3, <6>4
        <5> QED
          BY <2>1, <4>2, <5>1
      <4>4. FirstInv(c)'
        BY <2>1, <2>2, <4>1, <4>2 DEF Reaches
      <4> QED
        BY <2>2, <4>3, <4>4
    <3> QED
      BY <2>1, <3>2, <3>3
  <2>3. CASE job'[c] = NoJob /\ served' = served
    BY <2>1, <2>3 DEF NoJob, WsTypeOK
  <2>4. \/ /\ Sent(c) /\ job'[c].at = "track" /\ job'[c].op = job[c].op /\ job'[c].channels = X
           /\ served' = IF Reaches(c) THEN Served(job[c].op, X, n) ELSE served
        \/ job'[c] = NoJob /\ served' = served
    <3>1. CASE Sent(c) /\ job' = [job EXCEPT ![c].at = "track"]
                /\ served' = IF Reaches(c) THEN Served(job[c].op, X, n) ELSE served
      <4>1. job'[c] = [job[c] EXCEPT !.at = "track"]
        BY <3>1 DEF WsTypeOK
      <4>2. job[c] \in Job
        BY DEF WsTypeOK
      <4> QED
        BY <3>1, <4>1, <4>2 DEF Job
    <3>2. CASE job' = [job EXCEPT ![c] = NoJob] /\ served' = served
      BY <3>2 DEF WsTypeOK
    <3> QED
      BY <1>2, <3>1, <3>2 DEF CallSends
  <2> QED
    BY <2>2, <2>3, <2>4
<1>3. CASE CallTracks(c)
  <2>1. /\ job[c].at = "track" /\ job'[c] = NoJob /\ tracked' = ListOf(c)
        /\ UNCHANGED <<conn, link, closer, served, panic>>
    BY <1>3 DEF CallTracks, cvars, WsTypeOK
  <2> QED
    BY <2>1 DEF NoJob
<1> QED
  BY <1>1, <1>2, <1>3

(* The steps of the other goroutines and of the network. *)
LEMMA CallStays ==
  ASSUME WsTypeOK, ConnInv, NEW c \in Caller, CallInv(c), Alive,
         \/ ReaderStep \/ PingBegins \/ PingEnds \/ PingExits
         \/ Cancel \/ CloserStep
         \/ \E k \in Conn : \/ LinkEnds(k, "read", "broken")
                            \/ LinkEnds(k, "peerClose", "shut")
  PROVE  CallInv(c)'
<1> USE WsBoundAssumption, WriterAssumption, Loops
<1> USE DEF CallInv, WriteInv, ServedInv, FirstInv, ListOf, Alive, Conn, shared, subs,
            rvars, cvars, ReaderGoes, ReaderExits, BeginWrite, EndWrite
<1>1. CASE ReadLoopTop \/ ReadReturns \/ AfterReadError \/ ReconnectBegins \/ NextAttempt
           \/ WaitToDial \/ DialFails \/ SetupPingPong
  BY <1>1 DEF ReadLoopTop, ReadReturns, AfterReadError, ReconnectBegins, NextAttempt,
              WaitToDial, DialFails, SetupPingPong
<1>2. CASE DialSucceeds
  <2>1. PICK k \in Conn : link[k] = "none" /\ link' = [link EXCEPT ![k] = "open"]
    BY <1>2 DEF DialSucceeds, NewConn
  <2>2. UNCHANGED <<conn, served, tracked, job, closer, writing, panic>>
    BY <1>2 DEF DialSucceeds
  <2>3. link'[1] = link[1]
    BY <2>1 DEF ConnInv, Dialled, WsTypeOK
  <2> QED
    BY <2>2, <2>3
<1>3. CASE InstallConn
  <2>1. /\ conn' = readConn /\ readConn \in Conn /\ readConn # 1 /\ served[readConn] = {}
        /\ UNCHANGED <<served, tracked, job, closer, writing, panic>>
    BY <1>3 DEF InstallConn, ConnInv, NotInstalled, WsTypeOK
  <2> QED
    BY <2>1
<1>4. CASE PingBegins \/ PingEnds \/ PingExits
  <2>1. /\ UNCHANGED <<conn, link, served, tracked, job, closer>>
        /\ writing'[c] = writing[c]
        /\ panic' = "none" => panic = "none"
    BY <1>4 DEF PingBegins, PingEnds, PingExits, WsTypeOK
  <2> QED
    BY <2>1
<1>5. CASE Cancel
  BY <1>5 DEF Cancel
<1>6. CASE CloseBegins
  <2>1. /\ UNCHANGED <<conn, link, served, tracked, job>> /\ closer = "idle" /\ closer' # "idle"
        /\ writing'[c] = writing[c]
    BY <1>6 DEF CloseBegins, WsTypeOK
  <2> QED
    BY <2>1
<1>7. CASE CloseUnsubscribes
  <2>1. /\ UNCHANGED <<conn, link, tracked, job, panic>>
        /\ closer = "unsubscribe" /\ closer' = "clear" /\ writing'[c] = writing[c]
    BY <1>7 DEF CloseUnsubscribes, WsTypeOK
  <2>2. \A k \in Conn : served'[k] \subseteq served[k]
    <3>1. \/ served' = served
          \/ served' = [served EXCEPT ![writing[Closer]] = served[writing[Closer]] \ leaving]
      BY <1>7 DEF CloseUnsubscribes, Served
    <3>2. served \in [Conn -> SUBSET Channel]
      BY DEF WsTypeOK
    <3> HIDE <1>7 DEF WsTypeOK, ConnInv, CallInv
    <3>3. CASE served' = served
      BY <3>3
    <3>4. CASE served' = [served EXCEPT ![writing[Closer]] = served[writing[Closer]] \ leaving]
      <4> TAKE k \in Conn
      <4>1. served'[k] \in {served[k], served[k] \ leaving}
        BY <3>2, <3>4
      <4> QED
        BY <4>1
    <3> QED
      BY <3>1, <3>3, <3>4
  <2> QED
    BY <2>1, <2>2 DEF WsTypeOK
<1>8. CASE CloseClears
  BY <1>8 DEF CloseClears
<1>9. CASE CloseCloses
  BY <1>9 DEF CloseCloses
<1>10. ASSUME NEW k \in Conn,
              LinkEnds(k, "read", "broken") \/ LinkEnds(k, "peerClose", "shut")
       PROVE  CallInv(c)'
  <2>1. /\ UNCHANGED <<conn, tracked, job, closer, writing, panic>>
        /\ \A j \in Conn : served'[j] = IF j = k THEN {} ELSE served[j]
        /\ \A j \in Conn : link'[j] = "open" => j # k /\ link[j] = "open"
    BY <1>10 DEF LinkEnds, WsTypeOK
  <2> QED
    BY <2>1 DEF WsTypeOK
<1> QED
  BY <1>1, <1>2, <1>3, <1>4, <1>5, <1>6, <1>7, <1>8, <1>9, <1>10 DEF ReaderStep, CloserStep

LEMMA CallsInvariant ==
  ASSUME NEW c, Caller = {c}
  PROVE  WsSpec => [](WsTypeOK /\ ConnInv /\ CallInv(c))
<1> DEFINE Inv == WsTypeOK /\ RetryInv /\ ConnInv /\ CallInv(c)
<1>1. WsInit => Inv
  <2> SUFFICES ASSUME WsInit PROVE ConnInv /\ CallInv(c)
    BY WsTypeInit
  <2> USE WsBoundAssumption DEF WsInit, Conn
  <2>1. ConnInv
    BY DEF ConnInv, ServedOpen, Dialled, NotInstalled, FirstWritten
  <2>2. CallInv(c)
    BY DEF CallInv, WriteInv, ServedInv, FirstInv, ListOf, NoJob
  <2> QED
    BY <2>1, <2>2
<1>2. Inv /\ [WsNext]_wsvars => Inv'
  <2> SUFFICES ASSUME Inv, [WsNext]_wsvars PROVE CallInv(c)'
    BY WsTypeStep, ConnStep
  <2>1. CASE UNCHANGED wsvars
    BY <2>1 DEF wsvars, shared, subs, cvars, CallInv, WriteInv, ServedInv, FirstInv,
                ListOf, Alive
  <2>2. CASE WsNext
    BY <2>2, CallKeeps, CallStays DEF WsNext
  <2> QED
    BY <2>1, <2>2
<1> QED
  BY <1>1, <1>2, PTL DEF WsSpec

(* With one caller at a time: until Close, what the server streams on the  *)
(* current connection can be unsubscribed from, whatever writes fail and   *)
(* however often the client reconnects.                                    *)
THEOREM ServedTracked ==
  ASSUME NEW c, Caller = {c}
  PROVE  WsSpec => []ServedIsTracked
<1>1. WsTypeOK /\ CallInv(c) => ServedIsTracked
  BY DEF WsTypeOK, Job, CallInv, ServedInv, ListOf, ServedIsTracked
<1> QED
  BY <1>1, CallsInvariant, PTL

(* With one caller at a time: on its first connection the client is        *)
(* streamed every channel on its list.                                     *)
THEOREM TrackedServedAtFirst ==
  ASSUME NEW c, Caller = {c}
  PROVE  WsSpec => []FirstConnServesTracked
<1>1. CallInv(c) => FirstConnServesTracked
  BY DEF CallInv, FirstInv, ListOf, FirstConnServesTracked, AtRest
<1> QED
  BY <1>1, CallsInvariant, PTL
=============================================================================

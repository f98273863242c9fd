------------------------------- MODULE WsClient -------------------------------
(***************************************************************************)
(* The WebSocket client of internal/websocket/client.go after Start: the   *)
(* read loop with its reconnection, the ping loop, goroutines that         *)
(* subscribe and unsubscribe, and Close, which shutdown() calls once after *)
(* cancelling the context.  They share c.conn and c.isConnected under      *)
(* c.mu, and the list of tracked channels under c.channelsMu; everything   *)
(* between two critical sections may be interleaved.                       *)
(*                                                                         *)
(* Connections are numbered in the order they are dialled, 0 is nil.  A    *)
(* write takes two steps, from the moment it uses the connection to its    *)
(* return: gorilla/websocket panics when a second write begins meanwhile.  *)
(* The events read are module EventPipeline's matter.  The reconnecting    *)
(* flag is left out: only the read loop calls reconnect and never finds it *)
(* set.                                                                    *)
(***************************************************************************)
EXTENDS Integers, FiniteSets

CONSTANTS Channel,
          Caller,          \* goroutines that call Subscribe and Unsubscribe
          Pinger, Closer,  \* the goroutines of pingLoop and shutdown
          MaxConn,         \* bound: connections dialled in a run
          MaxRetries,      \* config.MaxRetries
          Faults,          \* what may go wrong, a subset of FaultKinds
          MayStop          \* does the program shut down?

FaultKinds == {"read", "write", "dial", "peerClose"}
Conn == 1..MaxConn
Writer == Caller \cup {Pinger, Closer}

ASSUME WriterAssumption == Pinger \notin Caller /\ Closer \notin Caller \cup {Pinger}
ASSUME WsBoundAssumption == MaxConn \in Nat \ {0} /\ MaxRetries \in Nat
ASSUME WsFaultAssumption == Faults \subseteq FaultKinds /\ MayStop \in BOOLEAN

VARIABLES
  conn, isConnected, retryCount,
  done,       \* is c.done closed?
  cancelled,  \* is the context of the loops cancelled?
  tracked,    \* subscribedChannels, as a set
  link,       \* [Conn -> LinkState]
  served,     \* [Conn -> SUBSET Channel], what the server streams on it
  reader,     \* where readLoop is
  readConn,   \* the connection it reads from, or has dialled
  pinger,     \* "run" or "exited"
  job,        \* [Caller -> call in progress]
  closer,     \* where Close is
  leaving,    \* the channels Close found tracked
  writing,    \* [Writer -> connection it is writing to, or 0]
  panic       \* what ended the process: a nil connection, a second writer

shared == <<conn, isConnected, retryCount, done, cancelled>>
subs == <<tracked, served>>
rvars == <<reader, readConn>>
cvars == <<closer, leaving>>
wsvars == <<shared, subs, link, rvars, pinger, job, cvars, writing, panic>>

(* "broken": the network failed; "shut": the server sent a close frame     *)
(* (normal closure or going away); "closed": by this client.               *)
LinkState == {"none", "open", "broken", "shut", "closed"}
ReaderAt == {"top", "read", "failed", "peerClosed", "reconnect", "retry", "wait",
             "dial", "install", "setup", "exited"}
CloserAt == {"idle", "unsubscribe", "clear", "close", "returned"}
Job == [at : {"idle", "write", "track"}, op : {"sub", "unsub"},
        channels : SUBSET Channel]
NoJob == [at |-> "idle", op |-> "sub", channels |-> {}]

WsTypeOK ==
  /\ conn \in 0..MaxConn /\ isConnected \in BOOLEAN
  /\ retryCount \in 0..(MaxRetries + 1)
  /\ done \in BOOLEAN /\ cancelled \in BOOLEAN
  /\ tracked \subseteq Channel
  /\ link \in [Conn -> LinkState]
  /\ served \in [Conn -> SUBSET Channel]
  /\ reader \in ReaderAt /\ readConn \in 0..MaxConn
  /\ reader \in {"read", "install"} => readConn # 0
  /\ pinger \in {"run", "exited"}
  /\ job \in [Caller -> Job]
  /\ closer \in CloserAt /\ leaving \subseteq Channel
  /\ writing \in [Writer -> 0..MaxConn]
  /\ panic \in {"none", "nil", "write"}

(* Start has connected and started both loops. *)
WsInit ==
  /\ conn = 1 /\ isConnected = TRUE /\ retryCount = 0
  /\ done = FALSE /\ cancelled = FALSE
  /\ tracked = {}
  /\ link = [k \in Conn |-> IF k = 1 THEN "open" ELSE "none"]
  /\ served = [k \in Conn |-> {}]
  /\ reader = "top" /\ readConn = 0 /\ pinger = "run"
  /\ job = [c \in Caller |-> NoJob]
  /\ closer = "idle" /\ leaving = {}
  /\ writing = [w \in Writer |-> 0]
  /\ panic = "none"

Stopping == done \/ cancelled
Alive == panic = "none"

-----------------------------------------------------------------------------
(* readLoop *)

ReaderGoes(step) == reader' = step /\ UNCHANGED readConn

(* The loop's deferred function. *)
ReaderExits == ReaderGoes("exited") /\ isConnected' = FALSE

(* The select at the top, then readMessage takes the connection. *)
ReadLoopTop ==
  /\ reader = "top"
  /\ \/ /\ Stopping
        /\ ReaderExits
     \/ /\ ~Stopping
        /\ readConn' = conn
        /\ reader' = IF conn = 0 THEN "failed" ELSE "read"
        /\ UNCHANGED isConnected
  /\ UNCHANGED <<conn, retryCount, done, cancelled, subs, link, pinger, job, cvars,
                 writing, panic>>

(* ReadMessage returns a message, the close frame of the server, or an     *)
(* error: the connection failed, was closed, or nothing came within the    *)
(* read deadline although it is still open.                                *)
ReadReturns ==
  /\ reader = "read"
  /\ \/ link[readConn] = "open" /\ ReaderGoes("top")
     \/ link[readConn] = "shut" /\ ReaderGoes("peerClosed")
     \/ link[readConn] \in {"broken", "closed"} /\ ReaderGoes("failed")
     \/ link[readConn] = "open" /\ "read" \in Faults /\ ReaderGoes("failed")
  /\ UNCHANGED <<shared, subs, link, pinger, job, cvars, writing, panic>>

(* Mutant: a failed read ends the loop. *)
GiveUpOnError ==
  /\ reader \in {"failed", "peerClosed"}
  /\ ReaderExits
  /\ UNCHANGED <<conn, retryCount, done, cancelled, subs, link, pinger, job, cvars,
                 writing, panic>>

(* After an error: the shutdown goes first, a normal closure ends the      *)
(* loop, anything else makes it reconnect.                                 *)
AfterReadError ==
  /\ reader \in {"failed", "peerClosed"}
  /\ IF Stopping \/ reader = "peerClosed"
       THEN ReaderExits
       ELSE ReaderGoes("reconnect") /\ UNCHANGED isConnected
  /\ UNCHANGED <<conn, retryCount, done, cancelled, subs, link, pinger, job, cvars,
                 writing, panic>>

(* reconnect asks once more whether the program stops. *)
ReconnectBegins ==
  /\ reader = "reconnect"
  /\ ReaderGoes(IF Stopping THEN "top" ELSE "retry")
  /\ UNCHANGED <<shared, subs, link, pinger, job, cvars, writing, panic>>

(* Mutant: attempts are not counted. *)
AttemptForever ==
  /\ reader = "retry"
  /\ ReaderGoes("wait")
  /\ UNCHANGED <<shared, subs, link, pinger, job, cvars, writing, panic>>

(* Mutant: one attempt too many. *)
OneAttemptMore ==
  /\ reader = "retry"
  /\ retryCount' = retryCount + 1
  /\ IF retryCount' > MaxRetries + 1
       THEN ReaderExits
       ELSE ReaderGoes("wait") /\ UNCHANGED isConnected
  /\ UNCHANGED <<conn, done, cancelled, subs, link, pinger, job, cvars, writing,
                 panic>>

(* reconnect: the next attempt, or ErrMaxRetries, which ends the loop. *)
NextAttempt ==
  /\ reader = "retry"
  /\ retryCount' = retryCount + 1
  /\ IF retryCount' > MaxRetries
       THEN ReaderExits
       ELSE ReaderGoes("wait") /\ UNCHANGED isConnected
  /\ UNCHANGED <<conn, done, cancelled, subs, link, pinger, job, cvars, writing,
                 panic>>

(* The select around ReconnectInterval; both branches may be ready. *)
WaitToDial ==
  /\ reader = "wait"
  /\ (Stopping /\ ReaderGoes("top")) \/ ReaderGoes("dial")
  /\ UNCHANGED <<shared, subs, link, pinger, job, cvars, writing, panic>>

NewConn == {k \in Conn : link[k] = "none" /\ \A j \in Conn : j < k => link[j] # "none"}

(* connect: DialContext, which fails once the context is cancelled. *)
DialSucceeds ==
  /\ reader = "dial" /\ ~cancelled
  /\ \E k \in NewConn : /\ link' = [link EXCEPT ![k] = "open"]
                        /\ readConn' = k
  /\ reader' = "install"
  /\ UNCHANGED <<shared, subs, pinger, job, cvars, writing, panic>>

DialFails ==
  /\ reader = "dial"
  /\ cancelled \/ "dial" \in Faults \/ NewConn = {}
  /\ ReaderGoes("retry")
  /\ UNCHANGED <<shared, subs, link, pinger, job, cvars, writing, panic>>

(* connect's critical section.  The connection it replaces is not closed,  *)
(* and nothing is subscribed on the new one.                               *)
InstallConn ==
  /\ reader = "install"
  /\ conn' = readConn /\ isConnected' = TRUE /\ retryCount' = 0
  /\ ReaderGoes("setup")
  /\ UNCHANGED <<done, cancelled, subs, link, pinger, job, cvars, writing, panic>>

(* setupPingPong uses c.conn again, without the mutex. *)
SetupPingPong ==
  /\ reader = "setup"
  /\ IF conn = 0 THEN panic' = "nil" /\ UNCHANGED rvars
                 ELSE ReaderGoes("top") /\ UNCHANGED panic
  /\ UNCHANGED <<shared, subs, link, pinger, job, cvars, writing>>

-----------------------------------------------------------------------------
(* Writes *)

BeginWrite(w) ==
  IF \E v \in Writer \ {w} : writing[v] = conn
    THEN panic' = "write" /\ UNCHANGED writing
    ELSE writing' = [writing EXCEPT ![w] = conn] /\ UNCHANGED panic

EndWrite(w) == writing' = [writing EXCEPT ![w] = 0]

(* A write is reported to have failed when the connection is not usable or *)
(* the deadline passed.  On a connection that failed silently it may well  *)
(* be reported as a success, without reaching the server.                  *)
Sent(w) == link[writing[w]] # "closed"
NotSent(w) == link[writing[w]] # "open" \/ "write" \in Faults
Reaches(w) == link[writing[w]] = "open"

(* pingLoop: one tick. *)
PingBegins ==
  /\ pinger = "run" /\ writing[Pinger] = 0
  /\ isConnected /\ conn # 0
  /\ BeginWrite(Pinger)
  /\ UNCHANGED <<shared, subs, link, rvars, pinger, job, cvars>>

PingEnds ==
  /\ writing[Pinger] # 0
  /\ EndWrite(Pinger)
  /\ UNCHANGED <<shared, subs, link, rvars, pinger, job, cvars, panic>>

(* Mutant: without a connection the loop never gets to its select. *)
PingExitsConnected ==
  /\ pinger = "run" /\ writing[Pinger] = 0 /\ Stopping /\ isConnected
  /\ pinger' = "exited"
  /\ UNCHANGED <<shared, subs, link, rvars, job, cvars, writing, panic>>

PingExits ==
  /\ pinger = "run" /\ writing[Pinger] = 0 /\ Stopping
  /\ pinger' = "exited"
  /\ UNCHANGED <<shared, subs, link, rvars, job, cvars, writing, panic>>

(* Subscribe and Unsubscribe up to the write in Send, which refuses when   *)
(* there is no connection (then nothing changes).                          *)
CallBegins(c, op, cs) ==
  /\ job[c].at = "idle"
  /\ isConnected /\ conn # 0
  /\ job' = [job EXCEPT ![c] = [at |-> "write", op |-> op, channels |-> cs]]
  /\ BeginWrite(c)
  /\ UNCHANGED <<shared, subs, link, rvars, pinger, cvars>>

(* What the server streams on a connection after it read a request. *)
Served(op, cs, k) ==
  [served EXCEPT ![k] = IF op = "sub" THEN @ \cup cs ELSE @ \ cs]

(* Mutant: Subscribe and Unsubscribe ignore the error of Send. *)
IgnoreSendError(c) ==
  /\ job[c].at = "write"
  /\ \/ /\ Sent(c)
        /\ served' = IF Reaches(c) THEN Served(job[c].op, job[c].channels, writing[c])
                     ELSE served
     \/ NotSent(c) /\ UNCHANGED served
  /\ job' = [job EXCEPT ![c].at = "track"]
  /\ EndWrite(c)
  /\ UNCHANGED <<shared, tracked, link, rvars, pinger, cvars, panic>>

(* Send returns. *)
CallSends(c) ==
  /\ job[c].at = "write"
  /\ \/ /\ Sent(c)
        /\ served' = IF Reaches(c) THEN Served(job[c].op, job[c].channels, writing[c])
                     ELSE served
        /\ job' = [job EXCEPT ![c].at = "track"]
     \/ /\ NotSent(c)
        /\ job' = [job EXCEPT ![c] = NoJob]
        /\ UNCHANGED served
  /\ EndWrite(c)
  /\ UNCHANGED <<shared, tracked, link, rvars, pinger, cvars, panic>>

(* Mutant: Subscribe replaces the list instead of appending to it. *)
TrackOnly(c) ==
  /\ job[c].at = "track"
  /\ tracked' = IF job[c].op = "sub" THEN job[c].channels
                ELSE tracked \ job[c].channels
  /\ job' = [job EXCEPT ![c] = NoJob]
  /\ UNCHANGED <<shared, served, link, rvars, pinger, cvars, writing, panic>>

(* Once the message was sent, the list of tracked channels is updated. *)
CallTracks(c) ==
  /\ job[c].at = "track"
  /\ tracked' = IF job[c].op = "sub" THEN tracked \cup job[c].channels
                ELSE tracked \ job[c].channels
  /\ job' = [job EXCEPT ![c] = NoJob]
  /\ UNCHANGED <<shared, served, link, rvars, pinger, cvars, writing, panic>>

-----------------------------------------------------------------------------
(* Shutdown *)

Cancel ==
  /\ MayStop /\ ~cancelled
  /\ cancelled' = TRUE
  /\ UNCHANGED <<conn, isConnected, retryCount, done, subs, link, rvars, pinger, job,
                 cvars, writing, panic>>

(* Close: the channels tracked now are unsubscribed if there is a          *)
(* connection, ...                                                         *)
CloseBegins ==
  /\ closer = "idle" /\ cancelled
  /\ leaving' = tracked
  /\ IF tracked # {} /\ isConnected /\ conn # 0
       THEN closer' = "unsubscribe" /\ BeginWrite(Closer)
       ELSE /\ closer' = IF tracked = {} THEN "close" ELSE "clear"
            /\ UNCHANGED <<writing, panic>>
  /\ UNCHANGED <<shared, subs, link, rvars, pinger, job>>

CloseUnsubscribes ==
  /\ closer = "unsubscribe"
  /\ \/ Reaches(Closer) /\ served' = Served("unsub", leaving, writing[Closer])
     \/ NotSent(Closer) /\ UNCHANGED served
  /\ EndWrite(Closer)
  /\ closer' = "clear"
  /\ UNCHANGED <<shared, tracked, link, rvars, pinger, job, leaving, panic>>

CloseClears ==
  /\ closer = "clear"
  /\ tracked' = {}
  /\ closer' = "close"
  /\ UNCHANGED <<shared, served, link, rvars, pinger, job, leaving, writing, panic>>

(* ... and under the mutex c.done is closed, the close frame written and   *)
(* the connection closed.                                                  *)
CloseCloses ==
  /\ closer = "close"
  /\ done' = TRUE
  /\ IF conn = 0
       THEN UNCHANGED <<conn, isConnected, link, served, panic>>
       ELSE /\ panic' = IF \E w \in Writer : writing[w] = conn THEN "write" ELSE panic
            /\ link' = [link EXCEPT ![conn] = "closed"]
            /\ served' = [served EXCEPT ![conn] = {}]
            /\ conn' = 0 /\ isConnected' = FALSE
  /\ closer' = "returned"
  /\ UNCHANGED <<retryCount, cancelled, tracked, rvars, pinger, job, leaving, writing>>

-----------------------------------------------------------------------------
(* The network and the server *)

LinkEnds(k, fault, state) ==
  /\ fault \in Faults
  /\ link[k] = "open"
  /\ link' = [link EXCEPT ![k] = state]
  /\ served' = [served EXCEPT ![k] = {}]
  /\ UNCHANGED <<shared, tracked, rvars, pinger, job, cvars, writing, panic>>

-----------------------------------------------------------------------------
ReaderStep ==
  \/ ReadLoopTop \/ ReadReturns \/ AfterReadError \/ ReconnectBegins
  \/ NextAttempt \/ WaitToDial \/ DialSucceeds \/ DialFails \/ InstallConn
  \/ SetupPingPong

CloserStep == CloseBegins \/ CloseUnsubscribes \/ CloseClears \/ CloseCloses

Request == {"sub", "unsub"} \X ((SUBSET Channel) \ {{}})

WsNext ==
  /\ Alive
  /\ \/ ReaderStep
     \/ PingBegins \/ PingEnds \/ PingExits
     \/ \E c \in Caller : \/ \E r \in Request : CallBegins(c, r[1], r[2])
                          \/ CallSends(c) \/ CallTracks(c)
     \/ Cancel \/ CloserStep
     \/ \E k \in Conn : \/ LinkEnds(k, "read", "broken")
                        \/ LinkEnds(k, "peerClose", "shut")

WsSpec == WsInit /\ [][WsNext]_wsvars

(* Goroutines run and their calls return (dialling and writing have        *)
(* deadlines); shutdown() goes on to Close.  Nothing makes the program     *)
(* stop, callers call or the network fail.                                 *)
WsFairSpec ==
  /\ WsSpec
  /\ WF_wsvars(Alive /\ ReaderStep) /\ WF_wsvars(Alive /\ CloserStep)
  /\ WF_wsvars(Alive /\ PingEnds) /\ WF_wsvars(Alive /\ PingExits)
-----------------------------------------------------------------------------
(* Properties *)

(* What the server streams on the current connection is on the client's    *)
(* list, or a call is about to put it there: until it leaves, the client   *)
(* can always unsubscribe from everything it receives.                     *)
ServedIsTracked ==
  conn # 0 /\ closer \in {"idle", "unsubscribe", "clear"} =>
    served[conn] \subseteq
      tracked \cup UNION {job[c].channels : c \in {d \in Caller : job[d].at # "idle"}}

(* No call is in progress and the read loop waits for messages of a        *)
(* connection that works.                                                  *)
AtRest ==
  /\ closer = "idle" /\ \A c \in Caller : job[c].at = "idle"
  /\ reader = "read" /\ readConn = conn /\ link[conn] = "open"

(* "GetSubscribedChannels returns a copy of currently subscribed channels":*)
(* the server streams every channel on the list.  The subscription manager *)
(* relies on it, it only subscribes to what is not on the list.            *)
TrackedIsServed == AtRest => tracked \subseteq served[conn]

(* As long as there was no reconnection that is so, whatever writes fail   *)
(* or only seem to succeed.                                                *)
FirstConnServesTracked == AtRest /\ conn = 1 => tracked \subseteq served[conn]

(* "WebSocket client with auto-reconnection": the client stops reading     *)
(* only because the program stops or its attempts to reconnect are used up.*)
ReadsUntilStopped ==
  reader = "exited" => Stopping \/ retryCount > MaxRetries

(* The one other reason is that the server closed the connection itself.   *)
ReadsUntilServerCloses ==
  reader = "exited" => Stopping \/ retryCount > MaxRetries \/ link[readConn] = "shut"

(* A failed read is followed by another read, on a connection of its own,  *)
(* unless the attempts are used up or the program ends.                    *)
Reconnects ==
  reader = "failed" ~>
    (reader = "read" \/ Stopping \/ retryCount > MaxRetries \/ ~Alive)

(* After a shutdown began both loops end, wherever it met them: reading    *)
(* from a dead connection, dialling, or between the two.                   *)
StopsInTheEnd ==
  cancelled ~> (~Alive \/ (reader = "exited" /\ pinger = "exited"))

(* "Close closes the WebSocket connection gracefully": when it has         *)
(* returned and the read loop has ended, no connection of the client is    *)
(* left open.                                                              *)
ClosedForGood ==
  closer = "returned" /\ reader = "exited" => \A k \in Conn : link[k] # "open"

(* Close does not pull the connection from under the read loop that is     *)
(* setting it up.                                                          *)
NoNilConn == panic # "nil"

(* "Send sends a message through the WebSocket": it does not bring the     *)
(* process down because another goroutine is writing to it.                *)
OneWriter == panic # "write"
=============================================================================

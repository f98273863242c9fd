----------------------------- MODULE NotifyOnce -----------------------------
(***************************************************************************)
(* What the deduplicator promises to the rest of the program, whatever the *)
(* number of instances and workers: at any time at most one worker runs    *)
(* the processor of an event, and after a run that was recorded no worker  *)
(* starts another one of the same event until the record expires.  It      *)
(* promises nothing of an event while the lock of a run is overrun.        *)
(* README.md, "How Deduplication Works": "Only the instance that acquires  *)
(* the lock processes the event"; "Only one Telegram notification is sent".*)
(***************************************************************************)
EXTENDS Integers

CONSTANTS Event,         \* event keys (hash of type and data)
          ProcessedTTL   \* life of the "processed" record, in clock ticks

VARIABLES running,       \* the events whose processor is being run
          quiet,         \* ticks left before the event may be run again
          lapsed         \* the events of which nothing is promised for now

nvars == <<running, quiet, lapsed>>

NInit == running = {} /\ quiet = [e \in Event |-> 0] /\ lapsed = {}

(* A worker starts the processor of e. *)
Begin(e) ==
  /\ e \notin running
  /\ quiet[e] = 0
  /\ running' = running \cup {e}
  /\ UNCHANGED <<quiet, lapsed>>

(* The run of e is over and recorded; if e has lapsed it may not have been *)
(* the only one.                                                           *)
Finish(e) ==
  /\ e \in running
  /\ running' = running \ {e} \/ (e \in lapsed /\ running' = running)
  /\ quiet' = [quiet EXCEPT ![e] = ProcessedTTL]
  /\ UNCHANGED lapsed

(* Runs end without a record: an instance died or its SET failed. *)
Abandon(S) ==
  /\ running' = running \ S
  /\ UNCHANGED <<quiet, lapsed>>

(* Time passes.  A lock that is overrun makes its event lapse; the promise *)
(* holds again at the latest when no worker runs the event.                *)
Elapse ==
  /\ quiet' = [e \in Event |-> IF quiet[e] = 0 THEN 0 ELSE quiet[e] - 1]
  /\ lapsed' \in SUBSET Event
  /\ lapsed \cap running \subseteq lapsed'
  /\ UNCHANGED running

NNext ==
  \/ \E e \in Event : Begin(e) \/ Finish(e)
  \/ \E S \in SUBSET running : Abandon(S)
  \/ Elapse

NSpec == NInit /\ [][NNext]_nvars
=============================================================================

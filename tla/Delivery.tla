------------------------------- MODULE Delivery -------------------------------
(***************************************************************************)
(* One message on its way to the bots it is for: sendToMultipleBots of     *)
(* internal/handler/handler.go starts one goroutine per enabled bot, each  *)
(* with a Notifier of its own (internal/telegram/notifier.go), waits for   *)
(* all of them and reports.  A Notifier posts to the Telegram API and      *)
(* retries whatever error it gets, at most RetryCount times, with a pause  *)
(* that also ends when the context is cancelled.                           *)
(*                                                                         *)
(* An attempt is a step that begins and a step that ends, and it can fail  *)
(* in two ways that the program cannot tell apart: before Telegram got the *)
(* message, or after.  A Notifier that is made for a single message is     *)
(* never over its own rate limit; module Notification adds the one that    *)
(* lives as long as the program.                                           *)
(***************************************************************************)
EXTENDS Integers, FiniteSets

CONSTANTS Bot,
          RetryCount,   \* Config.RetryCount
          Faults        \* a subset of DeliveryFaults (and of others')

DeliveryFaults == {"refused",  \* the request fails or Telegram answers ok: false
                   "lost",     \* Telegram accepted it, its answer is lost
                   "cancel"}   \* the context is cancelled (then also "lost")

ASSUME DeliveryAssumption ==
  /\ IsFiniteSet(Bot)
  /\ RetryCount \in Nat

VARIABLES bots,       \* the bots sendToMultipleBots was called with, ...
          enabled,    \* ... and those of them that are enabled
          at,         \* [Bot -> BotAt], the goroutine of a bot
          tries,      \* [Bot -> attempts begun]
          delivered,  \* [Bot -> copies of the message in its chat]
          errors,     \* the bots whose error is in errChan
          cancelled,
          returned,   \* has sendToMultipleBots returned?
          result,     \* "none", "ok" or "error", what it returned
          sentCount,  \* the number of bots it reports as sent to
          lostAnswers \* history: bots that lost an answer of Telegram

dvars == <<bots, enabled, at, tries, delivered, errors, cancelled, returned,
           result, sentCount, lostAnswers>>

BotAt == {"skipped", "attempt", "post", "pause", "sent", "failed"}
Ended(b) == at[b] \in {"skipped", "sent", "failed"}

DeliveryTypeOK ==
  /\ bots \subseteq Bot /\ enabled \subseteq bots
  /\ at \in [Bot -> BotAt]
  /\ tries \in [Bot -> 0..(RetryCount + 1)]
  /\ delivered \in [Bot -> 0..(RetryCount + 1)]
  /\ errors \subseteq Bot
  /\ cancelled \in BOOLEAN /\ returned \in BOOLEAN
  /\ result \in {"none", "ok", "error"}
  /\ sentCount \in 0..Cardinality(Bot)
  /\ lostAnswers \subseteq Bot

AtStart(those) == [b \in Bot |-> IF b \in those THEN "attempt" ELSE "skipped"]

(* sendToMultipleBots was called with at least one bot. *)
DeliveryInit ==
  /\ bots \in (SUBSET Bot) \ {{}}
  /\ enabled \in SUBSET bots
  /\ at = AtStart(enabled)
  /\ tries = [b \in Bot |-> 0]
  /\ delivered = [b \in Bot |-> 0]
  /\ errors = {} /\ lostAnswers = {}
  /\ cancelled = FALSE /\ returned = FALSE /\ result = "none" /\ sentCount = 0

-----------------------------------------------------------------------------
Moves(b, step) == at' = [at EXCEPT ![b] = step]

(* send: the POST leaves. *)
Post(b) ==
  /\ at[b] = "attempt"
  /\ Moves(b, "post")
  /\ tries' = [tries EXCEPT ![b] = @ + 1]
  /\ UNCHANGED <<bots, enabled, delivered, errors, cancelled, returned, result,
                 sentCount, lostAnswers>>

(* Mutant: one retry more than RetryCount. *)
OneTryMore(b) == IF tries[b] <= RetryCount + 1 THEN "pause" ELSE "failed"

(* Mutant: an error ends the goroutine as if it had sent. *)
ErrorIsFinal(b) == "sent"

(* Mutant: no attempt after the first. *)
NoRetry(b) == "failed"

(* After an error: another attempt after the pause, or ErrSendFailed. *)
AfterError(b) == IF tries[b] <= RetryCount THEN "pause" ELSE "failed"

PostFails(b) ==
  /\ Moves(b, AfterError(b))
  /\ errors' = IF AfterError(b) = "failed" THEN errors \cup {b} ELSE errors

Delivers(b) == delivered' = [delivered EXCEPT ![b] = @ + 1]

(* Mutant: a message that was accepted is posted again. *)
GoesOn(b) == Moves(b, AfterError(b)) /\ UNCHANGED errors

PostSucceeds(b) == Moves(b, "sent") /\ UNCHANGED errors

(* send returns. *)
PostReturns(b) ==
  /\ at[b] = "post"
  /\ \/ /\ ~cancelled
        /\ Delivers(b) /\ PostSucceeds(b)
        /\ UNCHANGED lostAnswers
     \/ /\ cancelled \/ "lost" \in Faults
        /\ Delivers(b) /\ PostFails(b)
        /\ lostAnswers' = lostAnswers \cup {b}
     \/ /\ cancelled \/ "refused" \in Faults
        /\ PostFails(b)
        /\ UNCHANGED <<delivered, lostAnswers>>
  /\ UNCHANGED <<bots, enabled, tries, cancelled, returned, result, sentCount>>

(* The backoff: over, or cut short by the context. *)
Resume(b) ==
  /\ at[b] = "pause"
  /\ \/ Moves(b, "attempt") /\ UNCHANGED errors
     \/ cancelled /\ Moves(b, "failed") /\ errors' = errors \cup {b}
  /\ UNCHANGED <<bots, enabled, tries, delivered, cancelled, returned, result,
                 sentCount, lostAnswers>>

(* Mutant: wg.Add is called for the bots that are skipped, too. *)
AllBotsEnded == \A b \in bots : at[b] \in {"sent", "failed"}

AllEnded == \A b \in Bot : Ended(b)

(* wg.Wait, then errChan is drained for the first error before its length  *)
(* is taken: the count of failures is always 0.                            *)
Return ==
  /\ ~returned
  /\ AllEnded
  /\ returned' = TRUE
  /\ result' = IF errors = {} THEN "ok" ELSE "error"
  /\ errors' = {}
  /\ sentCount' = Cardinality(bots) - Cardinality(errors')
  /\ UNCHANGED <<bots, enabled, at, tries, delivered, cancelled, lostAnswers>>

CancelContext ==
  /\ "cancel" \in Faults
  /\ ~cancelled
  /\ cancelled' = TRUE
  /\ UNCHANGED <<bots, enabled, at, tries, delivered, errors, returned, result,
                 sentCount, lostAnswers>>

DeliveryNext ==
  \/ \E b \in Bot : Post(b) \/ PostReturns(b) \/ Resume(b)
  \/ Return
  \/ CancelContext

DeliverySpec == DeliveryInit /\ [][DeliveryNext]_dvars

-----------------------------------------------------------------------------
(* Properties *)

(* sendToMultipleBots returns no error only if the message is in the chat  *)
(* of every enabled bot.                                                   *)
OkMeansDelivered == result = "ok" => \A b \in enabled : delivered[b] > 0

(* An error is returned only after some bot used up all its attempts, or   *)
(* because the context was cancelled: no failure that was retried with     *)
(* success surfaces, and no bot gives up early because another one failed. *)
ErrorMeansExhausted ==
  result = "error" =>
    cancelled \/ \E b \in enabled : at[b] = "failed" /\ tries[b] = RetryCount + 1

(* A second copy reaches a chat only because the answer to the first one   *)
(* was lost (or came after the context was cancelled): a retry that was    *)
(* refused, or the failure of another bot, duplicates nothing.             *)
CopiesNeedLostAnswers ==
  \A b \in Bot : delivered[b] > 1 => b \in lostAnswers

(* "Notify Once: Only one Telegram notification is sent". *)
OneCopy == \A b \in Bot : delivered[b] <= 1

(* The number reported as sent_count is the number of bots the message was *)
(* sent to.                                                                *)
SentCountRight == returned => sentCount = Cardinality({b \in Bot : at[b] = "sent"})
=============================================================================

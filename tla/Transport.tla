------------------------------ MODULE Transport ------------------------------
(***************************************************************************)
(* One toolless completion of a phase, down to its HTTP requests            *)
(* (src/src/consult/engine.rs, run_completion; completion_retry.rs,         *)
(* RetryingHttp and retry_malformed; completion_watch.rs, Watch and         *)
(* CompletionLog): a transient failure is waited out and sent again below   *)
(* the model, a malformed generation is asked for again above it, and the   *)
(* log between the two counts completions, not requests.                    *)
(***************************************************************************)
EXTENDS Integers, Sequences

CONSTANT AskedDelays   \* seconds a provider may ask for; 0 is no hint

ASSUME DelaysAssumption == AskedDelays \subseteq Nat

TRANSIENT_RETRIES == 4
TRANSIENT_BACKOFF_FLOOR == 1
TRANSIENT_BACKOFF_FACTOR == 2
TRANSIENT_BACKOFF_CAP == 60
MALFORMED_RETRIES == 2

VARIABLES
  sendAt,    \* "ready", "sent", "waiting", "done"
  attempt,   \* transient retries of this completion
  again,     \* malformed retries of this phase
  asked,     \* the delay the last failure asked for
  wait,      \* the wait it was given
  requests,  \* history: HTTP requests, and the transient failures among them
  log,       \* CompletionLog: [attempts, turns]; a turn is its finish reason
  result     \* what the phase returned

transportVars == <<sendAt, attempt, again, asked, wait, requests, log, result>>

TransportInit ==
  /\ sendAt = "ready" /\ attempt = 0 /\ again = 0
  /\ asked = 0 /\ wait = 0
  /\ requests = [sent |-> 0, transient |-> 0]
  /\ log = [attempts |-> 0, turns |-> <<>>]
  /\ result = "none"

-----------------------------------------------------------------------------
SmallerOf(a, b) == IF a <= b THEN a ELSE b
LargerOf(a, b) == IF a <= b THEN b ELSE a

BackoffCeiling(k) ==
  SmallerOf(TRANSIENT_BACKOFF_FLOOR * TRANSIENT_BACKOFF_FACTOR ^ (k - 1), TRANSIENT_BACKOFF_CAP)

\* Full jitter under the ceiling, no less than asked for, no more than the cap.
TransientWait(k, hint) ==
  {SmallerOf(LargerOf(hint, b), TRANSIENT_BACKOFF_CAP) : b \in 0..BackoffCeiling(k)}

Send ==
  /\ sendAt \in {"ready", "waiting"}
  /\ sendAt' = "sent"
  /\ requests' = [requests EXCEPT !.sent = @ + 1]
  /\ UNCHANGED <<attempt, again, asked, wait, log, result>>

\* Mutant of Transient: the counter starts over at every request.
TransientForgets ==
  /\ sendAt = "sent" /\ requests.sent < 20
  /\ \E hint \in AskedDelays :
       asked' = hint /\ wait' \in TransientWait(1, hint)
  /\ sendAt' = "waiting"
  /\ requests' = [requests EXCEPT !.transient = @ + 1]
  /\ UNCHANGED <<attempt, again, log, result>>

\* 429, 500, 502, 503 or 529, with retries left: wait, and send the same again.
Transient ==
  /\ sendAt = "sent" /\ attempt < TRANSIENT_RETRIES
  /\ attempt' = attempt + 1
  /\ \E hint \in AskedDelays :
       asked' = hint /\ wait' \in TransientWait(attempt', hint)
  /\ sendAt' = "waiting"
  /\ requests' = [requests EXCEPT !.transient = @ + 1]
  /\ UNCHANGED <<again, log, result>>

\* Watch::record: every completion that came back is an attempt, and one that
\* answered is a turn.
Recorded(turns) == log' = [attempts |-> log.attempts + 1, turns |-> log.turns \o turns]

Gives(end) ==
  /\ sendAt' = "done" /\ result' = end
  /\ Recorded(<<>>)
  /\ UNCHANGED <<attempt, again, asked, wait>>

\* Another status, or no status at all, is the phase's failure at once; so is a
\* transient one with no retries left.
RequestFails ==
  /\ sendAt = "sent"
  /\ \E status \in {"refused"} \cup (IF attempt = TRANSIENT_RETRIES THEN {"transient"} ELSE {}) :
       /\ Gives(status)
       /\ requests' = [requests EXCEPT !.transient = @ + (IF status = "transient" THEN 1 ELSE 0)]

\* A provider error that names a malformed generation: the request is made anew,
\* with a transport of its own.
Malformed ==
  /\ sendAt = "sent" /\ again < MALFORMED_RETRIES
  /\ again' = again + 1
  /\ sendAt' = "ready" /\ attempt' = 0
  /\ Recorded(<<>>)
  /\ UNCHANGED <<asked, wait, requests, result>>

MalformedOnceMore ==
  /\ sendAt = "sent" /\ again = MALFORMED_RETRIES
  /\ Gives("malformed")
  /\ UNCHANGED requests

\* A reply: its text is the answer, and no text is an error of its own.
Replies ==
  /\ sendAt = "sent"
  /\ \E finish \in {"stop", "empty"} :
       /\ result' = IF finish = "stop" THEN "answer" ELSE "empty"
       /\ Recorded(<<finish>>)
  /\ sendAt' = "done"
  /\ UNCHANGED <<attempt, again, asked, wait, requests>>

\* The call's deadline drops the phase where it waits; the watch hears nothing.
DeadlineDrops ==
  /\ sendAt \in {"sent", "waiting"}
  /\ sendAt' = "done" /\ result' = "dropped"
  /\ UNCHANGED <<attempt, again, asked, wait, requests, log>>

TransportNext ==
  \/ Send \/ Transient \/ RequestFails \/ Malformed \/ MalformedOnceMore
  \/ Replies \/ DeadlineDrops

TransportSpec == TransportInit /\ [][TransportNext]_transportVars
-----------------------------------------------------------------------------
(***************************************************************************)
(* Properties.                                                             *)
(***************************************************************************)

\* TRANSIENT_RETRIES under MALFORMED_RETRIES: the two retries multiply and no
\* more, whatever the provider does: fifteen requests for one toolless answer.
RequestsBounded ==
  requests.sent <= (1 + TRANSIENT_RETRIES) * (1 + MALFORMED_RETRIES)

\* A provider's own delay is kept to, up to the cap, and no wait is over it.
DelayIsKept ==
  sendAt = "waiting" => wait <= TRANSIENT_BACKOFF_CAP /\ wait >= SmallerOf(asked, TRANSIENT_BACKOFF_CAP)

\* CompletionLog::attempts counts completions: what gen_ai.invoke_agent.inference_calls
\* reports is one for every one that came back, and not the requests below it.
AttemptsAreCompletions ==
  /\ Len(log.turns) <= log.attempts
  /\ result # "none" => log.attempts = again + (IF result = "dropped" THEN 0 ELSE 1)
  /\ result \in {"answer", "empty"} => Len(log.turns) = 1

\* A transient failure reaches the caller only after its retries were spent.
TransientIsTriedAgain ==
  result = "transient" => requests.transient >= 1 + TRANSIENT_RETRIES

\* Together: the retries are all made, are no more than both caps allow, wait as
\* asked, and count as one completion each.
RetriesHold ==
  RequestsBounded /\ DelayIsKept /\ AttemptsAreCompletions /\ TransientIsTriedAgain
=============================================================================

---------------------------- MODULE BatchResults ----------------------------
(***************************************************************************)
(* What job_get and job_wait say of one batch (src/src/batch.rs): four      *)
(* providers end a batch in their own states and hand back their own kinds  *)
(* of result lines; kaibo turns them into one answer per item, adds an      *)
(* answer of its own for an item a finished batch says nothing of, and      *)
(* marks an answer the provider cut short.                                  *)
(***************************************************************************)
EXTENDS Naturals

CONSTANT MaxItems   \* bound: prompts of a batch

ASSUME ItemsAssumption == MaxItems \in Nat \ {0}

VARIABLES
  lane,      \* the provider the batch is at
  requests,  \* the custom ids sent, once submitted
  remote,    \* the provider's state for the batch
  item,      \* what became of each request at the provider
  reply,     \* what the last poll told the caller
  counted    \* history: that poll knew how many items were sent

resultVars == <<lane, requests, remote, item, reply, counted>>

Lanes == {"anthropic", "gemini", "openai", "openrouter"}

\* The words a lane has for a finished answer ("none": it said nothing), and
\* some it has for one that did not finish.
Finished == [l \in Lanes |-> CASE l = "anthropic" -> {"end_turn", "stop_sequence", "none"}
                               [] l = "gemini" -> {"STOP", "none"}
                               [] l = "openai" -> {"completed", "none"}
                               [] l = "openrouter" -> {"stop", "none"}]
Unfinished == [l \in Lanes |-> CASE l = "anthropic" -> {"max_tokens", "refusal"}
                                 [] l = "gemini" -> {"MAX_TOKENS", "SAFETY"}
                                 [] l = "openai" -> {"incomplete", "failed"}
                                 [] l = "openrouter" -> {"length", "error"}]

\* An item that ran has text, only a thought, or nothing, and a stop; "errored"
\* stands for a request error, "dropped" is never heard of again.
Ran(l) == [said : {"text", "thought", "nothing"}, stop : Finished[l] \cup Unfinished[l] \cup {"errored"}]
Queued == [said |-> "nothing", stop |-> "queued"]
Canceled == [said |-> "nothing", stop |-> "canceled"]
Dropped == [said |-> "nothing", stop |-> "dropped"]

\* The terminal states; the first of each lane promises the whole result set.
WholeEnd == [l \in Lanes |-> CASE l = "anthropic" -> "ended"
                               [] l = "gemini" -> "succeeded"
                               [] OTHER -> "completed"]
PartialEnds(l) == IF l = "anthropic" THEN {} ELSE {"failed", "expired", "cancelled"}
Ended(l) == {WholeEnd[l]} \cup PartialEnds(l)

NoAnswers == [i \in {} |-> "whole"]
Showing(tag, answers) == [tag |-> tag, answers |-> answers]

ResultsInit ==
  /\ lane \in Lanes
  /\ requests = {} /\ remote = "none"
  /\ item = [i \in {} |-> Queued]
  /\ reply = Showing("nothing", NoAnswers) /\ counted = FALSE

-----------------------------------------------------------------------------
(* Submitting: each lane's body names an item by its index. *)

RequestIds(n) == 0..(n - 1)

SubmitBatch ==
  /\ remote = "none"
  /\ \E n \in 1..MaxItems :
       /\ requests' = RequestIds(n)
       /\ item' = [i \in RequestIds(n) |-> Queued]
  /\ remote' = "running"
  /\ UNCHANGED <<lane, reply, counted>>

-----------------------------------------------------------------------------
(* The provider. *)

Unended == remote \in {"running", "cancelling"}

RunItem ==
  /\ Unended
  /\ \E i \in requests, o \in Ran(lane) \cup {Dropped} :
       item[i] = Queued /\ item' = [item EXCEPT ![i] = o]
  /\ UNCHANGED <<lane, requests, remote, reply, counted>>

\* Anthropic gives every request it did not run a line of its own.
EndWhole ==
  /\ Unended
  /\ lane = "anthropic" \/ \A i \in requests : item[i] # Queued
  /\ item' = [i \in requests |-> IF item[i] = Queued THEN Canceled ELSE item[i]]
  /\ remote' = WholeEnd[lane]
  /\ UNCHANGED <<lane, requests, reply, counted>>

EndPartial ==
  /\ Unended
  /\ remote' \in PartialEnds(lane)
  /\ UNCHANGED <<lane, requests, item, reply, counted>>

-----------------------------------------------------------------------------
(* kaibo. *)

AnthropicGate(stop) == stop \in {"end_turn", "stop_sequence", "none"}
GeminiGate(stop) == stop \in {"STOP", "none"}
OpenaiGate(stop) == stop \in {"completed", "none"}
OpenrouterGate(stop) == stop \in {"stop", "none"}

\* finish_gated_answer: text cut short is passed on with its banner, and an
\* answer without text is a failure of its item.
Gated(text, ok) ==
  CASE text /\ ok -> "whole"
    [] text /\ ~ok -> "incomplete"
    [] ~text -> "no answer"

\* The text of a response: what each lane marks as text, and no part of its thinking.
GeminiText(o) == o.said = "text"
MessageText(o) == o.said = "text"
OpenaiText(o) == o.said = "text"
OpenrouterText(o) == o.said = "text"

\* One result line of each lane; a request error has no response beside it.
AnthropicAnswer(o) ==
  IF o.stop \in {"errored", "canceled"} THEN "failed" ELSE Gated(MessageText(o), AnthropicGate(o.stop))
GeminiAnswer(o) ==
  IF o.stop = "errored" THEN "failed" ELSE Gated(GeminiText(o), GeminiGate(o.stop))
OpenaiAnswer(o) ==
  IF o.stop = "errored" THEN "failed" ELSE Gated(OpenaiText(o), OpenaiGate(o.stop))
OpenrouterAnswer(o) ==
  IF o.stop = "errored" THEN "failed" ELSE Gated(OpenrouterText(o), OpenrouterGate(o.stop))

Answer(o) ==
  CASE lane = "anthropic" -> AnthropicAnswer(o)
    [] lane = "gemini" -> GeminiAnswer(o)
    [] lane = "openai" -> OpenaiAnswer(o)
    [] lane = "openrouter" -> OpenrouterAnswer(o)

\* The items the provider's results have a line for.
LinesOf == {i \in requests : item[i] \in Ran(lane) \cup {Canceled}}

\* cross_check_absentees: count is what the handle's row remembers, as a set of
\* one, or {}.
CrossCheck(lines, count) ==
  LET expected == UNION {0..(n - 1) : n \in count}
  IN [i \in lines \cup expected |-> IF i \in lines THEN Answer(item[i]) ELSE "missing"]

\* Every result line is there once the batch has ended.
PollAnthropic(count) == Showing("done", CrossCheck(LinesOf, count))

\* Mutant of PollGemini: a partial end is checked against the count too.
PollGeminiChecked(count) ==
  IF remote = "succeeded" \/ LinesOf # {} THEN Showing("done", CrossCheck(LinesOf, count))
  ELSE Showing("failed", NoAnswers)

\* Cancelled, failed or expired: what finished before, unchecked; or the reason.
PollGemini(count) ==
  IF remote = "succeeded" THEN Showing("done", CrossCheck(LinesOf, count))
  ELSE IF LinesOf # {} THEN Showing("done", CrossCheck(LinesOf, {}))
  ELSE Showing("failed", NoAnswers)

FinalizeOpenai(count) ==
  CrossCheck(LinesOf, IF remote = "completed" THEN count ELSE {})

\* The output file and the error file together; neither: the batch's own errors.
PollOpenai(count) ==
  IF LinesOf = {} THEN Showing("failed", NoAnswers)
  ELSE Showing("done", FinalizeOpenai(count))

PollOpenrouter(count) ==
  IF LinesOf = {} THEN Showing("failed", NoAnswers)
  ELSE Showing("done", FinalizeOpenai(count))

Terminal(count) ==
  CASE lane = "anthropic" -> PollAnthropic(count)
    [] lane = "gemini" -> PollGemini(count)
    [] lane = "openai" -> PollOpenai(count)
    [] lane = "openrouter" -> PollOpenrouter(count)

\* The count is on the handle's row, unless the row is old, pruned or unread.
Counts == {{}, {CHOOSE n \in 1..MaxItems : requests = 0..(n - 1)}}

\* A GET that fails shows an error and changes nothing here.
PollWith(count) ==
  /\ counted' = (count # {})
  /\ reply' = CASE remote = "running" -> Showing("progress", NoAnswers)
                [] remote = "cancelling" -> Showing("cancelling", NoAnswers)
                [] OTHER -> Terminal(count)

\* The server keeps its store open; a command line opens it for the poll, and
\* goes on without one that would not open.
JobGet ==
  /\ remote # "none"
  /\ \E count \in Counts : PollWith(count)
  /\ UNCHANGED <<lane, requests, remote, item>>

CliGet ==
  /\ remote # "none"
  /\ \E count \in Counts : PollWith(count)
  /\ UNCHANGED <<lane, requests, remote, item>>

\* job_cancel: a request to the provider; OpenRouter's has no such route.
Cancelable(l) == l # "openrouter"
CancelledTo(l) == IF l = "gemini" THEN "cancelled" ELSE "cancelling"
CancelBatch ==
  /\ remote = "running" /\ Cancelable(lane)
  /\ remote' = CancelledTo(lane)
  /\ UNCHANGED <<lane, requests, item, reply, counted>>

ResultsNext == SubmitBatch \/ RunItem \/ EndWhole \/ EndPartial \/ JobGet \/ CliGet \/ CancelBatch

ResultsSpec == ResultsInit /\ [][ResultsNext]_resultVars
-----------------------------------------------------------------------------
(***************************************************************************)
(* Properties.                                                             *)
(***************************************************************************)

Told(a) == {i \in DOMAIN reply.answers : reply.answers[i] = a}

\* "a genuinely partial batch must never render its known-incomplete items as
\* kaibo's own 'missing' absentees" (parse_gemini_poll): what is told missing
\* was sent, and the provider finished the batch without a line for it.
AbsenteesAreReal == \A i \in Told("missing") : i \in requests /\ item[i] = Dropped

\* "a single bad item is reported, never silently dropped": a poll that knows
\* how many items were sent tells of every one, unless the batch ended early.
EveryItemToldOf ==
  reply.tag = "done" /\ counted /\ remote = WholeEnd[lane] => DOMAIN reply.answers = requests

\* A cut answer is never passed off as a finished one, and a whole one is never
\* withheld, whatever the lane called its stop.
CutIsMarked ==
  \A i \in DOMAIN reply.answers :
    /\ (reply.answers[i] = "whole") = (item[i].said = "text" /\ item[i].stop \in Finished[lane])
    /\ (reply.answers[i] = "incomplete") = (item[i].said = "text" /\ item[i].stop \in Unfinished[lane])

\* "No item returned an answer" (render_poll) is only said of a batch without one.
FailedHasNoAnswer == reply.tag = "failed" => \A i \in requests : item[i] \notin Ran(lane)

\* What a poll told of an item stays: a later poll tells the same of it, or no
\* longer knows that it is missing; and a batch told failed has no answers later.
ToldStays ==
  [][/\ reply.tag = "failed" => reply'.tag = "failed"
     /\ reply.tag = "done" =>
          /\ reply'.tag = "done"
          /\ \A i \in DOMAIN reply.answers :
               \/ reply.answers[i] = "missing"
               \/ i \in DOMAIN reply'.answers /\ reply'.answers[i] = reply.answers[i]]_resultVars

\* Together: what a poll tells of an item is what became of it, and stays.
AnswersAreTold ==
  [](AbsenteesAreReal /\ EveryItemToldOf /\ CutIsMarked /\ FailedHasNoAnswer) /\ ToldStays
=============================================================================
